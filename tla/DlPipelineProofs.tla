--------------------------- MODULE DlPipelineProofs ---------------------------
(***************************************************************************)
(* Proof that the responses on a pipelined connection go to the jobs that  *)
(* asked for them, for any jobs, mirrors, limits and answers of the        *)
(* servers.  Responses carry no name; what keeps them apart is that the    *)
(* bytes under way are always the rest of the answer to the first job of   *)
(* the pipeline, as its state says, and then the requests of the others in *)
(* their order.  That breaks in the two ways that taint records, and never *)
(* comes back, so all parts of the invariant are about untainted states.   *)
(***************************************************************************)
EXTENDS DlPipeline, FiniteSetTheorems, SequenceTheorems, WellFoundedInduction, TLAPS

\* The tDlJob objects.
JobType ==
    [backend : BOOLEAN, cur : Hosts \cup {NoHost}, host : Hosts \cup {NoHost},
     file : Jobs, redir : Int, st : {"header", "data", "chunk"}, rest : Int,
     store : BOOLEAN, assigned : BOOLEAN]

\* A job is in the queues at most once.
NoRepeat(q) == \A a, b \in DOMAIN q : q[a] = q[b] => a = b
Apart(p, q) == Elems(p) \cap Elems(q) = {}

Queued(j) == j \in Elems(newJobs) \/ j \in Elems(nextJobs) \/ j \in Elems(activeJobs)

QueueInv ==
    /\ fate \in [Jobs -> {"new", "open", "done", "failed"}]
    /\ newJobs \in Seq(Jobs) /\ nextJobs \in Seq(Jobs) /\ activeJobs \in Seq(Jobs)
    /\ NoRepeat(newJobs) /\ NoRepeat(nextJobs) /\ NoRepeat(activeJobs)
    /\ Apart(newJobs, nextJobs) /\ Apart(newJobs, activeJobs) /\ Apart(nextJobs, activeJobs)
    /\ \A j \in Jobs : fate[j] = "new" => ~Queued(j)

\* Where WorkLoop is, and what it has then.
PlaceInv ==
    /\ pc \in {"connect", "dial"} => con = NoHost
    /\ pc = "fill" => con # NoHost
    /\ con = NoHost => activeJobs = <<>>
    /\ pc = "dial" => nextJobs # <<>> /\ PeerHost(job[nextJobs[1]]) \in Hosts

\* A redirection was seen, and is yet to be followed: the buffer does not matter.
Redirecting == pc = "result" /\ Has("TGT")

RedirectInv ==
    Redirecting => activeJobs # <<>> /\ ~Has("DONE") /\ ~Has("SWITCH") /\ ~Has("MORE")

\* A job points to its own file, and only the first of the pipeline has begun.
JobInv ==
    /\ job \in [Jobs -> JobType]
    /\ \A j \in Jobs : job[j].file = j
    /\ con # NoHost \/ pc = "dial" =>
         \A j \in Jobs : (activeJobs = <<>> \/ j # Front) => job[j].st = "header"

Requests(q) == [k \in 1..Len(q) |-> Request(q[k])]

Kinds == {"ok", "chunked", "error", "nokey", "noloc", "nolen", "redirect",
          "hint", "odd"}

Tokens ==
    {Request(j) : j \in Jobs} \cup {Data(j) : j \in Jobs} \cup {LastChunk(j) : j \in Jobs}
      \cup {Junk}
      \cup [k : {"head"}, kind : Kinds, of : Jobs, len : Nat, dest : Hosts \cup {NoHost}]

\* What can still come for a job in each state of its stream.
Remains(j, st) ==
    IF st = "header" THEN {<<Request(j)>>} \cup Replies(j)
    ELSE IF st = "data" THEN {<<Data(j)>>}
    ELSE {<<Data(j), LastChunk(j)>>, <<LastChunk(j)>>, <<Junk>>}

\* The bytes under way are the rest r of the first answer and the requests of the
\* others; those in the buffer belong to that answer, and are no request that is
\* yet to be answered.
StreamOf(r) ==
    /\ inBuf \o wire = r \o Requests(Tail(activeJobs))
    /\ Len(inBuf) <= Len(r)
    /\ r[Len(r)].k = "request" => Len(inBuf) < Len(r)

StreamInv ==
    /\ inBuf \in Seq(Tokens) /\ wire \in Seq(Tokens)
    /\ activeJobs = <<>> => inBuf = <<>> /\ wire = <<>>
    /\ activeJobs # <<>> => /\ \E r \in Remains(Front, job[Front].st) : StreamOf(r)
                            /\ job[Front].st = "data" => job[Front].rest = 1

\* What the properties are about.
OwnInv ==
    /\ got \in [Jobs -> SUBSET (Jobs \cup {NoHost})]
    /\ \A j \in Jobs : got[j] \subseteq {j}
    /\ DOMAIN idle = Hosts
    /\ \A h \in Hosts : idle[h] # NoConn => idle[h].out = <<>>

PipeInv ==
    /\ PlaceInv
    /\ RedirectInv
    /\ JobInv
    /\ ~Redirecting => StreamInv
    /\ OwnInv

Inv == QueueInv /\ (taint = {} => PipeInv)

-----------------------------------------------------------------------------
(* Sequences                                                               *)

\* Nothing is in an empty queue.
LEMMA EmptyQueue == Elems(<<>>) = {} /\ NoRepeat(<<>>)
  BY DEF Elems, NoRepeat

\* A queue without its first job (pop_front).
LEMMA TailQueue ==
    ASSUME NEW S, NEW q \in Seq(S), q # <<>>
    PROVE  /\ Tail(q) \in Seq(S)
           /\ q[1] \in S /\ q[1] \in Elems(q)
           /\ Elems(Tail(q)) \subseteq Elems(q)
           /\ NoRepeat(q) => NoRepeat(Tail(q)) /\ q[1] \notin Elems(Tail(q))
  <1> DEFINE t == Tail(q)
  <1>1. /\ Len(q) \in Nat /\ Len(q) >= 1 /\ DOMAIN q = 1..Len(q)
        /\ t \in Seq(S) /\ DOMAIN t = 1..(Len(q) - 1)
        /\ \A k \in 1..(Len(q) - 1) : t[k] = q[k + 1]
    OBVIOUS
  <1> HIDE DEF t
  <1>2. \A k \in DOMAIN t : k + 1 \in DOMAIN q /\ t[k] = q[k + 1] /\ k + 1 # 1
    BY <1>1
  <1>3. 1 \in DOMAIN q /\ q[1] \in S
    BY <1>1
  <1>4. Elems(t) \subseteq Elems(q)
    BY <1>2 DEF Elems
  <1>5. ASSUME NoRepeat(q) PROVE NoRepeat(t)
    <2> SUFFICES ASSUME NEW a \in DOMAIN t, NEW b \in DOMAIN t, t[a] = t[b] PROVE a = b
      BY DEF NoRepeat
    <2>1. a + 1 = b + 1
      BY <1>2, <1>5 DEF NoRepeat
    <2> QED  BY <1>1, <2>1
  <1>6. ASSUME NoRepeat(q) PROVE q[1] \notin Elems(t)
    <2> SUFFICES ASSUME NEW a \in DOMAIN t, q[1] = t[a] PROVE FALSE
      BY DEF Elems
    <2> QED  BY <1>2, <1>3, <1>6 DEF NoRepeat
  <1> QED  BY <1>1, <1>3, <1>4, <1>5, <1>6 DEF t, Elems

\* A queue with one more job (splice to its end).
LEMMA AppendQueue ==
    ASSUME NEW S, NEW q \in Seq(S), NEW x \in S
    PROVE  /\ Append(q, x) \in Seq(S)
           /\ Elems(Append(q, x)) = Elems(q) \cup {x}
           /\ NoRepeat(q) /\ x \notin Elems(q) => NoRepeat(Append(q, x))
           /\ Append(q, x) # <<>>
           /\ q # <<>> => Append(q, x)[1] = q[1]
           /\ q = <<>> => Append(q, x)[1] = x
  <1> DEFINE t == Append(q, x)
  <1>1. /\ Len(q) \in Nat /\ DOMAIN q = 1..Len(q)
        /\ t \in Seq(S) /\ DOMAIN t = 1..(Len(q) + 1)
        /\ \A k \in 1..Len(q) : t[k] = q[k]
        /\ t[Len(q) + 1] = x
    OBVIOUS
  <1>2. q # <<>> => Len(q) >= 1
    OBVIOUS
  <1>2a. q = <<>> => Len(q) = 0
    OBVIOUS
  <1> HIDE DEF t
  <1>3. \A k \in DOMAIN t : k \in DOMAIN q \/ k = Len(q) + 1
    BY <1>1
  <1>4. Elems(t) = Elems(q) \cup {x}
    <2>1. \A y \in Elems(t) : y \in Elems(q) \cup {x}
      BY <1>1, <1>3 DEF Elems
    <2>2. x \in Elems(t)
      BY <1>1 DEF Elems
    <2>3. \A y \in Elems(q) : y \in Elems(t)
      <3> TAKE y \in Elems(q)
      <3>1. PICK k \in DOMAIN q : y = q[k]
        BY DEF Elems
      <3>2. k \in DOMAIN t /\ t[k] = y
        BY <1>1, <3>1
      <3> QED  BY <3>2 DEF Elems
    <2> QED  BY <2>1, <2>2, <2>3
  <1>5. ASSUME NoRepeat(q), x \notin Elems(q) PROVE NoRepeat(t)
    <2> SUFFICES ASSUME NEW a \in DOMAIN t, NEW b \in DOMAIN t, t[a] = t[b] PROVE a = b
      BY DEF NoRepeat
    <2>1. CASE a \in DOMAIN q /\ b \in DOMAIN q
      BY <1>1, <1>5, <2>1 DEF NoRepeat
    <2>2. CASE a \in DOMAIN q /\ b = Len(q) + 1
      <3>1. q[a] = x /\ q[a] \in Elems(q)
        BY <1>1, <2>2 DEF Elems
      <3> QED  BY <1>5, <3>1
    <2>3. CASE b \in DOMAIN q /\ a = Len(q) + 1
      <3>1. q[b] = x /\ q[b] \in Elems(q)
        BY <1>1, <2>3 DEF Elems
      <3> QED  BY <1>5, <3>1
    <2> QED  BY <1>3, <2>1, <2>2, <2>3
  <1>6. t # <<>>
    BY <1>1
  <1>7. (q # <<>> => t[1] = q[1]) /\ (q = <<>> => t[1] = x)
    BY <1>1, <1>2, <1>2a
  <1> QED  BY <1>1, <1>4, <1>5, <1>6, <1>7 DEF t

\* A queue that was spliced before another one.
LEMMA JoinQueue ==
    ASSUME NEW S, NEW p \in Seq(S), NEW q \in Seq(S)
    PROVE  /\ p \o q \in Seq(S)
           /\ Elems(p \o q) = Elems(p) \cup Elems(q)
           /\ NoRepeat(p) /\ NoRepeat(q) /\ Apart(p, q) => NoRepeat(p \o q)
  <1> DEFINE t == p \o q
             m == Len(p)
  <1>1. /\ Len(p) \in Nat /\ DOMAIN p = 1..m /\ Len(q) \in Nat /\ DOMAIN q = 1..Len(q)
        /\ m \in Nat
    OBVIOUS
  <1>2. /\ t \in Seq(S) /\ Len(t) = m + Len(q)
        /\ \A k \in 1..(m + Len(q)) : t[k] = IF k <= m THEN p[k] ELSE q[k - m]
    BY ConcatProperties
  <1>3. DOMAIN t = 1..(m + Len(q))
    BY <1>2
  <1> HIDE DEF t, m
  <1>4. \A k \in DOMAIN p : k \in DOMAIN t /\ t[k] = p[k]
    BY <1>1, <1>2, <1>3
  <1>5. \A k \in DOMAIN q : k + m \in DOMAIN t /\ t[k + m] = q[k]
    BY <1>1, <1>2, <1>3
  <1>6. \A k \in DOMAIN t : \/ k \in DOMAIN p /\ t[k] = p[k]
                            \/ k - m \in DOMAIN q /\ t[k] = q[k - m]
    BY <1>1, <1>2, <1>3
  <1>7. \A k \in DOMAIN p : p[k] \in Elems(p)
    BY DEF Elems
  <1>8. \A k \in DOMAIN q : q[k] \in Elems(q)
    BY DEF Elems
  <1>9. Elems(t) = Elems(p) \cup Elems(q)
    <2>1. \A y \in Elems(t) : y \in Elems(p) \cup Elems(q)
      <3> TAKE y \in Elems(t)
      <3>1. PICK k \in DOMAIN t : y = t[k]
        BY DEF Elems
      <3> QED  BY <1>6, <1>7, <1>8, <3>1
    <2>2. \A k \in DOMAIN t : t[k] \in Elems(t)
      BY DEF Elems
    <2>3. \A y \in Elems(p) : y \in Elems(t)
      <3> TAKE y \in Elems(p)
      <3>1. PICK k \in DOMAIN p : y = p[k]
        BY DEF Elems
      <3> QED  BY <1>4, <2>2, <3>1
    <2>4. \A y \in Elems(q) : y \in Elems(t)
      <3> TAKE y \in Elems(q)
      <3>1. PICK k \in DOMAIN q : y = q[k]
        BY DEF Elems
      <3> QED  BY <1>5, <2>2, <3>1
    <2> QED  BY <2>1, <2>3, <2>4
  <1>10. ASSUME NoRepeat(p), NoRepeat(q), Apart(p, q) PROVE NoRepeat(t)
    <2> SUFFICES ASSUME NEW a \in DOMAIN t, NEW b \in DOMAIN t, t[a] = t[b] PROVE a = b
      BY DEF NoRepeat
    <2>1. a \in Int /\ b \in Int
      BY <1>1, <1>3
    <2>2. CASE a \in DOMAIN p /\ t[a] = p[a] /\ b \in DOMAIN p /\ t[b] = p[b]
      BY <1>10, <2>2 DEF NoRepeat
    <2>3. CASE a - m \in DOMAIN q /\ t[a] = q[a - m] /\ b - m \in DOMAIN q /\ t[b] = q[b - m]
      <3>1. a - m = b - m
        BY <1>10, <2>3 DEF NoRepeat
      <3> QED  BY <1>1, <2>1, <3>1
    <2>4. CASE a \in DOMAIN p /\ t[a] = p[a] /\ b - m \in DOMAIN q /\ t[b] = q[b - m]
      BY <1>7, <1>8, <1>10, <2>4 DEF Apart
    <2>5. CASE b \in DOMAIN p /\ t[b] = p[b] /\ a - m \in DOMAIN q /\ t[a] = q[a - m]
      BY <1>7, <1>8, <1>10, <2>5 DEF Apart
    <2> QED  BY <1>6, <2>2, <2>3, <2>4, <2>5
  <1> QED  BY <1>2, <1>9, <1>10 DEF t

\* Erasing keeps the order, and so the jobs apart.
LEMMA WithoutQueue ==
    ASSUME NEW S, NEW q \in Seq(S), NEW js, NEW t \in Without(q, js)
    PROVE  /\ t \in Seq(S)
           /\ Elems(t) \subseteq Elems(q) \ js
           /\ NoRepeat(q) => NoRepeat(t)
  <1> DEFINE K == {k \in DOMAIN q : q[k] \notin js}
             n == Cardinality(K)
  <1>1. K \subseteq 1..Len(q) /\ Len(q) \in Nat /\ DOMAIN q = 1..Len(q)
    OBVIOUS
  <1>1a. \A k \in K : k \in DOMAIN q /\ q[k] \notin js
    OBVIOUS
  <1>2. PICK f \in [1..n -> K] : /\ \A a, b \in DOMAIN f : a < b => f[a] < f[b]
                                 /\ t = [k \in DOMAIN f |-> q[f[k]]]
    BY DEF Without, Retained, Orders
  <1> HIDE DEF K
  <1>3. IsFiniteSet(1..Len(q))
    BY <1>1, FS_Interval
  <1>4. IsFiniteSet(K)
    BY <1>1, <1>3, FS_Subset
  <1>5. n \in Nat
    BY <1>4, FS_CardinalityType
  <1> HIDE DEF n
  <1>6. DOMAIN f = 1..n /\ DOMAIN t = 1..n /\ \A k \in 1..n : f[k] \in K /\ t[k] = q[f[k]]
    BY <1>2
  <1>7. \A k \in 1..n : f[k] \in DOMAIN q /\ t[k] \notin js /\ t[k] \in S
    <2> TAKE k \in 1..n
    <2>1. f[k] \in DOMAIN q /\ q[f[k]] \notin js /\ t[k] = q[f[k]]
      BY <1>1a, <1>6
    <2>2. \A i \in DOMAIN q : q[i] \in S
      OBVIOUS
    <2> QED  BY <2>1, <2>2
  <1>8. t \in Seq(S)
    BY <1>2, <1>5, <1>6, <1>7
  <1>9. Elems(t) \subseteq Elems(q) \ js
    BY <1>6, <1>7 DEF Elems
  <1>10. ASSUME NoRepeat(q) PROVE NoRepeat(t)
    <2> SUFFICES ASSUME NEW a \in 1..n, NEW b \in 1..n, t[a] = t[b], a # b PROVE FALSE
      BY <1>6 DEF NoRepeat
    <2>1. f[a] = f[b]
      BY <1>6, <1>7, <1>10 DEF NoRepeat
    <2>2. f[a] \in Nat /\ f[b] \in Nat
      BY <1>1, <1>7
    <2>3. f[a] < f[b] \/ f[b] < f[a]
      <3>1. a < b \/ b < a
        BY <1>5
      <3> QED  BY <1>2, <1>6, <3>1
    <2> QED  BY <2>1, <2>2, <2>3
  <1> QED  BY <1>8, <1>9, <1>10

-----------------------------------------------------------------------------
(* The queues                                                              *)

\* Jobs that end are not new.
LEMMA DroppedFate ==
    ASSUME QueueInv, NEW js, Dropped(js)
    PROVE  /\ fate' \in [Jobs -> {"new", "open", "done", "failed"}]
           /\ \A j \in Jobs : fate'[j] = "new" => fate[j] = "new"
  BY DEF QueueInv, Dropped

\* What is to be shown of a step that moves jobs between the queues.
LEMMA QueuesMove ==
    ASSUME QueueInv,
           fate' \in [Jobs -> {"new", "open", "done", "failed"}],
           \A j \in Jobs : fate'[j] = "new" => fate[j] = "new",
           newJobs' \in Seq(Jobs), nextJobs' \in Seq(Jobs), activeJobs' \in Seq(Jobs),
           NoRepeat(newJobs'), NoRepeat(nextJobs'), NoRepeat(activeJobs'),
           Apart(newJobs', nextJobs'), Apart(newJobs', activeJobs'),
           Apart(nextJobs', activeJobs'),
           Elems(newJobs') \cup Elems(nextJobs') \cup Elems(activeJobs')
             \subseteq Elems(newJobs) \cup Elems(nextJobs) \cup Elems(activeJobs)
    PROVE  QueueInv'
  <1>1. ASSUME NEW j \in Jobs, fate'[j] = "new" PROVE ~Queued(j)'
    BY <1>1 DEF QueueInv, Queued
  <1> QED  BY <1>1 DEF QueueInv

\* The queues are empty at first.
LEMMA QueueInit == Init => QueueInv
  <1> SUFFICES ASSUME Init PROVE QueueInv
    OBVIOUS
  <1>1. newJobs = <<>> /\ nextJobs = <<>> /\ activeJobs = <<>>
    BY DEF Init
  <1>2. <<>> \in Seq(Jobs)
    OBVIOUS
  <1>3. fate \in [Jobs -> {"new", "open", "done", "failed"}]
    BY DEF Init
  <1> QED  BY <1>1, <1>2, <1>3, EmptyQueue DEF QueueInv, Queued, Apart

\* WorkLoop returns with all queues empty.
LEMMA ReturnQueue ==
    ASSUME QueueInv, Return
    PROVE  QueueInv'
  <1>1. newJobs' = <<>> /\ nextJobs' = <<>> /\ activeJobs' = <<>>
    BY DEF Return
  <1>2. <<>> \in Seq(Jobs)
    OBVIOUS
  <1>3. /\ fate' \in [Jobs -> {"new", "open", "done", "failed"}]
        /\ \A j \in Jobs : fate'[j] = "new" => fate[j] = "new"
    BY DroppedFate DEF Return
  <1> QED  BY <1>1, <1>2, <1>3, EmptyQueue, QueuesMove DEF Apart

\* STATE_FINISHJOB takes the first job out of the pipeline.
LEMMA FinishQueue ==
    ASSUME QueueInv, NEW buf, activeJobs # <<>>, Finish(buf), UNCHANGED <<newJobs, nextJobs>>
    PROVE  QueueInv'
  <1>1. activeJobs \in Seq(Jobs) /\ NoRepeat(activeJobs)
    BY DEF QueueInv
  <1> DEFINE t == Tail(activeJobs)
  <1>2. /\ t \in Seq(Jobs) /\ Front \in Jobs
        /\ Elems(t) \subseteq Elems(activeJobs) /\ NoRepeat(t)
    BY <1>1, TailQueue DEF Front
  <1>3. activeJobs' = t
    BY DEF Finish
  <1> HIDE DEF t
  <1>4. fate' = [fate EXCEPT ![Front] = "done"]
    BY DEF Finish
  <1>5. /\ fate' \in [Jobs -> {"new", "open", "done", "failed"}]
        /\ \A j \in Jobs : fate'[j] = "new" => fate[j] = "new"
    BY <1>2, <1>4 DEF QueueInv
  <1>6. Apart(newJobs, t) /\ Apart(nextJobs, t)
    BY <1>2 DEF QueueInv, Apart
  <1> QED  BY <1>2, <1>3, <1>5, <1>6, QueuesMove DEF QueueInv

\* Every step of WorkLoop and of the clients moves jobs between the queues, or ends
\* them, and never doubles one.
LEMMA QueueStep == QueueInv /\ [Next]_vars => QueueInv'
  <1> SUFFICES ASSUME QueueInv, [Next]_vars PROVE QueueInv'
    OBVIOUS
  <1>0. /\ newJobs \in Seq(Jobs) /\ nextJobs \in Seq(Jobs) /\ activeJobs \in Seq(Jobs)
        /\ NoRepeat(newJobs) /\ NoRepeat(nextJobs) /\ NoRepeat(activeJobs)
        /\ Apart(newJobs, nextJobs) /\ Apart(newJobs, activeJobs) /\ Apart(nextJobs, activeJobs)
        /\ fate \in [Jobs -> {"new", "open", "done", "failed"}]
        /\ <<>> \in Seq(Jobs)
    BY DEF QueueInv
  <1>1. ASSUME NEW j \in Jobs, AddJob(j) PROVE QueueInv'
    <2> DEFINE t == Append(newJobs, j)
    <2>1. newJobs' = t /\ UNCHANGED <<nextJobs, activeJobs>> /\ fate[j] = "new"
          /\ fate' = [fate EXCEPT ![j] = "open"]
      BY <1>1 DEF AddJob
    <2>2. ~Queued(j)
      BY <2>1 DEF QueueInv
    <2>3. t \in Seq(Jobs) /\ Elems(t) = Elems(newJobs) \cup {j} /\ NoRepeat(t)
      BY <1>0, <2>2, AppendQueue DEF Queued
    <2> HIDE DEF t
    <2>4. Apart(t, nextJobs) /\ Apart(t, activeJobs)
      BY <1>0, <2>2, <2>3 DEF Apart, Queued
    <2>5. fate' \in [Jobs -> {"new", "open", "done", "failed"}]
      BY <1>0, <2>1
    <2>6. ASSUME NEW i \in Jobs, fate'[i] = "new" PROVE ~Queued(i)'
      <3>1. i # j /\ fate[i] = "new"
        BY <1>0, <2>1, <2>6
      <3>2. ~Queued(i)
        BY <3>1 DEF QueueInv
      <3> QED  BY <2>1, <2>3, <3>1, <3>2 DEF Queued
    <2> QED  BY <1>0, <2>1, <2>3, <2>4, <2>5, <2>6 DEF QueueInv
  <1>2. CASE TopSplice
    <2>1. CASE ctrl # lastMark
      <3> DEFINE t == newJobs \o nextJobs
      <3>1. newJobs' = <<>> /\ nextJobs' = t /\ UNCHANGED <<activeJobs, fate>>
        BY <1>2, <2>1 DEF TopSplice, TakenOver
      <3>2. t \in Seq(Jobs) /\ Elems(t) = Elems(newJobs) \cup Elems(nextJobs) /\ NoRepeat(t)
        BY <1>0, JoinQueue
      <3> HIDE DEF t
      <3>3. Apart(<<>>, t) /\ Apart(<<>>, activeJobs) /\ Apart(t, activeJobs)
        BY <1>0, <3>2, EmptyQueue DEF Apart
      <3> QED  BY <1>0, <3>1, <3>2, <3>3, EmptyQueue, QueuesMove
    <2>2. CASE ~(ctrl # lastMark)
      <3>1. UNCHANGED <<newJobs, nextJobs, activeJobs, fate>>
        BY <1>2, <2>2 DEF TopSplice, TakenOver
      <3> QED  BY <3>1 DEF QueueInv, Queued
    <2> QED  BY <2>1, <2>2
  <1>3. CASE ConnectPrepare
    <2>1. /\ nextJobs' \in Without(nextJobs, NoMirror) /\ activeJobs' = <<>>
          /\ UNCHANGED newJobs
          /\ Dropped(Elems(activeJobs) \cup NoMirror)
      BY <1>3 DEF ConnectPrepare
    <2>2. /\ fate' \in [Jobs -> {"new", "open", "done", "failed"}]
          /\ \A j \in Jobs : fate'[j] = "new" => fate[j] = "new"
      BY <2>1, DroppedFate
    <2>3. nextJobs' \in Seq(Jobs) /\ Elems(nextJobs') \subseteq Elems(nextJobs) /\ NoRepeat(nextJobs')
      BY <1>0, <2>1, WithoutQueue
    <2>4. Apart(newJobs', nextJobs') /\ Apart(newJobs', <<>>) /\ Apart(nextJobs', <<>>)
      BY <1>0, <2>1, <2>3, EmptyQueue DEF Apart
    <2> QED  BY <1>0, <2>1, <2>2, <2>3, <2>4, EmptyQueue, QueuesMove
  <1>4. CASE FillDrop
    <2> DEFINE t == Tail(nextJobs)
    <2>1. nextJobs' = t /\ nextJobs # <<>> /\ UNCHANGED <<newJobs, activeJobs>> /\ Dropped({nextJobs[1]})
      BY <1>4 DEF FillDrop, MayRequest
    <2>2. /\ fate' \in [Jobs -> {"new", "open", "done", "failed"}]
          /\ \A j \in Jobs : fate'[j] = "new" => fate[j] = "new"
      BY <2>1, DroppedFate
    <2>3. t \in Seq(Jobs) /\ Elems(t) \subseteq Elems(nextJobs) /\ NoRepeat(t)
      BY <1>0, <2>1, TailQueue
    <2> HIDE DEF t
    <2>4. Apart(newJobs, t) /\ Apart(t, activeJobs)
      BY <1>0, <2>3 DEF Apart
    <2> QED  BY <1>0, <2>1, <2>2, <2>3, <2>4, QueuesMove
  <1>5. CASE FillRequest
    <2> DEFINE j == nextJobs[1]
               t == Tail(nextJobs)
               a == Append(activeJobs, j)
    <2>1. nextJobs' = t /\ nextJobs # <<>> /\ activeJobs' = a /\ UNCHANGED <<newJobs, fate>>
      BY <1>5 DEF FillRequest, MayRequest, Pipelined
    <2>2. /\ t \in Seq(Jobs) /\ Elems(t) \subseteq Elems(nextJobs) /\ NoRepeat(t)
          /\ j \in Jobs /\ j \in Elems(nextJobs) /\ j \notin Elems(t)
      BY <1>0, <2>1, TailQueue
    <2> HIDE DEF t, j
    <2>3. j \notin Elems(activeJobs)
      BY <1>0, <2>2 DEF Apart
    <2>4. a \in Seq(Jobs) /\ Elems(a) = Elems(activeJobs) \cup {j} /\ NoRepeat(a)
      BY <1>0, <2>2, <2>3, AppendQueue
    <2> HIDE DEF a
    <2>5. Apart(newJobs, t) /\ Apart(newJobs, a) /\ Apart(t, a)
      BY <1>0, <2>2, <2>4 DEF Apart
    <2>6. Elems(newJobs) \cup Elems(t) \cup Elems(a)
             \subseteq Elems(newJobs) \cup Elems(nextJobs) \cup Elems(activeJobs)
      BY <2>2, <2>4
    <2> QED  BY <1>0, <2>1, <2>2, <2>4, <2>5, <2>6, QueuesMove
  <1>6. CASE ProcData
    <2>1. CASE job[Front].st = "data" /\ job[Front].rest = 1
      BY <1>6, <2>1, FinishQueue DEF ProcData, Processing
    <2>2. CASE ~(job[Front].st = "data" /\ job[Front].rest = 1)
      <3>1. UNCHANGED <<newJobs, nextJobs, activeJobs, fate>>
        BY <1>6, <2>2 DEF ProcData
      <3> QED  BY <3>1 DEF QueueInv, Queued
    <2> QED  BY <2>1, <2>2
  <1>7. CASE ProcLastChunk
    BY <1>7, FinishQueue DEF ProcLastChunk, Processing
  <1>8. CASE ResultRedirect
    <2> DEFINE t == activeJobs \o nextJobs
    <2>1. nextJobs' = t /\ activeJobs' = <<>> /\ UNCHANGED <<newJobs, fate>>
      BY <1>8 DEF ResultRedirect
    <2>2. Apart(activeJobs, nextJobs)
      BY <1>0 DEF Apart
    <2>3. t \in Seq(Jobs) /\ Elems(t) = Elems(activeJobs) \cup Elems(nextJobs) /\ NoRepeat(t)
      BY <1>0, <2>2, JoinQueue
    <2> HIDE DEF t
    <2>4. Apart(newJobs, t) /\ Apart(newJobs, <<>>) /\ Apart(t, <<>>)
      BY <1>0, <2>3, EmptyQueue DEF Apart
    <2> QED  BY <1>0, <2>1, <2>3, <2>4, EmptyQueue, QueuesMove
  <1>9. CASE ResultFailed
    <2>1. PICK p \in PipelineRest, n \in Without(nextJobs, FailedJobs) : nextJobs' = p \o n
      BY <1>9 DEF ResultFailed
    <2>2. activeJobs' = <<>> /\ UNCHANGED newJobs /\ Dropped(FailedJobs)
      BY <1>9 DEF ResultFailed
    <2>3. /\ fate' \in [Jobs -> {"new", "open", "done", "failed"}]
          /\ \A j \in Jobs : fate'[j] = "new" => fate[j] = "new"
      BY <2>2, DroppedFate
    <2>4. p \in Seq(Jobs) /\ Elems(p) \subseteq Elems(activeJobs) /\ NoRepeat(p)
      BY <1>0, WithoutQueue DEF PipelineRest
    <2>5. n \in Seq(Jobs) /\ Elems(n) \subseteq Elems(nextJobs) /\ NoRepeat(n)
      BY <1>0, WithoutQueue
    <2>6. Apart(p, n)
      BY <1>0, <2>4, <2>5 DEF Apart
    <2> DEFINE t == p \o n
    <2>7. t \in Seq(Jobs) /\ Elems(t) = Elems(p) \cup Elems(n) /\ NoRepeat(t)
      BY <2>4, <2>5, <2>6, JoinQueue
    <2> HIDE DEF t
    <2>8. Apart(newJobs, t) /\ Apart(newJobs, <<>>) /\ Apart(t, <<>>)
      BY <1>0, <2>4, <2>5, <2>7, EmptyQueue DEF Apart
    <2>9. Elems(newJobs) \cup Elems(t) \cup Elems(<<>>)
             \subseteq Elems(newJobs) \cup Elems(nextJobs) \cup Elems(activeJobs)
      BY <2>4, <2>5, <2>7, EmptyQueue
    <2>10. nextJobs' = t
      BY <2>1 DEF t
    <2> QED  BY <1>0, <2>2, <2>3, <2>7, <2>8, <2>9, <2>10, EmptyQueue, QueuesMove
  <1>10. CASE TopStop \/ ResultStop
    BY <1>10, ReturnQueue DEF TopStop, ResultStop
  <1>11. CASE \/ \E j \in Jobs : OthersTake(j)
              \/ SignalStop \/ DialFresh \/ DialReuse \/ DialFails \/ FillDone
              \/ FillMismatch \/ Exchange
    <2>1. UNCHANGED <<newJobs, nextJobs, activeJobs, fate>>
      BY <1>11 DEF OthersTake, SignalStop, DialFresh, DialReuse, DialFails, FillDone,
         FillMismatch, Exchange, SelectWake, SelectTimeout, SelectLost, SelectRead,
         SelectMore, queues
    <2> QED  BY <2>1 DEF QueueInv, Queued
  <1>12. CASE \/ ProcJunk \/ ProcHint \/ ProcRedirect \/ ProcRedirectFails \/ ProcRefused
              \/ ProcBusy \/ ProcRestart \/ ProcHeader \/ ProcStoreFails \/ ProcBadChunk
              \/ ResultRecycle \/ ResultContinue
    <2>1. UNCHANGED <<newJobs, nextJobs, activeJobs, fate>>
      BY <1>12 DEF ProcJunk, ProcHint, ProcRedirect, ProcRedirectFails, ProcRefused,
         ProcBusy, ProcRestart, ProcHeader, ProcStoreFails, ProcBadChunk, ResultRecycle,
         ResultContinue, queues
    <2> QED  BY <2>1 DEF QueueInv, Queued
  <1>13. CASE UNCHANGED vars
    BY <1>13 DEF vars, queues, QueueInv, Queued
  <1> QED
    BY <1>1, <1>2, <1>3, <1>4, <1>5, <1>6, <1>7, <1>8, <1>9, <1>10, <1>11, <1>12, <1>13
    DEF Next, WorkLoop, Process

-----------------------------------------------------------------------------
(* The stream                                                              *)

\* Short sequences.
LEMMA OneToken ==
    ASSUME NEW S, NEW x \in S
    PROVE  <<x>> \in Seq(S) /\ <<x>> # <<>> /\ <<x>>[1] = x /\ Tail(<<x>>) = <<>> /\ Len(<<x>>) = 1
  OBVIOUS

\* Two tokens.
LEMMA TwoTokens ==
    ASSUME NEW S, NEW x \in S, NEW y \in S
    PROVE  <<x, y>> \in Seq(S) /\ <<x, y>> # <<>> /\ <<x, y>>[1] = x /\ Tail(<<x, y>>) = <<y>>
           /\ Len(<<x, y>>) = 2
  <1>1. <<x, y>> \in Seq(S) /\ <<x, y>> # <<>> /\ <<x, y>>[1] = x /\ Len(<<x, y>>) = 2
    OBVIOUS
  <1>2. Tail(<<x, y>>) \in Seq(S) /\ Len(Tail(<<x, y>>)) = 1 /\ Tail(<<x, y>>)[1] = y
    OBVIOUS
  <1>3. Tail(<<x, y>>) = <<y>>
    BY <1>2
  <1> QED  BY <1>1, <1>3

\* Three tokens.
LEMMA ThreeTokens ==
    ASSUME NEW S, NEW x \in S, NEW y \in S, NEW z \in S
    PROVE  <<x, y, z>> \in Seq(S) /\ <<x, y, z>> # <<>> /\ <<x, y, z>>[1] = x
           /\ Tail(<<x, y, z>>) = <<y, z>>
  <1>1. <<x, y, z>> \in Seq(S) /\ <<x, y, z>> # <<>> /\ <<x, y, z>>[1] = x
    OBVIOUS
  <1>2. /\ Tail(<<x, y, z>>) \in Seq(S) /\ Len(Tail(<<x, y, z>>)) = 2
        /\ Tail(<<x, y, z>>)[1] = y /\ Tail(<<x, y, z>>)[2] = z
    OBVIOUS
  <1>3. Tail(<<x, y, z>>) = <<y, z>>
    BY <1>2
  <1> QED  BY <1>1, <1>3

\* The fields of a header.
LEMMA HeaderFacts ==
    ASSUME NEW j \in Jobs, NEW kind \in Kinds, NEW len \in Nat, NEW d \in Hosts \cup {NoHost}
    PROVE  /\ Header(kind, j, len, d) \in Tokens
           /\ Header(kind, j, len, d).k = "head" /\ Header(kind, j, len, d).of = j
           /\ Header(kind, j, len, d).kind = kind /\ Header(kind, j, len, d).len = len
           /\ Header(kind, j, len, d).dest = d
  BY DEF Tokens, Header

\* The fields of the other tokens.
LEMMA TokenFacts ==
    ASSUME NEW j \in Jobs
    PROVE  /\ Request(j) \in Tokens /\ Request(j).k = "request" /\ Request(j).of = j
           /\ Data(j) \in Tokens /\ Data(j).k = "data" /\ Data(j).of = j
           /\ LastChunk(j) \in Tokens /\ LastChunk(j).k = "last"
           /\ Junk \in Tokens /\ Junk.k = "junk"
  BY DEF Tokens, Request, Data, LastChunk, Junk

\* Every answer begins with a header, or is none; what follows the header is what
\* the header says.
LEMMA AnswerFacts ==
    ASSUME NEW j \in Jobs, NEW r \in Answers(j)
    PROVE  /\ r \in Seq(Tokens) /\ r # <<>>
           /\ r[1].k \in {"head", "junk"}
           /\ r[1].k = "head" =>
                /\ r[1].of = j /\ r[1].dest \in Hosts \cup {NoHost} /\ r[1].kind # "hint"
                /\ r[1].kind \in {"ok", "error"} => Tail(r) = <<Data(j)>> /\ r[1].len = 1
                /\ r[1].kind = "chunked" => /\ Tail(r) \in {<<Data(j), LastChunk(j)>>, <<Junk>>}
                                            /\ r[1].len = 0
  <1> DEFINE D == Data(j)
             L == LastChunk(j)
             J == Junk
             H(kind, len, d) == Header(kind, j, len, d)
  <1>0. D \in Tokens /\ L \in Tokens /\ J \in Tokens /\ J.k = "junk"
    BY TokenFacts
  <1>1. \A d \in Locations : d \in Hosts \cup {NoHost}
    BY PipelineAssumption
  <1> HIDE DEF D, L, J, H
  <1>3. CASE r = <<H("ok", 1, NoHost), D>>
    <2> DEFINE x == H("ok", 1, NoHost)
    <2>1. x \in Tokens /\ x.k = "head" /\ x.of = j /\ x.kind = "ok" /\ x.len = 1 /\ x.dest = NoHost
      BY HeaderFacts DEF H, Kinds
    <2>2. r = <<x, D>>
      BY <1>3
    <2> HIDE DEF x
    <2>3. r \in Seq(Tokens) /\ r # <<>> /\ r[1] = x /\ Tail(r) = <<D>>
      BY <1>0, <2>1, <2>2, TwoTokens
    <2> QED  BY <2>1, <2>3 DEF D
  <1>4. CASE r = <<H("chunked", 0, NoHost), D, L>>
    <2> DEFINE x == H("chunked", 0, NoHost)
    <2>1. x \in Tokens /\ x.k = "head" /\ x.of = j /\ x.kind = "chunked" /\ x.len = 0 /\ x.dest = NoHost
      BY HeaderFacts DEF H, Kinds
    <2>2. r = <<x, D, L>>
      BY <1>4
    <2> HIDE DEF x
    <2>3. r \in Seq(Tokens) /\ r # <<>> /\ r[1] = x /\ Tail(r) = <<D, L>>
      BY <1>0, <2>1, <2>2, ThreeTokens
    <2> QED  BY <2>1, <2>3 DEF D, L
  <1>5. CASE r = <<H("chunked", 0, NoHost), J>>
    <2> DEFINE x == H("chunked", 0, NoHost)
    <2>1. x \in Tokens /\ x.k = "head" /\ x.of = j /\ x.kind = "chunked" /\ x.len = 0 /\ x.dest = NoHost
      BY HeaderFacts DEF H, Kinds
    <2>2. r = <<x, J>>
      BY <1>5
    <2> HIDE DEF x
    <2>3. r \in Seq(Tokens) /\ r # <<>> /\ r[1] = x /\ Tail(r) = <<J>>
      BY <1>0, <2>1, <2>2, TwoTokens
    <2> QED  BY <2>1, <2>3 DEF J
  <1>6. CASE r = <<H("error", 1, NoHost), D>>
    <2> DEFINE x == H("error", 1, NoHost)
    <2>1. x \in Tokens /\ x.k = "head" /\ x.of = j /\ x.kind = "error" /\ x.len = 1 /\ x.dest = NoHost
      BY HeaderFacts DEF H, Kinds
    <2>2. r = <<x, D>>
      BY <1>6
    <2> HIDE DEF x
    <2>3. r \in Seq(Tokens) /\ r # <<>> /\ r[1] = x /\ Tail(r) = <<D>>
      BY <1>0, <2>1, <2>2, TwoTokens
    <2> QED  BY <2>1, <2>3 DEF D
  <1>7. ASSUME NEW kind \in {"nokey", "noloc", "nolen", "odd", "redirect"},
               NEW len \in {0, 1}, NEW d \in Hosts \cup {NoHost},
               r = <<H(kind, len, d)>> \/ r = <<H(kind, len, d), D>>
        PROVE  /\ r \in Seq(Tokens) /\ r # <<>> /\ r[1].k = "head" /\ r[1].of = j
               /\ r[1].dest \in Hosts \cup {NoHost} /\ r[1].kind \notin {"ok", "error", "chunked", "hint"}
    <2> DEFINE x == H(kind, len, d)
    <2>1. x \in Tokens /\ x.k = "head" /\ x.of = j /\ x.kind = kind /\ x.dest = d
      <3>1. kind \in Kinds /\ len \in Nat
        BY DEF Kinds
      <3> QED  BY <3>1, HeaderFacts DEF H
    <2>2. r = <<x>> \/ r = <<x, D>>
      BY <1>7
    <2> HIDE DEF x
    <2>3. CASE r = <<x>>
      <3>1. r \in Seq(Tokens) /\ r # <<>> /\ r[1] = x
        BY <2>1, <2>3, OneToken
      <3> QED  BY <2>1, <3>1
    <2>4. CASE r = <<x, D>>
      <3>1. r \in Seq(Tokens) /\ r # <<>> /\ r[1] = x
        BY <1>0, <2>1, <2>4, TwoTokens
      <3> QED  BY <2>1, <3>1
    <2> QED  BY <2>2, <2>3, <2>4
  <1>8. CASE r \in {<<H("nokey", 0, NoHost)>>, <<H("noloc", 0, NoHost)>>, <<H("nolen", 0, NoHost)>>,
                  <<H("odd", 0, NoHost)>>}
    BY <1>7, <1>8
  <1>9. CASE r = <<J>>
    <2>1. r \in Seq(Tokens) /\ r # <<>> /\ r[1] = J
      BY <1>0, <1>9, OneToken
    <2> QED  BY <1>0, <2>1
  <1>10. CASE r \in {<<H("redirect", 0, d)>> : d \in Locations}
    <2>1. PICK d \in Locations : r = <<H("redirect", 0, d)>>
      BY <1>10
    <2> QED  BY <1>1, <1>7, <2>1
  <1>11. CASE r \in {<<H("redirect", 1, d), D>> : d \in Locations}
    <2>1. PICK d \in Locations : r = <<H("redirect", 1, d), D>>
      BY <1>11
    <2> QED  BY <1>1, <1>7, <2>1
  <1> QED
    BY <1>3, <1>4, <1>5, <1>6, <1>8, <1>9, <1>10, <1>11 DEF Answers, D, L, J, H

\* Concatenation, element by element.
LEMMA Join ==
    ASSUME NEW S, NEW s \in Seq(S), NEW t \in Seq(S)
    PROVE  /\ s \o t \in Seq(S) /\ Len(s \o t) = Len(s) + Len(t)
           /\ \A k \in 1..(Len(s) + Len(t)) :
                (s \o t)[k] = IF k <= Len(s) THEN s[k] ELSE t[k - Len(s)]
  BY ConcatProperties

\* The requests of a queue, one by one.
LEMMA RequestsType ==
    ASSUME NEW q \in Seq(Jobs)
    PROVE  /\ Requests(q) \in Seq(Tokens) /\ Len(Requests(q)) = Len(q)
           /\ \A k \in 1..Len(q) : Requests(q)[k] = Request(q[k])
  <1>1. Len(q) \in Nat /\ \A k \in 1..Len(q) : q[k] \in Jobs
    OBVIOUS
  <1>2. \A k \in 1..Len(q) : Request(q[k]) \in Tokens
    BY <1>1 DEF Tokens
  <1>3. Requests(q) = [k \in 1..Len(q) |-> Request(q[k])]
    BY DEF Requests
  <1> QED  BY <1>1, <1>2, <1>3

\* There are none for no jobs.
LEMMA RequestsEmpty == Requests(<<>>) = <<>>
  BY DEF Requests

\* The first of the requests and the others.
LEMMA RequestsSplit ==
    ASSUME NEW q \in Seq(Jobs), q # <<>>
    PROVE  Requests(q) = <<Request(q[1])>> \o Requests(Tail(q))
  <1> DEFINE t == Tail(q)
             a == Requests(q)
             b == Requests(t)
             h == <<Request(q[1])>>
             c == h \o b
  <1>1. t \in Seq(Jobs) /\ Len(q) \in Nat /\ Len(q) >= 1 /\ Len(t) = Len(q) - 1
        /\ \A k \in 1..(Len(q) - 1) : t[k] = q[k + 1]
    OBVIOUS
  <1>2. a \in Seq(Tokens) /\ Len(a) = Len(q) /\ \A k \in 1..Len(q) : a[k] = Request(q[k])
    BY RequestsType
  <1>3. b \in Seq(Tokens) /\ Len(b) = Len(q) - 1 /\ \A k \in 1..(Len(q) - 1) : b[k] = Request(t[k])
    BY <1>1, RequestsType
  <1>4. h \in Seq(Tokens) /\ Len(h) = 1 /\ h[1] = Request(q[1])
    <2>1. q[1] \in Jobs
      OBVIOUS
    <2>2. Request(q[1]) \in Tokens
      BY <2>1 DEF Tokens
    <2> QED  BY <2>2
  <1> HIDE DEF t, a, b, h
  <1>5. /\ c \in Seq(Tokens) /\ Len(c) = Len(q)
        /\ \A k \in 1..Len(q) : c[k] = IF k <= 1 THEN h[k] ELSE b[k - 1]
    <2>1. /\ c \in Seq(Tokens) /\ Len(c) = Len(h) + Len(b)
          /\ \A k \in 1..(Len(h) + Len(b)) : c[k] = IF k <= Len(h) THEN h[k] ELSE b[k - Len(h)]
      BY <1>3, <1>4, Join
    <2> HIDE DEF c
    <2>2. Len(h) + Len(b) = Len(q) /\ Len(h) = 1
      BY <1>1, <1>3, <1>4
    <2> QED  BY <2>1, <2>2
  <1> HIDE DEF c
  <1>6. ASSUME NEW k \in 1..Len(q) PROVE a[k] = c[k]
    <2>1. CASE k = 1
      BY <1>1, <1>2, <1>4, <1>5, <2>1
    <2>2. CASE k # 1
      <3>1. k - 1 \in 1..(Len(q) - 1) /\ ~(k <= 1)
        BY <1>1, <2>2
      <3>2. t[k - 1] = q[k]
        BY <1>1, <3>1
      <3> QED  BY <1>2, <1>3, <1>5, <3>1, <3>2
    <2> QED  BY <2>1, <2>2
  <1>7. a = c
    BY <1>2, <1>5, <1>6, SeqEqual
  <1> QED  BY <1>7 DEF a, b, c, h, t

\* One more request at the end.
LEMMA RequestsAppend ==
    ASSUME NEW q \in Seq(Jobs), NEW j \in Jobs
    PROVE  Requests(Append(q, j)) = Append(Requests(q), Request(j))
  <1> DEFINE t == Append(q, j)
             a == Requests(t)
             c == Append(Requests(q), Request(j))
  <1>1. t \in Seq(Jobs) /\ Len(q) \in Nat /\ Len(t) = Len(q) + 1
        /\ t[Len(q) + 1] = j /\ \A k \in 1..Len(q) : t[k] = q[k]
    OBVIOUS
  <1>2. a \in Seq(Tokens) /\ Len(a) = Len(q) + 1 /\ \A k \in 1..(Len(q) + 1) : a[k] = Request(t[k])
    BY <1>1, RequestsType
  <1>3. Request(j) \in Tokens
    BY DEF Tokens
  <1>4. /\ Requests(q) \in Seq(Tokens) /\ Len(Requests(q)) = Len(q)
        /\ \A k \in 1..Len(q) : Requests(q)[k] = Request(q[k])
    BY RequestsType
  <1>5. /\ c \in Seq(Tokens) /\ Len(c) = Len(q) + 1 /\ c[Len(q) + 1] = Request(j)
        /\ \A k \in 1..Len(q) : c[k] = Request(q[k])
    BY <1>1, <1>3, <1>4
  <1> HIDE DEF t, a, c
  <1>6. ASSUME NEW k \in 1..(Len(q) + 1) PROVE a[k] = c[k]
    <2>1. CASE k = Len(q) + 1
      BY <1>1, <1>2, <1>5, <2>1
    <2>2. CASE k # Len(q) + 1
      <3>1. k \in 1..Len(q)
        BY <1>1, <2>2
      <3> QED  BY <1>1, <1>2, <1>5, <3>1
    <2> QED  BY <2>1, <2>2
  <1>7. a = c
    BY <1>2, <1>5, <1>6, SeqEqual
  <1> QED  BY <1>7 DEF a, c, t

\* Concatenation and the first element, and the last one.
LEMMA TailOfJoin ==
    ASSUME NEW S, NEW s \in Seq(S), NEW t \in Seq(S), s # <<>>
    PROVE  Tail(s \o t) = Tail(s) \o t /\ (s \o t)[1] = s[1]
  <1> DEFINE c == s \o t
             d == Tail(s)
             e == d \o t
             f == Tail(c)
  <1>1. Len(s) \in Nat /\ Len(s) >= 1 /\ Len(t) \in Nat
    OBVIOUS
  <1>2. d \in Seq(S) /\ Len(d) = Len(s) - 1 /\ \A k \in 1..(Len(s) - 1) : d[k] = s[k + 1]
    OBVIOUS
  <1>3. /\ c \in Seq(S) /\ Len(c) = Len(s) + Len(t)
        /\ \A k \in 1..(Len(s) + Len(t)) : c[k] = IF k <= Len(s) THEN s[k] ELSE t[k - Len(s)]
    BY Join
  <1> HIDE DEF c, d
  <1>4. c # <<>>
    BY <1>1, <1>3
  <1>5. f \in Seq(S) /\ Len(f) = Len(c) - 1 /\ \A k \in 1..(Len(c) - 1) : f[k] = c[k + 1]
    BY <1>3, <1>4
  <1>6. /\ e \in Seq(S) /\ Len(e) = Len(d) + Len(t)
        /\ \A k \in 1..(Len(d) + Len(t)) : e[k] = IF k <= Len(d) THEN d[k] ELSE t[k - Len(d)]
    BY <1>2, Join
  <1> HIDE DEF e, f
  <1>7. Len(e) = Len(f)
    BY <1>1, <1>2, <1>3, <1>5, <1>6
  <1>8. ASSUME NEW k \in 1..Len(f) PROVE f[k] = e[k]
    <2>0. k \in 1..(Len(s) + Len(t) - 1) /\ k + 1 \in 1..(Len(s) + Len(t))
      BY <1>1, <1>3, <1>5
    <2>1. CASE k <= Len(s) - 1
      <3>1. f[k] = s[k + 1]
        BY <1>1, <1>3, <1>5, <2>0, <2>1
      <3>2. e[k] = s[k + 1]
        BY <1>1, <1>2, <1>6, <2>0, <2>1
      <3> QED  BY <3>1, <3>2
    <2>2. CASE ~(k <= Len(s) - 1)
      <3>1. f[k] = t[k + 1 - Len(s)]
        BY <1>1, <1>3, <1>5, <2>0, <2>2
      <3>2. e[k] = t[k - (Len(s) - 1)]
        BY <1>1, <1>2, <1>6, <2>0, <2>2
      <3>3. k + 1 - Len(s) = k - (Len(s) - 1)
        BY <1>1, <2>0
      <3> QED  BY <3>1, <3>2, <3>3
    <2> QED  BY <2>1, <2>2
  <1>9. f = e
    BY <1>5, <1>6, <1>7, <1>8, SeqEqual
  <1>10. c[1] = s[1]
    BY <1>1, <1>3
  <1> QED  BY <1>9, <1>10 DEF c, d, e, f

\* After a hint the answer is still to come, or it is there.
LEMMA HintFacts ==
    ASSUME NEW j \in Jobs, NEW r \in Replies(j), r \notin Answers(j)
    PROVE  /\ r \in Seq(Tokens) /\ r # <<>> /\ r[1].k = "head" /\ r[1].kind = "hint"
           /\ Tail(r) \in {<<Request(j)>>} \cup Answers(j)
  <1> DEFINE x == Hint(j)
             h == <<x>>
  <1>1. PICK a \in Answers(j) \cup {<<Request(j)>>} : r = h \o a
    BY DEF Replies
  <1>2. x \in Tokens /\ x.k = "head" /\ x.kind = "hint"
    <2>1. "hint" \in Kinds /\ 0 \in Nat /\ NoHost \in Hosts \cup {NoHost}
      BY DEF Kinds
    <2> QED  BY <2>1, HeaderFacts DEF Hint
  <1>3. a \in Seq(Tokens)
    <2>1. CASE a \in Answers(j)
      BY <2>1, AnswerFacts
    <2>2. CASE a = <<Request(j)>>
      BY <2>2, TokenFacts, OneToken
    <2> QED  BY <1>1, <2>1, <2>2
  <1> HIDE DEF x
  <1>4. h \in Seq(Tokens) /\ h # <<>> /\ h[1] = x /\ Tail(h) = <<>> /\ Len(h) = 1
    BY <1>2, OneToken
  <1> HIDE DEF h
  <1>5. Tail(r) = Tail(h) \o a /\ r[1] = h[1] /\ r \in Seq(Tokens) /\ Len(r) = 1 + Len(a)
    BY <1>1, <1>3, <1>4, TailOfJoin, Join
  <1>6. Tail(r) = a
    BY <1>3, <1>4, <1>5, ConcatEmptySeq
  <1>7. r # <<>>
    BY <1>3, <1>5
  <1> QED  BY <1>1, <1>2, <1>4, <1>5, <1>6, <1>7

\* Only a request that was not answered yet looks like one.
LEMMA RemainsFacts ==
    ASSUME NEW j \in Jobs, NEW st \in {"header", "data", "chunk"}, NEW r \in Remains(j, st)
    PROVE  /\ r \in Seq(Tokens) /\ r # <<>>
           /\ r[1].k = "request" => st = "header" /\ r = <<Request(j)>>
           /\ r = <<Request(j)>> => r[1].k = "request" /\ r[1].of = j
  <1> DEFINE D == Data(j)
             L == LastChunk(j)
             J == Junk
             R == Request(j)
  <1>1. /\ R \in Tokens /\ R.k = "request" /\ R.of = j
        /\ D \in Tokens /\ D.k = "data"
        /\ L \in Tokens /\ L.k = "last"
        /\ J \in Tokens /\ J.k = "junk"
    BY TokenFacts
  <1>2. CASE r \in Answers(j) /\ st = "header"
    <2>1. r \in Seq(Tokens) /\ r # <<>> /\ r[1].k \in {"head", "junk"}
      BY <1>2, AnswerFacts
    <2>2. r = <<Request(j)>> => r[1].k = "request"
      BY <1>1
    <2> QED  BY <2>1, <2>2
  <1>5. CASE r \in Replies(j) /\ r \notin Answers(j) /\ st = "header"
    <2>1. r \in Seq(Tokens) /\ r # <<>> /\ r[1].k = "head"
      BY <1>5, HintFacts
    <2>2. r = <<Request(j)>> => r[1].k = "request"
      BY <1>1
    <2> QED  BY <2>1, <2>2
  <1> HIDE DEF D, L, J, R
  <1>0. <<R>>[1] = R
    BY <1>1, OneToken
  <1>3. CASE r = <<R>> /\ st = "header"
    <2>1. r \in Seq(Tokens) /\ r # <<>> /\ r[1] = R
      BY <1>1, <1>3, OneToken
    <2> QED  BY <1>1, <1>3, <2>1 DEF R
  <1>4. ASSUME r = <<D>> \/ r = <<L>> \/ r = <<J>> \/ r = <<D, L>>
        PROVE  r \in Seq(Tokens) /\ r # <<>> /\ r[1].k # "request" /\ r # <<R>>
    <2>1. ASSUME NEW x \in {D, L, J}, r = <<x>> PROVE r \in Seq(Tokens) /\ r # <<>> /\ r[1] = x
      BY <1>1, <2>1, OneToken
    <2>2. ASSUME r = <<D, L>> PROVE r \in Seq(Tokens) /\ r # <<>> /\ r[1] = D
      BY <1>1, <2>2, TwoTokens
    <2>3. r \in Seq(Tokens) /\ r # <<>> /\ r[1] \in {D, L, J}
      BY <1>4, <2>1, <2>2
    <2> QED  BY <1>0, <1>1, <2>3
  <1> QED  BY <1>2, <1>3, <1>4, <1>5 DEF Remains, D, L, J, R

\* What a header in front of the rest of an answer says about it.
LEMMA HeaderAnswer ==
    ASSUME NEW j \in Jobs, NEW r \in Remains(j, "header"), r[1].k = "head"
    PROVE  /\ r[1].kind = "hint" => Tail(r) \in Remains(j, "header")
           /\ r[1].kind # "hint" => r \in Answers(j)
  <1>1. r # <<Request(j)>>
    <2>1. Request(j).k = "request" /\ <<Request(j)>>[1] = Request(j)
      BY TokenFacts
    <2> QED  BY <2>1
  <1>2. r \in Replies(j)
    BY <1>1 DEF Remains
  <1>3. CASE r \in Answers(j)
    BY <1>3, AnswerFacts
  <1>4. CASE r \notin Answers(j)
    <2>1. r[1].kind = "hint" /\ Tail(r) \in {<<Request(j)>>} \cup Answers(j)
      BY <1>2, <1>4, HintFacts
    <2>2. Answers(j) \subseteq Replies(j)
      BY DEF Replies
    <2> QED  BY <2>1, <2>2 DEF Remains
  <1> QED  BY <1>3, <1>4

\* An element appended to the second of two sequences.
LEMMA AppendToJoin ==
    ASSUME NEW S, NEW s \in Seq(S), NEW t \in Seq(S), NEW x \in S
    PROVE  s \o Append(t, x) = Append(s \o t, x)
  <1> DEFINE c == s \o t
             d == Append(t, x)
             e == s \o d
             f == Append(c, x)
  <1>1. Len(s) \in Nat /\ Len(t) \in Nat
    OBVIOUS
  <1>2. /\ d \in Seq(S) /\ Len(d) = Len(t) + 1 /\ d[Len(t) + 1] = x
        /\ \A k \in 1..Len(t) : d[k] = t[k]
    OBVIOUS
  <1>3. /\ c \in Seq(S) /\ Len(c) = Len(s) + Len(t)
        /\ \A k \in 1..(Len(s) + Len(t)) : c[k] = IF k <= Len(s) THEN s[k] ELSE t[k - Len(s)]
    BY Join
  <1> HIDE DEF c, d
  <1>4. c \in Seq(S) /\ Len(c) \in Nat
    BY <1>3
  <1>5. /\ f \in Seq(S) /\ Len(f) = Len(c) + 1 /\ f[Len(c) + 1] = x
        /\ \A k \in 1..Len(c) : f[k] = c[k]
    BY <1>4, AppendProperties
  <1>6. /\ e \in Seq(S) /\ Len(e) = Len(s) + Len(d)
        /\ \A k \in 1..(Len(s) + Len(d)) : e[k] = IF k <= Len(s) THEN s[k] ELSE d[k - Len(s)]
    BY <1>2, Join
  <1> HIDE DEF e, f
  <1>7. Len(e) = Len(f)
    BY <1>1, <1>2, <1>3, <1>5, <1>6
  <1>8. ASSUME NEW k \in 1..Len(f) PROVE f[k] = e[k]
    <2>0. k \in 1..(Len(s) + Len(t) + 1)
      BY <1>1, <1>3, <1>5
    <2>1. CASE k = Len(s) + Len(t) + 1
      <3>1. f[k] = x
        BY <1>3, <1>5, <2>1
      <3>2. k - Len(s) = Len(t) + 1 /\ ~(k <= Len(s)) /\ k \in 1..(Len(s) + Len(d))
        BY <1>1, <1>2, <2>1
      <3>3. e[k] = d[Len(t) + 1]
        BY <1>6, <3>2
      <3> QED  BY <1>2, <3>1, <3>3
    <2>2. CASE k <= Len(s)
      <3>1. k \in 1..Len(c) /\ k \in 1..(Len(s) + Len(t)) /\ k \in 1..(Len(s) + Len(d))
        BY <1>1, <1>2, <1>3, <2>0, <2>2
      <3> QED  BY <1>3, <1>5, <1>6, <2>2, <3>1
    <2>3. CASE ~(k <= Len(s)) /\ k # Len(s) + Len(t) + 1
      <3>1. /\ k \in 1..Len(c) /\ k \in 1..(Len(s) + Len(t)) /\ k \in 1..(Len(s) + Len(d))
            /\ k - Len(s) \in 1..Len(t)
        <4> DEFINE m == Len(s)
                   n == Len(t)
        <4>1. m \in Nat /\ n \in Nat /\ k \in 1..(m + n + 1) /\ ~(k <= m) /\ k # m + n + 1
              /\ Len(c) = m + n /\ Len(d) = n + 1
          BY <1>1, <1>2, <1>3, <2>0, <2>3
        <4> HIDE DEF m, n
        <4>2. k \in 1..(m + n) /\ k \in 1..(m + (n + 1)) /\ k - m \in 1..n
          BY <4>1
        <4> QED  BY <4>1, <4>2 DEF m, n
      <3> QED  BY <1>2, <1>3, <1>5, <1>6, <2>3, <3>1
    <2> QED  BY <2>1, <2>2, <2>3
  <1>9. f = e
    BY <1>5, <1>6, <1>7, <1>8, SeqEqual
  <1> QED  BY <1>9 DEF c, d, e, f

\* An answer that arrives in two pieces.
LEMMA TwoPieces ==
    ASSUME NEW S, NEW a \in Seq(S), NEW t \in Seq(S), NEW n \in 1..Len(a)
    PROVE  /\ SubSeq(a, 1, n) \in Seq(S) /\ Len(SubSeq(a, 1, n)) = n
           /\ SubSeq(a, n + 1, Len(a)) \o t \in Seq(S)
           /\ SubSeq(a, 1, n) \o (SubSeq(a, n + 1, Len(a)) \o t) = a \o t
  <1> DEFINE p == SubSeq(a, 1, n)
             q == SubSeq(a, n + 1, Len(a))
             u == q \o t
             v == p \o u
             w == a \o t
  <1>1. Len(a) \in Nat /\ Len(t) \in Nat /\ n \in Nat /\ 1 <= n /\ n <= Len(a)
        /\ \A k \in 1..Len(a) : a[k] \in S
    OBVIOUS
  <1>2. p \in Seq(S) /\ Len(p) = n /\ \A k \in 1..n : p[k] = a[k]
    BY <1>1
  <1>3. q \in Seq(S) /\ Len(q) = Len(a) - n /\ \A k \in 1..(Len(a) - n) : q[k] = a[n + k]
    <2>1. \A i \in (n + 1)..Len(a) : a[i] \in S
      BY <1>1
    <2>2. /\ q \in Seq(S)
          /\ Len(q) = (IF n + 1 <= Len(a) THEN Len(a) - (n + 1) + 1 ELSE 0)
          /\ \A i \in 1..(Len(a) - (n + 1) + 1) : q[i] = a[n + 1 + i - 1]
      BY <1>1, <2>1, SubSeqProperties
    <2> HIDE DEF q
    <2>3. Len(q) = Len(a) - n
      BY <1>1, <2>2
    <2>4. \A k \in 1..(Len(a) - n) : k \in 1..(Len(a) - (n + 1) + 1) /\ n + 1 + k - 1 = n + k
      BY <1>1
    <2> QED  BY <2>2, <2>3, <2>4
  <1> HIDE DEF p, q
  <1>4. /\ u \in Seq(S) /\ Len(u) = Len(q) + Len(t)
        /\ \A k \in 1..(Len(q) + Len(t)) : u[k] = IF k <= Len(q) THEN q[k] ELSE t[k - Len(q)]
    BY <1>3, Join
  <1> HIDE DEF u
  <1>5. /\ v \in Seq(S) /\ Len(v) = Len(p) + Len(u)
        /\ \A k \in 1..(Len(p) + Len(u)) : v[k] = IF k <= Len(p) THEN p[k] ELSE u[k - Len(p)]
    <2>1. p \in Seq(S) /\ u \in Seq(S)
      BY <1>2, <1>4
    <2> QED  BY <2>1, Join
  <1>6. /\ w \in Seq(S) /\ Len(w) = Len(a) + Len(t)
        /\ \A k \in 1..(Len(a) + Len(t)) : w[k] = IF k <= Len(a) THEN a[k] ELSE t[k - Len(a)]
    BY Join
  <1> HIDE DEF v, w
  <1>7. Len(v) = Len(w) /\ Len(w) = Len(a) + Len(t)
    BY <1>1, <1>2, <1>3, <1>4, <1>5, <1>6
  <1>8. ASSUME NEW k \in 1..(Len(a) + Len(t)) PROVE v[k] = w[k]
    <2>0. k \in 1..(Len(p) + Len(u)) /\ k \in Int
      BY <1>1, <1>2, <1>3, <1>4
    <2>1. CASE k <= n
      <3>1. k <= Len(p) /\ k <= Len(a) /\ k \in 1..n
        BY <1>1, <1>2, <2>0, <2>1
      <3> QED  BY <1>2, <1>5, <1>6, <2>0, <3>1
    <2>2. CASE ~(k <= n) /\ k <= Len(a)
      <3>1. /\ ~(k <= Len(p)) /\ k - n \in 1..(Len(a) - n) /\ k - Len(p) = k - n
            /\ k - n <= Len(q) /\ k - n \in 1..(Len(q) + Len(t)) /\ n + (k - n) = k
        BY <1>1, <1>2, <1>3, <2>0, <2>2
      <3>2. v[k] = u[k - n] /\ w[k] = a[k]
        BY <1>5, <1>6, <2>0, <2>2, <3>1
      <3>3. u[k - n] = q[k - n] /\ q[k - n] = a[n + (k - n)]
        BY <1>3, <1>4, <3>1
      <3> QED  BY <3>1, <3>2, <3>3
    <2>3. CASE ~(k <= Len(a))
      <3>1. /\ ~(k <= Len(p)) /\ k - Len(p) = k - n /\ ~(k - n <= Len(q))
            /\ k - n \in 1..(Len(q) + Len(t)) /\ (k - n) - Len(q) = k - Len(a)
        BY <1>1, <1>2, <1>3, <2>0, <2>3
      <3>2. v[k] = u[k - n] /\ w[k] = t[k - Len(a)]
        BY <1>5, <1>6, <2>0, <2>3, <3>1
      <3>3. u[k - n] = t[(k - n) - Len(q)]
        BY <1>4, <3>1
      <3> QED  BY <3>1, <3>2, <3>3
    <2> QED  BY <2>0, <2>1, <2>2, <2>3
  <1>9. v = w
    BY <1>5, <1>6, <1>7, <1>8, SeqEqual
  <1> QED  BY <1>2, <1>4, <1>9 DEF p, q, u, v, w

\* An element appended, and the first one gone.
LEMMA TailOfAppend ==
    ASSUME NEW S, NEW s \in Seq(S), NEW x \in S, s # <<>>
    PROVE  Tail(Append(s, x)) = Append(Tail(s), x)
  <1> DEFINE h == <<x>>
             d == Tail(s)
  <1>1. h \in Seq(S) /\ d \in Seq(S)
    BY OneToken
  <1>2. Append(s, x) = s \o h /\ Append(d, x) = d \o h
    BY <1>1, AppendIsConcat
  <1>3. Tail(s \o h) = d \o h
    BY <1>1, TailOfJoin
  <1> QED  BY <1>2, <1>3

\* A sequence is its first element and the rest.
LEMMA FirstAndRest ==
    ASSUME NEW S, NEW s \in Seq(S), s # <<>>
    PROVE  <<s[1]>> \o Tail(s) = s
  <1> DEFINE h == <<s[1]>>
             d == Tail(s)
             c == h \o d
  <1>1. Len(s) \in Nat /\ Len(s) >= 1 /\ s[1] \in S
    OBVIOUS
  <1>2. d \in Seq(S) /\ Len(d) = Len(s) - 1 /\ \A k \in 1..(Len(s) - 1) : d[k] = s[k + 1]
    OBVIOUS
  <1>3. h \in Seq(S) /\ Len(h) = 1 /\ h[1] = s[1]
    BY <1>1, OneToken
  <1> HIDE DEF h, d
  <1>4. /\ c \in Seq(S) /\ Len(c) = Len(h) + Len(d)
        /\ \A k \in 1..(Len(h) + Len(d)) : c[k] = IF k <= Len(h) THEN h[k] ELSE d[k - Len(h)]
    <2>1. h \in Seq(S) /\ d \in Seq(S)
      BY <1>2, <1>3
    <2> QED  BY <2>1, Join
  <1> HIDE DEF c
  <1>5. Len(h) + Len(d) = Len(s) /\ Len(h) = 1
    BY <1>1, <1>2, <1>3
  <1>6. ASSUME NEW k \in 1..Len(s) PROVE c[k] = s[k]
    <2>1. CASE k = 1
      BY <1>1, <1>3, <1>4, <1>5, <2>1
    <2>2. CASE k # 1
      <3>1. ~(k <= 1) /\ k - 1 \in 1..(Len(s) - 1) /\ (k - 1) + 1 = k
        BY <1>1, <2>2
      <3>2. c[k] = d[k - 1]
        BY <1>4, <1>5, <3>1
      <3>3. d[k - 1] = s[(k - 1) + 1]
        BY <1>2, <3>1
      <3> QED  BY <3>1, <3>2, <3>3
    <2> QED  BY <2>1, <2>2
  <1>7. c = s
    BY <1>4, <1>5, <1>6, SeqEqual
  <1> QED  BY <1>7 DEF c, d, h

-----------------------------------------------------------------------------
(* The jobs                                                                *)

\* Fields of a job, one by one.
LEMMA JobFields ==
    ASSUME NEW jb \in JobType
    PROVE  /\ jb.backend \in BOOLEAN /\ jb.cur \in Hosts \cup {NoHost}
           /\ jb.host \in Hosts \cup {NoHost} /\ jb.file \in Jobs /\ jb.redir \in Int
           /\ jb.st \in {"header", "data", "chunk"} /\ jb.rest \in Int
           /\ jb.store \in BOOLEAN /\ jb.assigned \in BOOLEAN
           /\ PeerHost(jb) \in Hosts \cup {NoHost}
  BY DEF JobType, PeerHost

\* A new job has not begun and points to its own file.
LEMMA NewJobType ==
    ASSUME NEW j \in Jobs
    PROVE  NewJob(j) \in JobType /\ NewJob(j).file = j /\ NewJob(j).st = "header"
  <1> DEFINE b == j \notin Direct
             h == IF j \in Direct THEN DirectHost ELSE NoHost
             t == TRUE
             f == FALSE
             z == 0
  <1>1. b \in BOOLEAN /\ h \in Hosts \cup {NoHost} /\ t \in BOOLEAN /\ f \in BOOLEAN /\ z \in Int
        /\ RedirMax \in Int
    BY PipelineAssumption
  <1>2. NewJob(j) = [backend |-> b, cur |-> NoHost, host |-> h, file |-> j, redir |-> RedirMax,
                     st |-> "header", rest |-> z, store |-> t, assigned |-> f]
    BY DEF NewJob
  <1> HIDE DEF b, h, t, f, z
  <1> QED  BY <1>1, <1>2 DEF JobType

\* A set of places has a least one.
LEMMA LeastPlace ==
    ASSUME NEW T, T \subseteq Nat, T # {}
    PROVE  \E x \in T : \A y \in T : x <= y
  <1> DEFINE R == OpToRel(<, Nat)
  <1>1. \E x \in T : \A y \in T : ~(<<y, x>> \in R)
    BY NatLessThanWellFounded, WFMin
  <1>2. PICK x \in T : \A y \in T : ~(<<y, x>> \in R)
    BY <1>1
  <1> HIDE DEF R
  <1>3. \A y \in T : x <= y
    <2> TAKE y \in T
    <2>1. x \in Nat /\ y \in Nat
      OBVIOUS
    <2>2. y < x => <<y, x>> \in R
      BY <2>1 DEF OpToRel, R
    <2> QED  BY <1>2, <2>1, <2>2
  <1> QED  BY <1>3

\* The mirror that is chosen is one.
LEMMA FirstUsableHost ==
    ASSUME NEW m \in DOMAIN Backends, Usable(Backends[m])
    PROVE  FirstUsable \in Hosts
  <1> DEFINE T == {k \in DOMAIN Backends : Usable(Backends[k])}
             P(k) == Usable(Backends[k]) /\ \A i \in 1..(k - 1) : ~Usable(Backends[i])
  <1>1. Backends \in Seq(Hosts) /\ DOMAIN Backends = 1..Len(Backends) /\ Len(Backends) \in Nat
    BY PipelineAssumption
  <1>2. T \subseteq Nat /\ T # {}
    BY <1>1
  <1>3. PICK x \in T : \A y \in T : x <= y
    BY <1>2, LeastPlace
  <1>4. x \in 1..Len(Backends) /\ Usable(Backends[x])
    BY <1>1
  <1>5. ASSUME NEW i \in 1..(x - 1), Usable(Backends[i]) PROVE FALSE
    <2>1. i \in T /\ i < x
      BY <1>1, <1>4, <1>5
    <2> QED  BY <1>1, <1>3, <1>4, <2>1
  <1>6. \E k \in DOMAIN Backends : P(k)
    BY <1>1, <1>4, <1>5
  <1>7. (CHOOSE k \in DOMAIN Backends : P(k)) \in DOMAIN Backends
    BY <1>6
  <1>8. FirstUsable = Backends[CHOOSE k \in DOMAIN Backends : P(k)]
    BY DEF FirstUsable
  <1> HIDE DEF P
  <1> QED  BY <1>1, <1>7, <1>8

\* SetupJobConfig finds a mirror for the job and leaves the rest of it alone.
LEMMA ConfiguredJob ==
    ASSUME NEW jb \in JobType, HasMirror(jb)
    PROVE  /\ Configured(jb) \in JobType
           /\ Configured(jb).file = jb.file /\ Configured(jb).st = jb.st
           /\ Configured(jb).rest = jb.rest
           /\ PeerHost(Configured(jb)) \in Hosts
  <1>0. NoHost \notin Hosts
    BY PipelineAssumption
  <1>1. CASE jb.backend /\ ~Usable(jb.cur)
    <2> DEFINE h == FirstUsable
    <2>1. h \in Hosts
      BY <1>1, FirstUsableHost DEF HasMirror
    <2>2. Configured(jb) = [jb EXCEPT !.cur = h]
      BY <1>1 DEF Configured
    <2> HIDE DEF h
    <2> QED  BY <1>0, <2>1, <2>2 DEF JobType, PeerHost
  <1>2. CASE jb.backend /\ Usable(jb.cur)
    <2>1. Configured(jb) = jb /\ jb.cur # NoHost
      BY <1>2 DEF Configured, Usable
    <2>2. jb.cur \in Hosts
      BY <2>1, JobFields
    <2> QED  BY <2>1, <2>2 DEF PeerHost
  <1>3. CASE ~jb.backend
    <2>1. Configured(jb) = jb /\ PeerHost(jb) # NoHost
      BY <1>3 DEF Configured, HasMirror, Usable
    <2> QED  BY <2>1, JobFields
  <1> QED  BY <1>1, <1>2, <1>3

\* ResetStreamState leaves a job with its file and its host.
LEMMA ResetJob ==
    ASSUME NEW jb \in JobType
    PROVE  /\ ResetStreamState(jb) \in JobType /\ ResetStreamState(jb).file = jb.file
           /\ ResetStreamState(jb).st = "header"
           /\ PeerHost(ResetStreamState(jb)) = PeerHost(jb)
  <1> DEFINE z == 0
             h == "header"
  <1>1. z \in Int /\ h \in {"header", "data", "chunk"}
    OBVIOUS
  <1>2. ResetStreamState(jb) = [jb EXCEPT !.st = h, !.rest = z]
    BY DEF ResetStreamState
  <1> HIDE DEF z
  <1> QED  BY <1>1, <1>2 DEF JobType, PeerHost

-----------------------------------------------------------------------------
(* Steps that leave the stream alone                                       *)

\* The stream, the pipeline and its first job's state are what they were.
LEMMA StreamKept ==
    ASSUME StreamInv, UNCHANGED <<inBuf, wire, activeJobs>>,
           activeJobs # <<>> => /\ job'[Front].st = job[Front].st
                                /\ job'[Front].rest = job[Front].rest
    PROVE  StreamInv'
  <1>1. /\ inBuf' = inBuf /\ wire' = wire /\ activeJobs' = activeJobs
        /\ inBuf \in Seq(Tokens) /\ wire \in Seq(Tokens)
        /\ activeJobs = <<>> => inBuf = <<>> /\ wire = <<>>
    BY DEF StreamInv
  <1>2. CASE activeJobs = <<>>
    BY <1>1, <1>2 DEF StreamInv
  <1>3. CASE activeJobs # <<>>
    <2>1. PICK r \in Remains(Front, job[Front].st) : StreamOf(r)
      BY <1>3 DEF StreamInv
    <2>2. Front' = Front
      BY <1>1 DEF Front
    <2>3. StreamOf(r)'
      BY <1>1, <2>1, <2>2 DEF StreamOf
    <2>4. r \in Remains(Front', job'[Front'].st)
      BY <1>3, <2>1, <2>2
    <2>5. job'[Front'].st = "data" => job'[Front'].rest = 1
      BY <1>3, <2>2 DEF StreamInv
    <2>6. \E s \in Remains(Front', job'[Front'].st) : StreamOf(s)'
      BY <2>3, <2>4
    <2> QED  BY <1>1, <1>3, <2>5, <2>6 DEF StreamInv
  <1> QED  BY <1>2, <1>3

\* No connection, no stream.
LEMMA StreamCleared ==
    ASSUME inBuf' = <<>>, wire' = <<>>, activeJobs' = <<>>
    PROVE  StreamInv'
  BY DEF StreamInv

\* Nothing the invariant speaks of changes.
LEMMA Untouched ==
    ASSUME PipeInv,
           UNCHANGED <<pc, loopRes, con, wire, inBuf, nextJobs, activeJobs, job, got, idle>>
    PROVE  PipeInv'
  <1>1. PlaceInv' /\ RedirectInv' /\ JobInv' /\ OwnInv' /\ Redirecting' = Redirecting
    BY DEF PipeInv, PlaceInv, RedirectInv, JobInv, OwnInv, Redirecting, Has, Front
  <1>2. StreamInv => StreamInv'
    BY StreamKept
  <1> QED  BY <1>1, <1>2 DEF PipeInv

\* The thread goes on, and the pipeline is what it was.
LEMMA Quiet ==
    ASSUME PipeInv, ~Redirecting,
           UNCHANGED <<con, wire, inBuf, activeJobs, got, idle>>,
           job' \in [Jobs -> JobType],
           \A j \in Jobs : job'[j].file = j /\ job'[j].st = job[j].st,
           activeJobs # <<>> => Front \in Jobs /\ job'[Front].rest = job[Front].rest,
           pc' # "dial",
           pc' = "connect" => con = NoHost,
           pc' = "fill" => con # NoHost,
           pc' = "result" => "TGT" \notin loopRes'
    PROVE  PipeInv'
  <1>1. PlaceInv'
    BY DEF PipeInv, PlaceInv
  <1>2. ~Redirecting'
    BY DEF Redirecting, Has
  <1>3. JobInv'
    BY DEF PipeInv, JobInv, Front
  <1>4. StreamInv'
    BY StreamKept DEF PipeInv
  <1>5. OwnInv'
    BY DEF PipeInv, OwnInv
  <1> QED  BY <1>1, <1>2, <1>3, <1>4, <1>5 DEF PipeInv, RedirectInv

-----------------------------------------------------------------------------
(* WorkLoop                                                                *)

\* The first of the pipeline, and those that wait.
LEMMA QueueFacts ==
    ASSUME QueueInv
    PROVE  /\ activeJobs \in Seq(Jobs) /\ nextJobs \in Seq(Jobs)
           /\ activeJobs # <<>> => /\ Front \in Jobs /\ Front \in Elems(activeJobs)
                                   /\ Front \notin Elems(Tail(activeJobs))
                                   /\ Tail(activeJobs) \in Seq(Jobs)
           /\ nextJobs # <<>> => nextJobs[1] \in Jobs /\ nextJobs[1] \in Elems(nextJobs)
           /\ nextJobs # <<>> /\ activeJobs # <<>> => nextJobs[1] # Front
  <1>1. /\ activeJobs \in Seq(Jobs) /\ nextJobs \in Seq(Jobs)
        /\ NoRepeat(activeJobs) /\ Apart(nextJobs, activeJobs)
    BY DEF QueueInv
  <1>2. activeJobs # <<>> => /\ Front \in Jobs /\ Front \in Elems(activeJobs)
                             /\ Front \notin Elems(Tail(activeJobs))
                             /\ Tail(activeJobs) \in Seq(Jobs)
    BY <1>1, TailQueue DEF Front
  <1>3. nextJobs # <<>> => nextJobs[1] \in Jobs /\ nextJobs[1] \in Elems(nextJobs)
    BY <1>1, TailQueue
  <1> QED  BY <1>1, <1>2, <1>3 DEF Apart

\* The thread ends: nothing is left.
LEMMA ReturnPipe ==
    ASSUME PipeInv, Return, UNCHANGED got,
           DOMAIN idle' = Hosts, \A h \in Hosts : idle'[h] # NoConn => idle'[h].out = <<>>
    PROVE  PipeInv'
  <1>1. /\ pc' = "returned" /\ con' = NoHost /\ wire' = <<>> /\ inBuf' = <<>> /\ activeJobs' = <<>>
        /\ job' = [j \in Jobs |-> NewJob(j)]
    BY DEF Return
  <1>2. PlaceInv' /\ ~Redirecting'
    BY <1>1 DEF PlaceInv, Redirecting
  <1>3. JobInv'
    <2>1. \A j \in Jobs : NewJob(j) \in JobType /\ NewJob(j).file = j /\ NewJob(j).st = "header"
      BY NewJobType
    <2> QED  BY <1>1, <2>1 DEF JobInv
  <1>4. OwnInv'
    BY DEF PipeInv, OwnInv
  <1> QED  BY <1>1, <1>2, <1>3, <1>4, StreamCleared DEF PipeInv, RedirectInv

\* A connection that goes to the pool with nothing under way.
LEMMA CleanRecycled ==
    ASSUME OwnInv, wire = <<>>, NEW h, idle' = Recycled(h)
    PROVE  DOMAIN idle' = Hosts /\ \A g \in Hosts : idle'[g] # NoConn => idle'[g].out = <<>>
  <1> DEFINE c == [live |-> TRUE, out |-> wire, last |-> lastFile]
  <1>1. c.out = <<>>
    OBVIOUS
  <1>2. idle' = [idle EXCEPT ![h] = c]
    BY DEF Recycled
  <1> HIDE DEF c
  <1> QED  BY <1>1, <1>2 DEF OwnInv

\* An ordered stop gives an unused connection back.
LEMMA TopStopPipe ==
    ASSUME PipeInv, TopStop
    PROVE  PipeInv'
  <1>1. Return /\ UNCHANGED got /\ activeJobs = <<>> /\ pc = "top"
    BY DEF TopStop
  <1>2. wire = <<>> /\ OwnInv
    BY <1>1 DEF PipeInv, Redirecting, StreamInv
  <1>3. CASE con # NoHost
    <2>1. idle' = Recycled(con)
      BY <1>3 DEF TopStop
    <2> QED  BY <1>1, <1>2, <2>1, CleanRecycled, ReturnPipe
  <1>4. CASE con = NoHost
    <2>1. idle' = idle
      BY <1>4 DEF TopStop
    <2> QED  BY <1>1, <1>2, <2>1, ReturnPipe DEF OwnInv
  <1> QED  BY <1>3, <1>4

\* A stop after ExchangeData.
LEMMA ResultStopPipe ==
    ASSUME PipeInv, ResultStop
    PROVE  PipeInv'
  <1>1. Return /\ UNCHANGED <<got, idle>>
    BY DEF ResultStop
  <1> QED  BY <1>1, ReturnPipe DEF PipeInv, OwnInv

\* New jobs are taken over.
LEMMA TopSplicePipe ==
    ASSUME QueueInv, PipeInv, TopSplice
    PROVE  PipeInv'
  <1>1. /\ pc = "top" /\ UNCHANGED <<con, wire, inBuf, activeJobs, got, idle, job, loopRes>>
        /\ pc' \in {"select", "connect", "fill"}
        /\ pc' = "connect" => con = NoHost
        /\ pc' = "fill" => con # NoHost
    BY DEF TopSplice, conVars
  <1>2. ~Redirecting
    BY <1>1 DEF Redirecting
  <1>3. job' \in [Jobs -> JobType] /\ \A j \in Jobs : job'[j].file = j /\ job'[j].st = job[j].st
    BY <1>1 DEF PipeInv, JobInv
  <1>4. activeJobs # <<>> => Front \in Jobs /\ job'[Front].rest = job[Front].rest
    BY <1>1, QueueFacts
  <1> QED  BY <1>1, <1>2, <1>3, <1>4, Quiet

\* Each job that is left has a mirror, and no job has begun.
LEMMA ConnectPreparePipe ==
    ASSUME QueueInv, PipeInv, ConnectPrepare
    PROVE  PipeInv'
  <1>1. /\ pc = "connect" /\ nextJobs' \in Without(nextJobs, NoMirror) /\ activeJobs' = <<>>
        /\ job' = ReadyJobs /\ inBuf' = <<>> /\ UNCHANGED <<con, wire, idle, got>>
        /\ pc' = IF nextJobs' = <<>> THEN "select" ELSE "dial"
    BY DEF ConnectPrepare
  <1>2. con = NoHost /\ activeJobs = <<>> /\ wire = <<>> /\ job \in [Jobs -> JobType]
        /\ \A j \in Jobs : job[j].file = j
    BY <1>1 DEF PipeInv, PlaceInv, Redirecting, StreamInv, JobInv
  <1>3. ASSUME NEW j \in Elems(nextJobs) \ NoMirror
        PROVE  /\ ResetStreamState(Configured(job[j])) \in JobType
               /\ ResetStreamState(Configured(job[j])).file = job[j].file
               /\ ResetStreamState(Configured(job[j])).st = "header"
               /\ PeerHost(ResetStreamState(Configured(job[j]))) \in Hosts
    <2>1. j \in Jobs /\ HasMirror(job[j])
      <3>1. nextJobs \in Seq(Jobs)
        BY DEF QueueInv
      <3> QED  BY <3>1 DEF NoMirror, Elems
    <2>2. /\ Configured(job[j]) \in JobType /\ Configured(job[j]).file = job[j].file
          /\ PeerHost(Configured(job[j])) \in Hosts
      BY <1>2, <2>1, ConfiguredJob
    <2> QED  BY <2>2, ResetJob
  <1>4. ASSUME NEW j \in Jobs
        PROVE  job'[j] \in JobType /\ job'[j].file = j /\ job'[j].st = "header"
    <2>1. CASE j \in Elems(nextJobs) \ NoMirror
      <3>1. job'[j] = ResetStreamState(Configured(job[j]))
        BY <1>1, <2>1 DEF ReadyJobs
      <3> QED  BY <1>2, <1>3, <2>1, <3>1
    <2>2. CASE ~(j \in Elems(nextJobs) \ NoMirror)
      <3>1. job'[j] = NewJob(j)
        BY <1>1, <2>2 DEF ReadyJobs
      <3> QED  BY <3>1, NewJobType
    <2> QED  BY <2>1, <2>2
  <1>5. JobInv'
    <2>1. job' = [j \in Jobs |-> job'[j]]
      BY <1>1 DEF ReadyJobs
    <2>2. job' \in [Jobs -> JobType]
      BY <1>4, <2>1
    <2> QED  BY <1>4, <2>2 DEF JobInv
  <1>6. PlaceInv'
    <2>1. CASE nextJobs' = <<>>
      BY <1>1, <1>2, <2>1 DEF PlaceInv
    <2>2. CASE nextJobs' # <<>>
      <3> DEFINE j == nextJobs'[1]
      <3>1. nextJobs \in Seq(Jobs)
        BY DEF QueueInv
      <3>2. nextJobs' \in Seq(Jobs) /\ Elems(nextJobs') \subseteq Elems(nextJobs) \ NoMirror
        BY <1>1, <3>1, WithoutQueue
      <3>3. j \in Jobs /\ j \in Elems(nextJobs')
        BY <2>2, <3>2, TailQueue
      <3>4. j \in Elems(nextJobs) \ NoMirror
        BY <3>2, <3>3
      <3> HIDE DEF j
      <3>5. job'[j] = ResetStreamState(Configured(job[j]))
        BY <1>1, <3>3, <3>4 DEF ReadyJobs
      <3>6. PeerHost(job'[j]) \in Hosts
        BY <1>3, <3>4, <3>5
      <3>7. PeerHost(job'[nextJobs'[1]]) \in Hosts
        BY <3>6 DEF j
      <3> QED  BY <1>1, <1>2, <2>2, <3>7 DEF PlaceInv
    <2> QED  BY <2>1, <2>2
  <1>7. ~Redirecting'
    BY <1>1 DEF Redirecting
  <1>8. StreamInv'
    BY <1>1, <1>2, StreamCleared
  <1>9. OwnInv'
    BY <1>1 DEF PipeInv, OwnInv
  <1> QED  BY <1>5, <1>6, <1>7, <1>8, <1>9 DEF PipeInv, RedirectInv

\* A connection leads to a host.
LEMMA RouteHosts ==
    ASSUME PipeInv, pc = "dial", NEW r \in Routes
    PROVE  r[1] \in Hosts
  <1>1. PeerHost(job[nextJobs[1]]) \in Hosts
    BY DEF PipeInv, PlaceInv
  <1>2. PrefProxy # NoHost => PrefProxy \in Hosts
    BY PipelineAssumption DEF PrefProxy
  <1> DEFINE p == PeerHost(job[nextJobs[1]])
  <1>3. \/ r = <<p, proxyTot>>
        \/ r = <<p, TRUE>>
        \/ PrefProxy # NoHost /\ r = <<PrefProxy, proxyTot>>
    BY DEF Routes
  <1>4. p \in Hosts
    BY <1>1
  <1> HIDE DEF p
  <1> DEFINE t == TRUE
             v == proxyTot
             q == PrefProxy
  <1>5. r = <<p, v>> \/ r = <<p, t>> \/ (q # NoHost /\ r = <<q, v>>)
    BY <1>3
  <1> HIDE DEF t, v, q
  <1>7. r[1] = p \/ (PrefProxy # NoHost /\ r[1] = PrefProxy)
    BY <1>5 DEF q
  <1> QED  BY <1>2, <1>4, <1>7

\* The connection is made, or not: nothing is in the pipeline.
LEMMA Dialled ==
    ASSUME PipeInv, pc = "dial", pc' \in {"fill", "top"},
           UNCHANGED <<activeJobs, inBuf, job, got>>,
           wire' = <<>>, con' \in Hosts \/ (con' = NoHost /\ pc' = "top"),
           DOMAIN idle' = Hosts, \A h \in Hosts : idle'[h] # NoConn => idle'[h] = idle[h]
    PROVE  PipeInv'
  <1>1. con = NoHost /\ activeJobs = <<>> /\ inBuf = <<>> /\ JobInv /\ OwnInv
    BY DEF PipeInv, PlaceInv, Redirecting, StreamInv
  <1>2. PlaceInv'
    BY <1>1, PipelineAssumption DEF PlaceInv
  <1>3. ~Redirecting'
    BY DEF Redirecting
  <1>4. JobInv'
    BY <1>1 DEF JobInv
  <1>5. StreamInv'
    BY <1>1, StreamCleared
  <1>6. OwnInv'
    BY <1>1 DEF OwnInv
  <1> QED  BY <1>2, <1>3, <1>4, <1>5, <1>6 DEF PipeInv, RedirectInv

\* A connection is made, taken from the pool, or neither.
LEMMA DialPipe ==
    ASSUME PipeInv, DialFresh \/ DialReuse \/ DialFails
    PROVE  PipeInv'
  <1>0. DOMAIN idle = Hosts /\ (\A h \in Hosts : idle[h] # NoConn => idle[h].out = <<>>)
        /\ (pc = "dial" => con = NoHost /\ wire = <<>>)
    BY DEF PipeInv, OwnInv, PlaceInv, Redirecting, StreamInv
  <1>1. CASE DialFresh
    <2>1. PICK r \in Routes : idle' = [idle EXCEPT ![r[1]] = NoConn] /\ con' = r[1]
      BY <1>1 DEF DialFresh
    <2>2. pc = "dial" /\ pc' = "fill" /\ wire' = <<>> /\ UNCHANGED <<activeJobs, inBuf, job, got>>
      BY <1>1 DEF DialFresh, queues
    <2>3. r[1] \in Hosts
      BY <2>2, RouteHosts
    <2>4. DOMAIN idle' = Hosts /\ \A h \in Hosts : idle'[h] # NoConn => idle'[h] = idle[h]
      BY <1>0, <2>1, <2>3
    <2> QED  BY <2>1, <2>2, <2>3, <2>4, Dialled
  <1>2. CASE DialReuse
    <2>1. PICK r \in Routes :
            /\ idle[r[1]] # NoConn /\ idle' = [idle EXCEPT ![r[1]] = NoConn]
            /\ \/ con' = r[1] /\ wire' = idle[r[1]].out /\ pc' = "fill"
               \/ UNCHANGED <<con, wire>> /\ pc' = "top"
      BY <1>2 DEF DialReuse
    <2>2. pc = "dial" /\ UNCHANGED <<activeJobs, inBuf, job, got>>
      BY <1>2 DEF DialReuse, queues
    <2>3. r[1] \in Hosts
      BY <2>2, RouteHosts
    <2>4. DOMAIN idle' = Hosts /\ \A h \in Hosts : idle'[h] # NoConn => idle'[h] = idle[h]
      BY <1>0, <2>1, <2>3
    <2>5. wire' = <<>> /\ pc' \in {"fill", "top"} /\ (con' \in Hosts \/ (con' = NoHost /\ pc' = "top"))
      BY <1>0, <2>1, <2>2, <2>3
    <2> QED  BY <2>2, <2>4, <2>5, Dialled
  <1>3. CASE DialFails
    <2>1. /\ pc = "dial" /\ pc' = "top" /\ UNCHANGED <<activeJobs, inBuf, job, got, con, wire>>
          /\ idle' = [h \in Hosts |-> IF \E r \in Routes : r[1] = h THEN NoConn ELSE idle[h]]
      BY <1>3 DEF DialFails, queues
    <2>2. DOMAIN idle' = Hosts /\ \A h \in Hosts : idle'[h] # NoConn => idle'[h] = idle[h]
      BY <2>1
    <2>3. con' = NoHost /\ wire' = <<>>
      BY <1>0, <2>1
    <2> QED  BY <2>1, <2>2, <2>3, Dialled
  <1> QED  BY <1>1, <1>2, <1>3

\* A job without a mirror is dropped; it is not in the pipeline.
LEMMA FillDropPipe ==
    ASSUME QueueInv, PipeInv, FillDrop
    PROVE  PipeInv'
  <1> DEFINE j == nextJobs[1]
  <1>1. /\ pc = "fill" /\ nextJobs # <<>> /\ job' = Gone(job, {j})
        /\ UNCHANGED <<con, wire, inBuf, activeJobs, got, idle, pc, loopRes>>
    BY DEF FillDrop, MayRequest, conVars
  <1>2. j \in Jobs /\ (activeJobs # <<>> => Front \in Jobs /\ j # Front)
    BY <1>1, QueueFacts
  <1> HIDE DEF j
  <1>3. ~Redirecting /\ con # NoHost
    BY <1>1 DEF Redirecting, PipeInv, PlaceInv
  <1>4. /\ job \in [Jobs -> JobType] /\ \A i \in Jobs : job[i].file = i
        /\ job[j].st = "header"
    BY <1>2, <1>3 DEF PipeInv, JobInv
  <1>5. NewJob(j) \in JobType /\ NewJob(j).file = j /\ NewJob(j).st = "header"
    BY <1>2, NewJobType
  <1>6. \A i \in Jobs : job'[i] = IF i = j THEN NewJob(j) ELSE job[i]
    BY <1>1 DEF Gone
  <1>7. job' \in [Jobs -> JobType]
    BY <1>1, <1>4, <1>5 DEF Gone
  <1>8. \A i \in Jobs : job'[i].file = i /\ job'[i].st = job[i].st
    BY <1>4, <1>5, <1>6
  <1>9. activeJobs # <<>> => Front \in Jobs /\ job'[Front].rest = job[Front].rest
    BY <1>2, <1>6
  <1> QED  BY <1>1, <1>3, <1>7, <1>8, <1>9, Quiet

\* A job for another host waits.
LEMMA FillMismatchPipe ==
    ASSUME QueueInv, PipeInv, FillMismatch
    PROVE  PipeInv'
  <1> DEFINE j == nextJobs[1]
             c == Configured(job[j])
  <1>1. /\ pc = "fill" /\ nextJobs # <<>> /\ job' = [job EXCEPT ![j] = c] /\ HasMirror(job[j])
        /\ UNCHANGED <<con, wire, inBuf, activeJobs, got, idle>> /\ pc' = "select"
    BY DEF FillMismatch, MayRequest, conVars, queues
  <1>2. j \in Jobs /\ (activeJobs # <<>> => Front \in Jobs /\ j # Front)
    BY <1>1, QueueFacts
  <1>3. ~Redirecting
    BY <1>1 DEF Redirecting
  <1>4. job \in [Jobs -> JobType] /\ \A i \in Jobs : job[i].file = i
    BY DEF PipeInv, JobInv
  <1>5. c \in JobType /\ c.file = j /\ c.st = job[j].st
    BY <1>1, <1>2, <1>4, ConfiguredJob
  <1> HIDE DEF j, c
  <1>6. job' \in [Jobs -> JobType]
    BY <1>1, <1>2, <1>4, <1>5
  <1>7. \A i \in Jobs : job'[i].file = i /\ job'[i].st = job[i].st
    BY <1>1, <1>2, <1>4, <1>5
  <1>8. activeJobs # <<>> => Front \in Jobs /\ job'[Front].rest = job[Front].rest
    BY <1>1, <1>2, <1>4
  <1> QED  BY <1>1, <1>3, <1>6, <1>7, <1>8, Quiet

\* One more request goes to the end of the stream, as its job to that of the
\* pipeline.
LEMMA FillRequestPipe ==
    ASSUME QueueInv, PipeInv, FillRequest
    PROVE  PipeInv'
  <1> DEFINE j == nextJobs[1]
             t == TRUE
             d == Configured(job[j])
             c == [d EXCEPT !.store = t]
             x == Request(j)
  <1>1. /\ pc = "fill" /\ nextJobs # <<>> /\ job' = [job EXCEPT ![j] = c] /\ HasMirror(job[j])
        /\ activeJobs' = Append(activeJobs, j)
        /\ UNCHANGED <<con, inBuf, got, idle>> /\ pc' \in {"select", "fill"}
        /\ wire' = Append(wire, Request(job[j].file))
    BY DEF FillRequest, MayRequest, Pipelined, Requested
  <1>2. j \in Jobs /\ activeJobs \in Seq(Jobs) /\ (activeJobs # <<>> => Front \in Jobs /\ j # Front)
    BY <1>1, QueueFacts
  <1>3. con # NoHost /\ StreamInv /\ JobInv /\ OwnInv
    BY <1>1 DEF Redirecting, PipeInv, PlaceInv
  <1>4. job \in [Jobs -> JobType] /\ \A i \in Jobs : job[i].file = i
    BY <1>3 DEF JobInv
  <1>5. wire' = Append(wire, x)
    BY <1>1, <1>2, <1>4
  <1>6. job[j].st = "header"
    BY <1>2, <1>3 DEF JobInv
  <1>7. d \in JobType /\ d.file = j /\ d.st = "header"
    BY <1>1, <1>2, <1>4, <1>6, ConfiguredJob
  <1>8. t \in BOOLEAN
    OBVIOUS
  <1> HIDE DEF t, d
  <1>9. c \in JobType /\ c.file = j /\ c.st = "header"
    BY <1>7, <1>8 DEF JobType
  <1>10. x \in Tokens
    BY <1>2, TokenFacts
  <1> HIDE DEF c, j, x
  <1>11. /\ activeJobs' # <<>> /\ activeJobs' \in Seq(Jobs)
         /\ activeJobs # <<>> => Front' = Front
         /\ activeJobs = <<>> => Front' = j
    BY <1>1, <1>2, AppendQueue DEF Front
  <1>12. PlaceInv' /\ ~Redirecting'
    BY <1>1, <1>3 DEF PlaceInv, Redirecting
  <1>13. job' \in [Jobs -> JobType] /\ \A i \in Jobs : job'[i] = IF i = j THEN c ELSE job[i]
    BY <1>1, <1>2, <1>4, <1>9
  <1>14. JobInv'
    <2>1. \A i \in Jobs : job'[i].file = i
      BY <1>4, <1>9, <1>13
    <2>2. ASSUME NEW i \in Jobs, activeJobs' = <<>> \/ i # Front' PROVE job'[i].st = "header"
      <3>1. CASE i = j
        BY <1>9, <1>13, <3>1
      <3>2. CASE i # j
        <4>1. activeJobs = <<>> \/ i # Front
          BY <1>11, <2>2
        <4>2. job[i].st = "header"
          BY <1>3, <4>1 DEF JobInv
        <4> QED  BY <1>13, <3>2, <4>2
      <3> QED  BY <3>1, <3>2
    <2> QED  BY <1>13, <2>1, <2>2 DEF JobInv
  <1>15. inBuf' = inBuf /\ inBuf \in Seq(Tokens) /\ wire \in Seq(Tokens) /\ wire' \in Seq(Tokens)
    BY <1>1, <1>3, <1>5, <1>10 DEF StreamInv
  <1>16. StreamInv'
    <2>1. CASE activeJobs = <<>>
      <3>1. inBuf = <<>> /\ wire = <<>>
        BY <1>3, <2>1 DEF StreamInv
      <3>2. Front' = j /\ Tail(activeJobs') = <<>>
        BY <1>1, <1>11, <2>1
      <3>3. wire' = <<x>> /\ inBuf' = <<>>
        BY <1>5, <1>15, <3>1
      <3>0. PICK r : r = <<x>>
        OBVIOUS
      <3>4. r \in Seq(Tokens) /\ Len(r) = 1
        BY <1>10, <3>0, OneToken
      <3>5. inBuf' \o wire' = r \o Requests(Tail(activeJobs'))
        <4>1. <<>> \o r = r /\ r \o <<>> = r
          BY <3>4, ConcatEmptySeq
        <4> QED  BY <3>0, <3>2, <3>3, <4>1, RequestsEmpty
      <3>6. Len(inBuf') <= Len(r)
        BY <3>3, <3>4
      <3>7. StreamOf(r)'
        BY <3>3, <3>4, <3>5, <3>6 DEF StreamOf
      <3>8. job'[Front'].st = "header"
        BY <1>2, <1>9, <1>13, <3>2
      <3>9. r \in Remains(Front', job'[Front'].st)
        BY <3>0, <3>2, <3>8 DEF Remains, x
      <3>10. \E s \in Remains(Front', job'[Front'].st) : StreamOf(s)'
        BY <3>7, <3>9
      <3> QED  BY <1>11, <1>15, <3>8, <3>10 DEF StreamInv
    <2>2. CASE activeJobs # <<>>
      <3> DEFINE q == Tail(activeJobs)
      <3>1. Front' = Front /\ Front \in Jobs /\ j # Front /\ q \in Seq(Jobs)
        BY <1>2, <1>11, <2>2
      <3>2. Tail(activeJobs') = Append(q, j)
        BY <1>1, <1>2, <2>2, TailOfAppend
      <3>3. PICK r \in Remains(Front, job[Front].st) : StreamOf(r)
        BY <1>3, <2>2 DEF StreamInv
      <3>4. job'[Front] = job[Front] /\ job[Front].st \in {"header", "data", "chunk"}
        BY <1>4, <1>13, <3>1, JobFields
      <3>5. r \in Seq(Tokens)
        BY <3>1, <3>4, RemainsFacts
      <3>6. Requests(q) \in Seq(Tokens)
        BY <3>1, RequestsType
      <3>7. Requests(Append(q, j)) = Append(Requests(q), x)
        BY <1>2, <3>1, RequestsAppend DEF x
      <3>8. inBuf \o Append(wire, x) = Append(inBuf \o wire, x)
        BY <1>10, <1>15, AppendToJoin
      <3>9. r \o Append(Requests(q), x) = Append(r \o Requests(q), x)
        BY <1>10, <3>5, <3>6, AppendToJoin
      <3>10. inBuf \o wire = r \o Requests(q) /\ Len(inBuf) <= Len(r)
             /\ (r[Len(r)].k = "request" => Len(inBuf) < Len(r))
        BY <3>3 DEF StreamOf
      <3> HIDE DEF q
      <3>11. inBuf' \o wire' = r \o Requests(Tail(activeJobs'))
        BY <1>5, <1>15, <3>2, <3>7, <3>8, <3>9, <3>10
      <3>12. StreamOf(r)'
        BY <1>15, <3>1, <3>10, <3>11 DEF StreamOf
      <3>13. job'[Front'].st = job[Front].st /\ job'[Front'].rest = job[Front].rest
        BY <3>1, <3>4
      <3>14. \E s \in Remains(Front', job'[Front'].st) : StreamOf(s)'
        BY <3>1, <3>3, <3>12, <3>13
      <3>15. job'[Front'].st = "data" => job'[Front'].rest = 1
        BY <1>3, <2>2, <3>13 DEF StreamInv
      <3> QED  BY <1>11, <1>15, <3>14, <3>15 DEF StreamInv
    <2> QED  BY <2>1, <2>2
  <1>17. OwnInv'
    BY <1>1, <1>3 DEF OwnInv
  <1> QED  BY <1>12, <1>14, <1>16, <1>17 DEF PipeInv, RedirectInv

-----------------------------------------------------------------------------
(* ExchangeData                                                            *)

\* Steps that end ExchangeData and leave the stream as it is.
LEMMA QuietReturn ==
    ASSUME QueueInv, PipeInv, pc # "result", NEW res, Returned(res), "TGT" \notin res,
           UNCHANGED <<con, wire, inBuf, activeJobs, got, idle, job>>
    PROVE  PipeInv'
  <1>1. ~Redirecting
    BY DEF Redirecting
  <1>2. job' \in [Jobs -> JobType] /\ \A j \in Jobs : job'[j].file = j /\ job'[j].st = job[j].st
    BY DEF PipeInv, JobInv
  <1>3. activeJobs # <<>> => Front \in Jobs /\ job'[Front].rest = job[Front].rest
    BY QueueFacts
  <1>4. pc' = "result" /\ loopRes' = res
    BY DEF Returned
  <1> QED  BY <1>1, <1>2, <1>3, <1>4, Quiet

\* Whoever waits in select() has nothing in the buffer, unless there was a hint.
LEMMA SelectBuffer ==
    ASSUME PipeInv, InSelect, pc = "select"
    PROVE  inBuf = <<>> /\ StreamInv /\ ~Redirecting /\ (wire # <<>> => activeJobs # <<>>)
  BY DEF PipeInv, InSelect, Redirecting, StreamInv

\* select() ends with a wake-up, a timeout or a lost connection.
LEMMA SelectPipe ==
    ASSUME QueueInv, PipeInv, SelectWake \/ SelectTimeout \/ SelectLost
    PROVE  PipeInv'
  <1>1. InSelect /\ inBuf' = Kept /\ UNCHANGED <<con, wire, activeJobs, got, idle, job>>
    BY DEF SelectWake, SelectTimeout, SelectLost, queues
  <1>3. pc # "result"
    BY <1>1 DEF InSelect
  <1>2. inBuf' = inBuf
    BY <1>1, <1>3 DEF Kept, PipeInv, Redirecting, StreamInv
  <1>4. \E res \in {{"NOW"}, {"SWITCH"}, {"NOW", "JOB_BROKEN"}, {"LOST"}} : Returned(res)
    BY DEF SelectWake, SelectTimeout, SelectLost
  <1>5. PICK res \in {{"NOW"}, {"SWITCH"}, {"NOW", "JOB_BROKEN"}, {"LOST"}} : Returned(res)
    BY <1>4
  <1>6. "TGT" \notin res
    OBVIOUS
  <1> QED  BY <1>1, <1>2, <1>3, <1>5, <1>6, QuietReturn

\* What is read goes to the buffer, and the rest of it stays on its way.
LEMMA ReadPieces ==
    ASSUME NEW a \in Seq(Tokens), NEW t \in Seq(Tokens), NEW n \in 1..Len(a),
           inBuf' = SubSeq(a, 1, n), wire' = SubSeq(a, n + 1, Len(a)) \o t
    PROVE  /\ inBuf' \in Seq(Tokens) /\ wire' \in Seq(Tokens) /\ Len(inBuf') = n
           /\ inBuf' \o wire' = a \o t
  <1>1. /\ SubSeq(a, 1, n) \in Seq(Tokens) /\ Len(SubSeq(a, 1, n)) = n
        /\ SubSeq(a, n + 1, Len(a)) \o t \in Seq(Tokens)
        /\ SubSeq(a, 1, n) \o (SubSeq(a, n + 1, Len(a)) \o t) = a \o t
    BY TwoPieces, Zenon
  <1> QED  BY <1>1, Zenon

\* Data arrives: it is of the answer to the first job's request.
LEMMA SelectReadPipe ==
    ASSUME QueueInv, PipeInv, SelectRead
    PROVE  PipeInv'
  <1> DEFINE q == Tail(activeJobs)
             R == Requests(q)
             st == job[Front].st
  <1>1. InSelect /\ pc = "select" /\ wire # <<>> /\ UNCHANGED <<con, activeJobs, got, idle, job>>
    BY DEF SelectRead, queues
  <1>2. inBuf = <<>> /\ StreamInv /\ ~Redirecting /\ activeJobs # <<>> /\ wire \in Seq(Tokens)
    BY <1>1, SelectBuffer DEF StreamInv
  <1>3. UNCHANGED <<loopRes, pc>>
    BY <1>2 DEF SelectRead
  <1>4. Front \in Jobs /\ q \in Seq(Jobs) /\ Front' = Front
    BY <1>1, <1>2, QueueFacts DEF Front
  <1>5. job \in [Jobs -> JobType] /\ st \in {"header", "data", "chunk"}
    BY <1>4, JobFields DEF PipeInv, JobInv
  <1>6. PICK r \in Remains(Front, st) : StreamOf(r)
    BY <1>2 DEF StreamInv
  <1>7. /\ r \in Seq(Tokens) /\ r # <<>>
        /\ r[1].k = "request" => st = "header" /\ r = <<Request(Front)>>
        /\ r = <<Request(Front)>> => r[1].k = "request" /\ r[1].of = Front
    BY <1>4, <1>5, <1>6, RemainsFacts
  <1>8. R \in Seq(Tokens)
    BY <1>4, RequestsType
  <1>9. wire = r \o R
    <2>1. inBuf \o wire = r \o R
      BY <1>6 DEF StreamOf
    <2>2. <<>> \o wire = wire
      BY <1>2, ConcatEmptySeq
    <2> QED  BY <1>2, <2>1, <2>2
  <1> HIDE DEF q, R, st
  <1>10. wire[1] = r[1] /\ Tail(wire) = Tail(r) \o R
    BY <1>7, <1>8, <1>9, TailOfJoin
  <1>11. PICK a \in (IF wire[1].k = "request" THEN Replies(wire[1].of) ELSE {<<wire[1]>>}) :
           \E n \in {m \in DOMAIN a : a[m].k # "request"} :
             inBuf' = SubSeq(a, 1, n) /\ wire' = SubSeq(a, n + 1, Len(a)) \o Tail(wire)
    BY DEF SelectRead
  <1>12. PICK n \in {m \in DOMAIN a : a[m].k # "request"} :
             inBuf' = SubSeq(a, 1, n) /\ wire' = SubSeq(a, n + 1, Len(a)) \o Tail(wire)
    BY <1>11
  <1>13. Tail(wire) \in Seq(Tokens) /\ wire[1] \in Tokens
    BY <1>1, <1>2
  <1>14. \E s \in Remains(Front, st) :
            /\ inBuf' \in Seq(Tokens) /\ wire' \in Seq(Tokens)
            /\ inBuf' \o wire' = s \o R /\ Len(inBuf') <= Len(s)
            /\ s[Len(s)].k = "request" => Len(inBuf') < Len(s)
    <2>1. CASE wire[1].k = "request"
      <3>1. st = "header" /\ r = <<Request(Front)>> /\ wire[1].of = Front
        BY <1>7, <1>10, <2>1
      <3>2. a \in Replies(Front)
        BY <1>11, <2>1, <3>1
      <3>8. a \in Remains(Front, st)
        BY <3>1, <3>2 DEF Remains
      <3>3. a \in Seq(Tokens) /\ a # <<>>
        BY <1>4, <1>5, <3>8, RemainsFacts
      <3>4. n \in 1..Len(a) /\ Len(a) \in Nat /\ a[n].k # "request"
        BY <1>12, <3>3
      <3>5. Tail(wire) = R
        <4>1. Tail(r) = <<>>
          BY <3>1
        <4> QED  BY <1>8, <1>10, <4>1, ConcatEmptySeq
      <3>6. /\ inBuf' \in Seq(Tokens) /\ wire' \in Seq(Tokens) /\ Len(inBuf') = n
            /\ inBuf' \o wire' = a \o R
        <4>1. inBuf' = SubSeq(a, 1, n) /\ wire' = SubSeq(a, n + 1, Len(a)) \o R
          BY <1>12, <3>5
        <4>2. a \in Seq(Tokens) /\ R \in Seq(Tokens) /\ n \in 1..Len(a)
          BY <1>8, <3>3, <3>4
        <4> QED  BY <4>1, <4>2, ReadPieces
      <3>7. a[Len(a)].k = "request" => Len(inBuf') < Len(a)
        BY <3>4, <3>6
      <3>9. Len(inBuf') <= Len(a)
        BY <3>4, <3>6
      <3> QED  BY <3>6, <3>7, <3>8, <3>9
    <2>2. CASE wire[1].k # "request"
      <3>1. a = <<wire[1]>>
        BY <1>11, <2>2
      <3>2. a \in Seq(Tokens) /\ Len(a) = 1
        BY <1>13, <3>1, OneToken
      <3>3. n \in 1..Len(a) /\ n = 1
        BY <1>12, <3>2
      <3>4. /\ inBuf' \in Seq(Tokens) /\ wire' \in Seq(Tokens) /\ Len(inBuf') = n
            /\ inBuf' \o wire' = a \o Tail(wire)
        <4> DEFINE t == Tail(wire)
        <4>1. inBuf' = SubSeq(a, 1, n) /\ wire' = SubSeq(a, n + 1, Len(a)) \o t
          BY <1>12
        <4>2. a \in Seq(Tokens) /\ t \in Seq(Tokens) /\ n \in 1..Len(a)
          BY <1>13, <3>2, <3>3
        <4> HIDE DEF t
        <4>3. /\ inBuf' \in Seq(Tokens) /\ wire' \in Seq(Tokens) /\ Len(inBuf') = n
              /\ inBuf' \o wire' = a \o t
          BY <4>1, <4>2, ReadPieces
        <4> QED  BY <4>3 DEF t
      <3>5. a \o Tail(wire) = wire
        BY <1>1, <1>2, <3>1, FirstAndRest
      <3>7. Len(inBuf') <= Len(r) /\ (r[Len(r)].k = "request" => Len(inBuf') < Len(r))
        <4>1. Len(r) >= 1 /\ Len(r) \in Nat
          BY <1>7
        <4>2. r[1].k # "request"
          BY <1>10, <2>2
        <4> QED  BY <3>3, <3>4, <4>1, <4>2
      <3> QED  BY <1>6, <1>9, <3>4, <3>5, <3>7
    <2> QED  BY <2>1, <2>2
  <1>15. StreamInv'
    <2>1. PICK s \in Remains(Front, st) :
            /\ inBuf' \in Seq(Tokens) /\ wire' \in Seq(Tokens)
            /\ inBuf' \o wire' = s \o R /\ Len(inBuf') <= Len(s)
            /\ s[Len(s)].k = "request" => Len(inBuf') < Len(s)
      BY <1>14
    <2>2. StreamOf(s)'
      BY <1>1, <1>4, <2>1 DEF StreamOf, R, q
    <2>3. job'[Front'].st = st /\ job'[Front'].rest = job[Front].rest
      BY <1>1, <1>4 DEF st
    <2>4. \E u \in Remains(Front', job'[Front'].st) : StreamOf(u)'
      BY <1>4, <2>1, <2>2, <2>3
    <2>5. job'[Front'].st = "data" => job'[Front'].rest = 1
      BY <1>2, <2>3 DEF StreamInv, st
    <2> QED  BY <1>1, <1>2, <2>1, <2>4, <2>5 DEF StreamInv
  <1>16. PlaceInv' /\ ~Redirecting' /\ JobInv' /\ OwnInv'
    <2>1. pc = "select"
      BY <1>1 DEF InSelect
    <2> QED  BY <1>1, <1>3, <1>4, <2>1 DEF PipeInv, PlaceInv, Redirecting, JobInv, OwnInv
  <1> QED  BY <1>15, <1>16 DEF PipeInv, RedirectInv

-----------------------------------------------------------------------------
(* ProcessIncomming                                                        *)

\* What is in the buffer is the rest of the answer for the first job.
LEMMA ProcessFacts ==
    ASSUME QueueInv, PipeInv, pc = "select", activeJobs # <<>>, inBuf # <<>>
    PROVE  /\ Front \in Jobs /\ Tail(activeJobs) \in Seq(Jobs)
           /\ job \in [Jobs -> JobType] /\ job[Front].st \in {"header", "data", "chunk"}
           /\ inBuf \in Seq(Tokens) /\ wire \in Seq(Tokens) /\ Tail(inBuf) \in Seq(Tokens)
           /\ con # NoHost /\ ~Redirecting
           /\ \E r \in Remains(Front, job[Front].st) :
                /\ r \in Seq(Tokens) /\ r # <<>>
                /\ Token = r[1] /\ r[1].k # "request"
                /\ Tail(inBuf) \o wire = Tail(r) \o Requests(Tail(activeJobs))
                /\ Len(Tail(inBuf)) <= Len(Tail(r))
                /\ Tail(r) # <<>> /\ Tail(r)[Len(Tail(r))].k = "request"
                     => Len(Tail(inBuf)) < Len(Tail(r))
  <1>1. /\ Front \in Jobs /\ Tail(activeJobs) \in Seq(Jobs)
    BY QueueFacts
  <1>2. con # NoHost /\ ~Redirecting /\ StreamInv /\ job \in [Jobs -> JobType]
    BY DEF PipeInv, PlaceInv, Redirecting, JobInv
  <1>3. job[Front].st \in {"header", "data", "chunk"}
    BY <1>1, <1>2, JobFields
  <1>4. inBuf \in Seq(Tokens) /\ wire \in Seq(Tokens) /\ Tail(inBuf) \in Seq(Tokens)
    BY <1>2 DEF StreamInv
  <1>5. PICK r \in Remains(Front, job[Front].st) : StreamOf(r)
    BY <1>2 DEF StreamInv
  <1>6. /\ r \in Seq(Tokens) /\ r # <<>>
        /\ r[1].k = "request" => r = <<Request(Front)>>
        /\ r = <<Request(Front)>> => r[1].k = "request"
    BY <1>1, <1>3, <1>5, RemainsFacts
  <1> DEFINE R == Requests(Tail(activeJobs))
  <1>7. /\ inBuf \o wire = r \o R /\ Len(inBuf) <= Len(r)
        /\ r[Len(r)].k = "request" => Len(inBuf) < Len(r)
    BY <1>5 DEF StreamOf
  <1>8. R \in Seq(Tokens)
    BY <1>1, RequestsType
  <1> HIDE DEF R
  <1>9. Tail(inBuf \o wire) = Tail(inBuf) \o wire /\ (inBuf \o wire)[1] = inBuf[1]
    BY <1>4, TailOfJoin
  <1>10. Tail(r \o R) = Tail(r) \o R /\ (r \o R)[1] = r[1]
    BY <1>6, <1>8, TailOfJoin
  <1>11. Token = r[1] /\ Tail(inBuf) \o wire = Tail(r) \o R
    BY <1>7, <1>9, <1>10 DEF Token
  <1>12. /\ Len(Tail(inBuf)) <= Len(Tail(r))
         /\ Tail(r) # <<>> /\ Tail(r)[Len(Tail(r))].k = "request"
              => Len(Tail(inBuf)) < Len(Tail(r))
    <2>1. Len(Tail(inBuf)) = Len(inBuf) - 1 /\ Len(inBuf) \in Nat
      BY <1>4
    <2>2. Len(Tail(r)) = Len(r) - 1 /\ Len(r) \in Nat
      BY <1>6
    <2>3. Tail(r) # <<>> => Tail(r)[Len(Tail(r))] = r[Len(r)]
      BY <1>6
    <2> QED  BY <1>7, <2>1, <2>2, <2>3
  <1>13. r[1].k # "request"
    <2>1. SUFFICES ASSUME r[1].k = "request" PROVE FALSE
      OBVIOUS
    <2>2. r = <<Request(Front)>> /\ Len(r) = 1
      BY <1>6, <2>1
    <2>3. Len(inBuf) < 1
      BY <1>7, <2>1, <2>2
    <2> QED  BY <1>4, <2>3
  <1> QED  BY <1>1, <1>2, <1>3, <1>4, <1>5, <1>6, <1>11, <1>12, <1>13 DEF R

\* Steps that give up on an answer.
LEMMA GiveUpPipe ==
    ASSUME QueueInv, PipeInv, ProcJunk \/ ProcRedirectFails \/ ProcRefused \/ ProcStoreFails
                                \/ ProcBadChunk
    PROVE  PipeInv'
  <1>1. pc = "select" /\ UNCHANGED <<con, wire, inBuf, activeJobs, got, idle, job>>
    BY DEF ProcJunk, ProcRedirectFails, ProcRefused, ProcStoreFails, ProcBadChunk, Processing,
       queues, conVars
  <1>2. \E res : Returned(res) /\ "TGT" \notin res
    <2>1. CASE ProcRedirectFails
      <3>1. PICK soon \in SUBSET {"SOON"} : Returned(soon \cup {"JOB_BROKEN"})
        BY <2>1 DEF ProcRedirectFails, Soon
      <3>2. "TGT" \notin soon \cup {"JOB_BROKEN"}
        OBVIOUS
      <3> QED  BY <3>1, <3>2
    <2>2. CASE ProcJunk
      <3>1. Returned({"MIRROR_BROKEN", "NOW", "KILL"})
        BY <2>2 DEF ProcJunk
      <3>2. "TGT" \notin {"MIRROR_BROKEN", "NOW", "KILL"}
        OBVIOUS
      <3> QED  BY <3>1, <3>2
    <2>3. CASE ProcRefused
      <3>1. \/ Returned({"NOW", "MIRROR_BROKEN"}) \/ Returned({"NOW", "JOB_BROKEN"})
            \/ Returned({"NOW", "LOST", "MIRROR_BROKEN"})
        BY <2>3 DEF ProcRefused
      <3>2. /\ "TGT" \notin {"NOW", "MIRROR_BROKEN"} /\ "TGT" \notin {"NOW", "JOB_BROKEN"}
            /\ "TGT" \notin {"NOW", "LOST", "MIRROR_BROKEN"}
        OBVIOUS
      <3> QED  BY <3>1, <3>2
    <2>4. CASE ProcStoreFails
      <3>1. Returned({"NOW", "JOB_BROKEN"})
        BY <2>4 DEF ProcStoreFails
      <3>2. "TGT" \notin {"NOW", "JOB_BROKEN"}
        OBVIOUS
      <3> QED  BY <3>1, <3>2
    <2>5. CASE ProcBadChunk
      <3>1. Returned({"JOB_BROKEN"})
        BY <2>5 DEF ProcBadChunk
      <3>2. "TGT" \notin {"JOB_BROKEN"}
        OBVIOUS
      <3> QED  BY <3>1, <3>2
    <2> QED  BY <2>1, <2>2, <2>3, <2>4, <2>5
  <1>3. PICK res : Returned(res) /\ "TGT" \notin res
    BY <1>2
  <1> QED  BY <1>1, <1>3, QuietReturn

\* Steps that give up, too, and mark the job.
LEMMA MarkPipe ==
    ASSUME QueueInv, PipeInv, ProcBusy \/ ProcRestart
    PROVE  PipeInv'
  <1>1. /\ pc = "select" /\ activeJobs # <<>> /\ inBuf # <<>>
        /\ UNCHANGED <<con, wire, inBuf, activeJobs, got, idle>>
    BY DEF ProcBusy, ProcRestart, Processing, queues, conVars
  <1>2. Front \in Jobs /\ job \in [Jobs -> JobType] /\ ~Redirecting
    BY <1>1, ProcessFacts
  <1>3. \A j \in Jobs : job[j].file = j
    BY DEF PipeInv, JobInv
  <1> DEFINE t == TRUE
             a == [job[Front] EXCEPT !.assigned = t]
  <1>4. \/ UNCHANGED job
        \/ job' = [job EXCEPT ![Front] = a]
    BY <1>2 DEF ProcBusy, ProcRestart
  <1>5. t \in BOOLEAN
    OBVIOUS
  <1> HIDE DEF t
  <1>6. job[Front] \in JobType
    BY <1>2
  <1>7. /\ a \in JobType /\ a.file = job[Front].file /\ a.st = job[Front].st
        /\ a.rest = job[Front].rest
    BY <1>5, <1>6 DEF JobType
  <1> HIDE DEF a
  <1>9. /\ job' \in [Jobs -> JobType]
        /\ \A j \in Jobs : job'[j].file = j /\ job'[j].st = job[j].st
        /\ job'[Front].rest = job[Front].rest
    BY <1>2, <1>3, <1>4, <1>7
  <1>10. pc' = "result" /\ "TGT" \notin loopRes'
    <2>1. CASE ProcBusy
      BY <2>1 DEF ProcBusy, Returned
    <2>2. CASE ProcRestart
      <3>1. PICK soon \in SUBSET {"SOON"} : Returned(soon \cup {"LOST", "NOW"})
        BY <2>2 DEF ProcRestart, Soon
      <3> QED  BY <3>1 DEF Returned
    <2> QED  BY <2>1, <2>2
  <1> QED  BY <1>1, <1>2, <1>9, <1>10, Quiet

\* The first job goes to its new location, and no other one.
LEMMA RedirectPipe ==
    ASSUME QueueInv, PipeInv, ProcRedirect, taint' = {}
    PROVE  PipeInv'
  <1>1. /\ pc = "select" /\ activeJobs # <<>> /\ inBuf # <<>> /\ job[Front].st = "header"
        /\ Token.k = "head" /\ Token.kind = "redirect" /\ UNCHANGED <<con, activeJobs, got, idle>>
    BY DEF ProcRedirect, Processing, IsHeader, queues
  <1>2. Front \in Jobs /\ job \in [Jobs -> JobType] /\ con # NoHost
    BY <1>1, ProcessFacts
  <1>3. PICK r \in Remains(Front, job[Front].st) : Token = r[1]
    BY <1>1, ProcessFacts
  <1>4. r \in Answers(Front)
    BY <1>1, <1>2, <1>3, HeaderAnswer
  <1>5. Token.of = Front /\ Token.dest \in Hosts \cup {NoHost}
    BY <1>1, <1>2, <1>3, <1>4, AnswerFacts
  <1> DEFINE jb == job[Front]
             w == Rewritten(jb, Token)
  <1>6. w \in JobType /\ w.file = Front /\ w.st = jb.st
    <2> DEFINE n == jb.redir - 1
               f == FALSE
               d == Token.dest
               o == Token.of
               p == PeerHost(jb)
    <2>1. n \in Int /\ f \in BOOLEAN /\ d \in Hosts \cup {NoHost} /\ o = Front /\ o \in Jobs
          /\ p \in Hosts \cup {NoHost} /\ NoHost \in Hosts \cup {NoHost} /\ jb \in JobType
      BY <1>2, <1>5, JobFields
    <2>2. \/ w = [jb EXCEPT !.redir = n, !.file = o, !.backend = f, !.cur = NoHost, !.host = d]
          \/ w = [jb EXCEPT !.redir = n, !.file = o, !.backend = f, !.host = p]
      BY DEF Rewritten
    <2> HIDE DEF n, f, d, o, p, jb, w
    <2>3. CASE w = [jb EXCEPT !.redir = n, !.file = o, !.backend = f, !.cur = NoHost, !.host = d]
      BY <2>1, <2>3 DEF JobType
    <2>4. CASE w = [jb EXCEPT !.redir = n, !.file = o, !.backend = f, !.host = p]
      BY <2>1, <2>4 DEF JobType
    <2> QED  BY <2>2, <2>3, <2>4
  <1>7. job' = [job EXCEPT ![Front] = w] /\ \E res : Returned(res) /\ "TGT" \in res
                                               /\ "DONE" \notin res /\ "SWITCH" \notin res
                                               /\ "MORE" \notin res
    <2>1. PICK buf \in Leftovers, soon \in Soon :
            /\ job' = [j \in Jobs |-> IF j \in Redirected(buf) \cup {Front}
                                      THEN Rewritten(job[j], Token) ELSE job[j]]
            /\ taint' = IF Redirected(buf) = {} THEN taint ELSE taint \cup {"redirected"}
            /\ \/ Returned({"TGT", "NOW"})
               \/ Returned({"TGT"} \cup (IF buf = <<>> THEN {} ELSE {"NOW"}))
      BY DEF ProcRedirect
    <2>2. Redirected(buf) = {}
      BY <2>1
    <2>3. job' = [job EXCEPT ![Front] = w]
      BY <1>2, <2>1, <2>2
    <2>4. Returned({"TGT", "NOW"}) \/ Returned({"TGT"})
      BY <2>1
    <2>5. \A res \in {{"TGT", "NOW"}, {"TGT"}} :
             "TGT" \in res /\ "DONE" \notin res /\ "SWITCH" \notin res /\ "MORE" \notin res
      OBVIOUS
    <2> QED  BY <2>3, <2>4, <2>5
  <1>8. Redirecting' /\ RedirectInv'
    BY <1>1, <1>7 DEF Redirecting, RedirectInv, Has, Returned
  <1>9. PlaceInv'
    <2>1. pc' = "result"
      BY <1>7 DEF Returned
    <2> QED  BY <1>1, <1>2, <2>1 DEF PlaceInv
  <1>10. JobInv'
    <2>1. /\ \A j \in Jobs : job[j].file = j
          /\ \A j \in Jobs : j # Front => job[j].st = "header"
      BY <1>1, <1>2 DEF PipeInv, JobInv
    <2>2. Front' = Front
      BY <1>1 DEF Front
    <2> HIDE DEF w
    <2>3. job' \in [Jobs -> JobType]
      BY <1>2, <1>6, <1>7
    <2>4. \A j \in Jobs : job'[j].file = j /\ (j # Front' => job'[j].st = "header")
      BY <1>2, <1>6, <1>7, <2>1, <2>2
    <2> QED  BY <1>1, <2>3, <2>4 DEF JobInv
  <1>11. OwnInv'
    BY <1>1 DEF PipeInv, OwnInv
  <1> QED  BY <1>8, <1>9, <1>10, <1>11 DEF PipeInv

\* A part of the answer was consumed, and there is more of it to come.
LEMMA Advance ==
    ASSUME QueueInv, PipeInv, pc = "select", activeJobs # <<>>, inBuf # <<>>,
           inBuf' = Tail(inBuf), UNCHANGED <<con, wire, activeJobs, idle>>,
           pc' \in {"select", "wait", "result"}, pc' = "result" => "TGT" \notin loopRes',
           NEW c \in JobType, job' = [job EXCEPT ![Front] = c], c.file = Front,
           c.st = "data" => c.rest = 1,
           got' \in [Jobs -> SUBSET (Jobs \cup {NoHost})], \A j \in Jobs : got'[j] \subseteq {j},
           NEW r \in Remains(Front, job[Front].st),
           Tail(r) \in Remains(Front, c.st),
           Tail(inBuf) \o wire = Tail(r) \o Requests(Tail(activeJobs)),
           Len(Tail(inBuf)) <= Len(Tail(r)),
           Tail(r) # <<>> /\ Tail(r)[Len(Tail(r))].k = "request"
             => Len(Tail(inBuf)) < Len(Tail(r))
    PROVE  PipeInv'
  <1>1. /\ Front \in Jobs /\ job \in [Jobs -> JobType] /\ con # NoHost /\ ~Redirecting
        /\ Tail(inBuf) \in Seq(Tokens) /\ wire \in Seq(Tokens)
    BY ProcessFacts
  <1>2. Front' = Front
    BY DEF Front
  <1>3. PlaceInv' /\ ~Redirecting'
    BY <1>1 DEF PlaceInv, Redirecting, Has
  <1>4. JobInv'
    <2>1. /\ \A j \in Jobs : job[j].file = j
          /\ \A j \in Jobs : j # Front => job[j].st = "header"
      BY <1>1 DEF PipeInv, JobInv
    <2>2. job' \in [Jobs -> JobType]
      BY <1>1
    <2>3. \A j \in Jobs : job'[j].file = j /\ (j # Front' => job'[j].st = "header")
      BY <1>1, <1>2, <2>1
    <2> QED  BY <2>2, <2>3 DEF JobInv
  <1>5. job'[Front'] = c
    BY <1>1, <1>2
  <1>6. PICK s : s = Tail(r)
    OBVIOUS
  <1>7. c.st \in {"header", "data", "chunk"}
    BY JobFields
  <1>8. s # <<>>
    BY <1>1, <1>6, <1>7, RemainsFacts
  <1>9. StreamOf(s)'
    BY <1>2, <1>6, <1>8 DEF StreamOf
  <1>10. \E u \in Remains(Front', job'[Front'].st) : StreamOf(u)'
    BY <1>2, <1>5, <1>6, <1>9
  <1>11. StreamInv'
    BY <1>1, <1>5, <1>10 DEF StreamInv
  <1>12. OwnInv'
    BY DEF PipeInv, OwnInv
  <1> QED  BY <1>3, <1>4, <1>11, <1>12 DEF PipeInv, RedirectInv

\* A header is taken: the rest is the body that it has announced.
LEMMA HeaderPipe ==
    ASSUME QueueInv, PipeInv, ProcHeader
    PROVE  PipeInv'
  <1>1. /\ pc = "select" /\ activeJobs # <<>> /\ inBuf # <<>> /\ job[Front].st = "header"
        /\ Token.k = "head" /\ Token.kind \in {"ok", "chunked", "error"}
        /\ inBuf' = Tail(inBuf) /\ UNCHANGED <<con, wire, activeJobs, pc, loopRes, idle, got>>
    BY DEF ProcHeader, Processing, IsHeader, queues
  <1>2. Front \in Jobs /\ job \in [Jobs -> JobType]
    BY <1>1, ProcessFacts
  <1>3. PICK r \in Remains(Front, job[Front].st) :
          /\ Token = r[1]
          /\ Tail(inBuf) \o wire = Tail(r) \o Requests(Tail(activeJobs))
          /\ Len(Tail(inBuf)) <= Len(Tail(r))
          /\ Tail(r) # <<>> /\ Tail(r)[Len(Tail(r))].k = "request"
               => Len(Tail(inBuf)) < Len(Tail(r))
    BY <1>1, ProcessFacts
  <1>4. r \in Answers(Front)
    BY <1>1, <1>2, <1>3, HeaderAnswer
  <1>5. /\ Token.kind \in {"ok", "error"} => Tail(r) = <<Data(Front)>> /\ Token.len = 1
        /\ Token.kind = "chunked" => /\ Tail(r) \in {<<Data(Front), LastChunk(Front)>>, <<Junk>>}
                                     /\ Token.len = 0
    BY <1>1, <1>2, <1>3, <1>4, AnswerFacts
  <1> DEFINE t == TRUE
             e == (Token.kind # "error")
             s == IF Token.kind = "chunked" THEN "chunk" ELSE "data"
             n == Token.len
             c == [job[Front] EXCEPT !.assigned = t, !.store = e, !.st = s, !.rest = n]
  <1>6. job' = [job EXCEPT ![Front] = c]
    BY <1>2 DEF ProcHeader, Accepted
  <1>7. /\ t \in BOOLEAN /\ e \in BOOLEAN /\ n \in Int /\ s \in {"data", "chunk"}
        /\ s = "data" => n = 1
        /\ Tail(r) \in Remains(Front, s)
    <2>1. CASE Token.kind = "chunked"
      <3>1. s = "chunk" /\ n = 0
        BY <1>5, <2>1
      <3> QED  BY <1>5, <2>1, <3>1 DEF Remains
    <2>2. CASE Token.kind \in {"ok", "error"}
      <3>1. s = "data" /\ n = 1
        BY <1>5, <2>2
      <3> QED  BY <1>5, <2>2, <3>1 DEF Remains
    <2> QED  BY <1>1, <2>1, <2>2
  <1> HIDE DEF t, e, s, n
  <1>8. job[Front] \in JobType /\ job[Front].file = Front
    BY <1>2 DEF PipeInv, JobInv
  <1>9. c \in JobType /\ c.file = Front /\ c.st = s /\ c.rest = n
    BY <1>7, <1>8 DEF JobType
  <1> HIDE DEF c
  <1>10. got' \in [Jobs -> SUBSET (Jobs \cup {NoHost})] /\ \A j \in Jobs : got'[j] \subseteq {j}
    BY <1>1 DEF PipeInv, OwnInv
  <1>11. (c.st = "data" => c.rest = 1) /\ Tail(r) \in Remains(Front, c.st)
    BY <1>7, <1>9
  <1> QED  BY <1>1, <1>3, <1>6, <1>9, <1>10, <1>11, Advance

\* A hint is dropped: the answer is still to come, or the rest of the buffer.
LEMMA HintPipe ==
    ASSUME QueueInv, PipeInv, ProcHint
    PROVE  PipeInv'
  <1>1. /\ pc = "select" /\ activeJobs # <<>> /\ inBuf # <<>> /\ job[Front].st = "header"
        /\ Token.k = "head" /\ Token.kind = "hint"
        /\ inBuf' = Tail(inBuf) /\ UNCHANGED <<con, wire, activeJobs, idle, got, job>>
    BY DEF ProcHint, Processing, IsHeader, queues
  <1>2. Front \in Jobs /\ job \in [Jobs -> JobType]
    BY <1>1, ProcessFacts
  <1>3. PICK r \in Remains(Front, job[Front].st) :
          /\ Token = r[1]
          /\ Tail(inBuf) \o wire = Tail(r) \o Requests(Tail(activeJobs))
          /\ Len(Tail(inBuf)) <= Len(Tail(r))
          /\ Tail(r) # <<>> /\ Tail(r)[Len(Tail(r))].k = "request"
               => Len(Tail(inBuf)) < Len(Tail(r))
    BY <1>1, ProcessFacts
  <1>4. Tail(r) \in Remains(Front, "header")
    BY <1>1, <1>2, <1>3, HeaderAnswer
  <1>5. pc' \in {"select", "wait", "result"} /\ (pc' = "result" => "TGT" \notin loopRes')
    BY DEF ProcHint, Returned
  <1> DEFINE c == job[Front]
  <1>6. c \in JobType /\ c.file = Front /\ c.st = "header"
    BY <1>1, <1>2 DEF PipeInv, JobInv
  <1>7. job' = [job EXCEPT ![Front] = c]
    BY <1>1, <1>2
  <1> HIDE DEF c
  <1>8. got' \in [Jobs -> SUBSET (Jobs \cup {NoHost})] /\ \A j \in Jobs : got'[j] \subseteq {j}
    BY <1>1 DEF PipeInv, OwnInv
  <1>9. Tail(r) \in Remains(Front, c.st) /\ (c.st = "data" => c.rest = 1)
    BY <1>4, <1>6
  <1> QED  BY <1>1, <1>3, <1>5, <1>6, <1>7, <1>8, <1>9, Advance

\* The answer was complete: what follows is the next one.
LEMMA FinishPipe ==
    ASSUME QueueInv, PipeInv, pc = "select", activeJobs # <<>>, inBuf # <<>>,
           Finish(Tail(inBuf)), job' = Gone(job, {Front}), UNCHANGED <<con, wire, idle>>,
           got' \in [Jobs -> SUBSET (Jobs \cup {NoHost})], \A j \in Jobs : got'[j] \subseteq {j},
           Tail(inBuf) \o wire = <<>> \o Requests(Tail(activeJobs)),
           Len(Tail(inBuf)) <= 0
    PROVE  PipeInv'
  <1> DEFINE q == Tail(activeJobs)
  <1>1. /\ Front \in Jobs /\ job \in [Jobs -> JobType] /\ con # NoHost /\ ~Redirecting
        /\ Tail(inBuf) \in Seq(Tokens) /\ wire \in Seq(Tokens) /\ q \in Seq(Jobs)
    BY ProcessFacts
  <1>2. Tail(inBuf) = <<>>
    BY <1>1
  <1>3. inBuf' = <<>> /\ wire' = wire /\ activeJobs' = q
    BY <1>2 DEF Finish
  <1>4. wire = Requests(q)
    <2>1. Requests(q) \in Seq(Tokens)
      BY <1>1, RequestsType
    <2>2. <<>> \o wire = wire /\ <<>> \o Requests(q) = Requests(q)
      BY <1>1, <2>1, ConcatEmptySeq
    <2> QED  BY <1>2, <2>2
  <1>5. pc' = "result" /\ "TGT" \notin loopRes'
    <2>1. Returned({"SWITCH"}) \/ Returned({"DONE"})
      BY <1>2 DEF Finish
    <2> QED  BY <2>1 DEF Returned
  <1>6. PlaceInv' /\ ~Redirecting'
    BY <1>1, <1>5 DEF PlaceInv, Redirecting, Has
  <1>7. /\ job' \in [Jobs -> JobType]
        /\ \A j \in Jobs : job'[j].file = j /\ job'[j].st = "header"
    <2>1. /\ \A j \in Jobs : job[j].file = j
          /\ \A j \in Jobs : j # Front => job[j].st = "header"
      BY <1>1 DEF PipeInv, JobInv
    <2>2. NewJob(Front) \in JobType /\ NewJob(Front).file = Front /\ NewJob(Front).st = "header"
      BY <1>1, NewJobType
    <2>3. job' = [j \in Jobs |-> IF j = Front THEN NewJob(j) ELSE job[j]]
      BY DEF Gone
    <2>4. \A j \in Jobs : job'[j] = IF j = Front THEN NewJob(Front) ELSE job[j]
      BY <2>3
    <2>5. ASSUME NEW j \in Jobs PROVE job'[j] \in JobType /\ job'[j].file = j /\ job'[j].st = "header"
      <3>1. CASE j = Front
        BY <2>2, <2>4, <3>1
      <3>2. CASE j # Front
        BY <1>1, <2>1, <2>4, <3>2
      <3> QED  BY <3>1, <3>2
    <2>6. job' = [j \in Jobs |-> job'[j]]
      BY <2>3
    <2> QED  BY <2>5, <2>6
  <1>8. JobInv'
    BY <1>7 DEF JobInv
  <1> HIDE DEF q
  <1>9. StreamInv'
    <2>1. CASE q = <<>>
      BY <1>3, <1>4, <2>1, RequestsEmpty, StreamCleared
    <2>2. CASE q # <<>>
      <3>1. Front' \in Jobs /\ Front' = q[1] /\ activeJobs' # <<>>
        BY <1>1, <1>3, <2>2, TailQueue DEF Front
      <3>2. PICK r : r = <<Request(q[1])>>
        OBVIOUS
      <3>3. r \in Seq(Tokens) /\ Len(r) = 1
        BY <3>1, <3>2, TokenFacts, OneToken
      <3>4. wire = r \o Requests(Tail(q))
        BY <1>1, <1>4, <2>2, <3>2, RequestsSplit
      <3>5. <<>> \o wire = wire
        BY <1>1, ConcatEmptySeq
      <3>6. inBuf' \o wire' = r \o Requests(Tail(activeJobs'))
        BY <1>3, <3>4, <3>5
      <3>7. StreamOf(r)'
        BY <1>3, <3>3, <3>6 DEF StreamOf
      <3>8. job'[Front'].st = "header"
        BY <1>7, <3>1
      <3>9. r \in Remains(Front', job'[Front'].st)
        BY <3>1, <3>2, <3>8 DEF Remains
      <3>10. \E u \in Remains(Front', job'[Front'].st) : StreamOf(u)'
        BY <3>7, <3>9
      <3>11. inBuf' \in Seq(Tokens) /\ wire' \in Seq(Tokens)
        BY <1>1, <1>3
      <3> QED  BY <3>1, <3>8, <3>10, <3>11 DEF StreamInv
    <2> QED  BY <2>1, <2>2
  <1>10. OwnInv'
    BY DEF PipeInv, OwnInv
  <1> QED  BY <1>6, <1>8, <1>9, <1>10 DEF PipeInv, RedirectInv

\* The last chunk ends the answer.
LEMMA LastChunkPipe ==
    ASSUME QueueInv, PipeInv, ProcLastChunk
    PROVE  PipeInv'
  <1>1. /\ pc = "select" /\ activeJobs # <<>> /\ inBuf # <<>> /\ job[Front].st = "chunk"
        /\ Token.k = "last" /\ Finish(Tail(inBuf)) /\ job' = Gone(job, {Front})
        /\ UNCHANGED <<con, wire, idle, got>>
    BY DEF ProcLastChunk, Processing
  <1>2. Front \in Jobs
    BY <1>1, ProcessFacts
  <1>3. PICK r \in Remains(Front, job[Front].st) :
          /\ Token = r[1]
          /\ Tail(inBuf) \o wire = Tail(r) \o Requests(Tail(activeJobs))
          /\ Len(Tail(inBuf)) <= Len(Tail(r))
    BY <1>1, ProcessFacts
  <1> DEFINE D == Data(Front)
             L == LastChunk(Front)
             J == Junk
  <1>4. D \in Tokens /\ L \in Tokens /\ J \in Tokens /\ D.k = "data" /\ J.k = "junk"
    BY <1>2, TokenFacts
  <1>5. r = <<D, L>> \/ r = <<L>> \/ r = <<J>>
    BY <1>1, <1>3 DEF Remains
  <1> HIDE DEF D, L, J
  <1>6. r = <<L>>
    <2>1. r = <<D, L>> => r[1] = D
      BY <1>4, TwoTokens
    <2>2. r = <<J>> => r[1] = J
      BY <1>4, OneToken
    <2> QED  BY <1>1, <1>3, <1>4, <1>5, <2>1, <2>2
  <1>7. Tail(r) = <<>> /\ Len(Tail(r)) = 0
    BY <1>4, <1>6, OneToken
  <1>8. got' \in [Jobs -> SUBSET (Jobs \cup {NoHost})] /\ \A j \in Jobs : got'[j] \subseteq {j}
    BY <1>1 DEF PipeInv, OwnInv
  <1>9. Tail(inBuf) \o wire = <<>> \o Requests(Tail(activeJobs)) /\ Len(Tail(inBuf)) <= 0
    BY <1>3, <1>7
  <1> QED  BY <1>1, <1>8, <1>9, FinishPipe

\* A piece of the body is the first job's, and with a length it is the last one.
LEMMA DataPipe ==
    ASSUME QueueInv, PipeInv, ProcData
    PROVE  PipeInv'
  <1>1. /\ pc = "select" /\ activeJobs # <<>> /\ inBuf # <<>>
        /\ job[Front].st = "data" \/ (job[Front].st = "chunk" /\ Token.k = "data")
        /\ got' = Stored(Front, Token) /\ UNCHANGED <<con, wire, idle>>
    BY DEF ProcData, Processing
  <1>2. Front \in Jobs /\ job \in [Jobs -> JobType] /\ ~Redirecting
    BY <1>1, ProcessFacts
  <1>3. PICK r \in Remains(Front, job[Front].st) :
          /\ Token = r[1]
          /\ Tail(inBuf) \o wire = Tail(r) \o Requests(Tail(activeJobs))
          /\ Len(Tail(inBuf)) <= Len(Tail(r))
          /\ Tail(r) # <<>> /\ Tail(r)[Len(Tail(r))].k = "request"
               => Len(Tail(inBuf)) < Len(Tail(r))
    BY <1>1, ProcessFacts
  <1> DEFINE D == Data(Front)
             L == LastChunk(Front)
             J == Junk
  <1>4. /\ D \in Tokens /\ L \in Tokens /\ J \in Tokens /\ D.k = "data" /\ J.k = "junk"
        /\ L.k = "last" /\ D.of = Front
    BY <1>2, TokenFacts
  <1>5. /\ job[Front].st = "data" => r = <<D>>
        /\ job[Front].st = "chunk" => r = <<D, L>> \/ r = <<L>> \/ r = <<J>>
    BY <1>3 DEF Remains
  <1> HIDE DEF D, L, J
  <1>6. /\ job[Front].st = "data" => r[1] = D /\ Tail(r) = <<>> /\ Len(Tail(r)) = 0
        /\ job[Front].st = "chunk" => r[1] = D /\ Tail(r) = <<L>>
    <2>1. r = <<D, L>> => r[1] = D /\ Tail(r) = <<L>>
      BY <1>4, TwoTokens
    <2>2. r = <<J>> => r[1] = J
      BY <1>4, OneToken
    <2>3. r = <<L>> => r[1] = L
      BY <1>4, OneToken
    <2>4. r = <<D>> => r[1] = D /\ Tail(r) = <<>> /\ Len(Tail(r)) = 0
      BY <1>4, OneToken
    <2> QED  BY <1>1, <1>3, <1>4, <1>5, <2>1, <2>2, <2>3, <2>4
  <1>7. Token.k = "data" /\ Token.of = Front
    BY <1>1, <1>3, <1>4, <1>6
  <1>8. got' \in [Jobs -> SUBSET (Jobs \cup {NoHost})] /\ \A j \in Jobs : got'[j] \subseteq {j}
    <2>1. got \in [Jobs -> SUBSET (Jobs \cup {NoHost})] /\ \A j \in Jobs : got[j] \subseteq {j}
      BY DEF PipeInv, OwnInv
    <2>2. got' = got \/ got' = [got EXCEPT ![Front] = @ \cup {Front}]
      BY <1>1, <1>7 DEF Stored
    <2> QED  BY <1>2, <2>1, <2>2
  <1>9. CASE job[Front].st = "data"
    <2>1. job[Front].rest = 1
      BY <1>1, <1>2, <1>9 DEF PipeInv, StreamInv
    <2>2. Finish(Tail(inBuf)) /\ job' = Gone(job, {Front})
      BY <1>9, <2>1 DEF ProcData
    <2>3. Tail(inBuf) \o wire = <<>> \o Requests(Tail(activeJobs)) /\ Len(Tail(inBuf)) <= 0
      BY <1>3, <1>6, <1>9
    <2> QED  BY <1>1, <1>8, <2>2, <2>3, FinishPipe
  <1>10. CASE job[Front].st = "chunk"
    <2> DEFINE c == job[Front]
    <2>1. /\ inBuf' = Tail(inBuf) /\ UNCHANGED <<activeJobs, pc, loopRes>>
          /\ job' = [job EXCEPT ![Front].rest = @]
      BY <1>10 DEF ProcData
    <2>2. job' = job
      BY <1>2, <2>1 DEF JobType
    <2>3. job' = [job EXCEPT ![Front] = c]
      BY <1>2, <2>2
    <2>4. c \in JobType /\ c.file = Front /\ (c.st = "data" => c.rest = 1)
      BY <1>2, <1>10 DEF PipeInv, JobInv
    <2>5. Tail(r) \in Remains(Front, c.st)
      BY <1>6, <1>10 DEF Remains, L
    <2> HIDE DEF c
    <2> QED  BY <1>1, <1>3, <1>8, <2>1, <2>3, <2>4, <2>5, Advance
  <1> QED  BY <1>1, <1>9, <1>10

-----------------------------------------------------------------------------
(* WorkLoop after ExchangeData                                             *)

\* The connection is given up or given back, and the pipeline is empty.
LEMMA Closed ==
    ASSUME PipeInv, con' = NoHost, wire' = <<>>, inBuf' = <<>>, activeJobs' = <<>>, pc' = "top",
           job' \in [Jobs -> JobType], \A j \in Jobs : job'[j].file = j,
           UNCHANGED got,
           DOMAIN idle' = Hosts, \A h \in Hosts : idle'[h] # NoConn => idle'[h].out = <<>>
    PROVE  PipeInv'
  <1>1. PlaceInv' /\ ~Redirecting' /\ JobInv'
    BY DEF PlaceInv, Redirecting, JobInv
  <1>2. OwnInv'
    BY DEF PipeInv, OwnInv
  <1> QED  BY <1>1, <1>2, StreamCleared DEF PipeInv, RedirectInv

\* A connection without jobs goes to the pool.
LEMMA RecyclePipe ==
    ASSUME PipeInv, ResultRecycle
    PROVE  PipeInv'
  <1>1. /\ pc = "result" /\ activeJobs = <<>> /\ idle' = Recycled(con) /\ con' = NoHost
        /\ wire' = <<>> /\ pc' = "top" /\ UNCHANGED <<activeJobs, job, inBuf, got>>
    BY DEF ResultRecycle, GoodForPool, queues
  <1>2. ~Redirecting
    BY <1>1 DEF PipeInv, RedirectInv
  <1>3. wire = <<>> /\ inBuf = <<>> /\ OwnInv
    BY <1>1, <1>2 DEF PipeInv, StreamInv
  <1>4. DOMAIN idle' = Hosts /\ \A h \in Hosts : idle'[h] # NoConn => idle'[h].out = <<>>
    BY <1>1, <1>3, CleanRecycled
  <1>5. job' \in [Jobs -> JobType] /\ \A j \in Jobs : job'[j].file = j
    BY <1>1 DEF PipeInv, JobInv
  <1> QED  BY <1>1, <1>3, <1>4, <1>5, Closed

\* WorkLoop goes on with the connection.
LEMMA ContinuePipe ==
    ASSUME QueueInv, PipeInv, ResultContinue
    PROVE  PipeInv'
  <1>1. /\ pc = "result" /\ (Has("DONE") \/ Has("SWITCH") \/ Has("MORE"))
        /\ pc' = "top" /\ UNCHANGED <<con, wire, inBuf, activeJobs, got, idle, job>>
    BY DEF ResultContinue, queues, conVars
  <1>2. ~Redirecting
    BY <1>1 DEF PipeInv, RedirectInv
  <1>3. job' \in [Jobs -> JobType] /\ \A j \in Jobs : job'[j].file = j /\ job'[j].st = job[j].st
    BY <1>1 DEF PipeInv, JobInv
  <1>4. activeJobs # <<>> => Front \in Jobs /\ job'[Front].rest = job[Front].rest
    BY <1>1, QueueFacts
  <1> QED  BY <1>1, <1>2, <1>3, <1>4, Quiet

\* The redirected jobs go back to the queue, and the connection is closed or given
\* back with nothing under way.
LEMMA FollowPipe ==
    ASSUME PipeInv, ResultRedirect, taint' = {}
    PROVE  PipeInv'
  <1>1. /\ con' = NoHost /\ wire' = <<>> /\ inBuf' = <<>> /\ activeJobs' = <<>> /\ pc' = "top"
        /\ UNCHANGED <<job, got>>
        /\ idle' = IF Has("NOW") THEN idle ELSE Recycled(con)
        /\ taint' = IF ~Has("NOW") /\ wire # <<>> THEN taint \cup {"unframed"} ELSE taint
    BY DEF ResultRedirect
  <1>2. job' \in [Jobs -> JobType] /\ (\A j \in Jobs : job'[j].file = j) /\ OwnInv
    BY <1>1 DEF PipeInv, JobInv
  <1>3. DOMAIN idle' = Hosts /\ \A h \in Hosts : idle'[h] # NoConn => idle'[h].out = <<>>
    <2>1. CASE Has("NOW")
      BY <1>1, <1>2, <2>1 DEF OwnInv
    <2>2. CASE ~Has("NOW")
      <3>1. wire = <<>> /\ idle' = Recycled(con)
        BY <1>1, <2>2
      <3> QED  BY <1>2, <3>1, CleanRecycled
    <2> QED  BY <2>1, <2>2
  <1> QED  BY <1>1, <1>2, <1>3, Closed

\* A failure closes the connection, or counts as a loss of the framing.
LEMMA FailedPipe ==
    ASSUME QueueInv, PipeInv, ResultFailed, taint' = {}
    PROVE  PipeInv'
  <1>1. /\ con' = NoHost /\ wire' = <<>> /\ inBuf' = <<>> /\ activeJobs' = <<>> /\ pc' = "top"
        /\ UNCHANGED <<idle, got>>
    BY DEF ResultFailed
  <1> DEFINE h == "header"
             f == [job[Front] EXCEPT !.st = h]
             base == IF Has("LOST") /\ activeJobs # <<>> THEN [job EXCEPT ![Front] = f] ELSE job
  <1>2. job \in [Jobs -> JobType] /\ \A j \in Jobs : job[j].file = j
    BY DEF PipeInv, JobInv
  <1>3. base \in [Jobs -> JobType] /\ \A j \in Jobs : base[j].file = j
    <2>1. CASE Has("LOST") /\ activeJobs # <<>>
      <3>1. Front \in Jobs
        BY <2>1, QueueFacts
      <3>2. f \in JobType /\ f.file = Front
        <4>1. job[Front] \in JobType /\ job[Front].file = Front /\ h \in {"header", "data", "chunk"}
          BY <1>2, <3>1
        <4> HIDE DEF h
        <4> QED  BY <4>1 DEF JobType
      <3> HIDE DEF f
      <3>3. base = [job EXCEPT ![Front] = f]
        BY <2>1
      <3> QED  BY <1>2, <3>1, <3>2, <3>3
    <2>2. CASE ~(Has("LOST") /\ activeJobs # <<>>)
      BY <1>2, <2>2
    <2> QED  BY <2>1, <2>2
  <1>4. job' = Gone(base, FailedJobs)
    BY DEF ResultFailed
  <1> HIDE DEF base
  <1>5. \A j \in Jobs : NewJob(j) \in JobType /\ NewJob(j).file = j
    BY NewJobType
  <1>6. job' = [j \in Jobs |-> IF j \in FailedJobs THEN NewJob(j) ELSE base[j]]
    BY <1>4 DEF Gone
  <1>7. job' \in [Jobs -> JobType]
    BY <1>3, <1>5, <1>6
  <1>8. \A j \in Jobs : job'[j].file = j
    BY <1>3, <1>5, <1>6
  <1>9. DOMAIN idle' = Hosts /\ \A g \in Hosts : idle'[g] # NoConn => idle'[g].out = <<>>
    BY <1>1 DEF PipeInv, OwnInv
  <1> QED  BY <1>1, <1>7, <1>8, <1>9, Closed

-----------------------------------------------------------------------------
(* The invariant                                                           *)

\* The invariant holds at first.
LEMMA InvInit == Init => Inv
  <1> SUFFICES ASSUME Init PROVE Inv
    OBVIOUS
  <1>1. /\ con = NoHost /\ wire = <<>> /\ inBuf = <<>> /\ activeJobs = <<>> /\ pc = "top"
        /\ job = [j \in Jobs |-> NewJob(j)] /\ got = [j \in Jobs |-> {}]
        /\ idle = [h \in Hosts |-> NoConn]
    BY DEF Init
  <1>2. JobInv
    <2>1. \A j \in Jobs : NewJob(j) \in JobType /\ NewJob(j).file = j /\ NewJob(j).st = "header"
      BY NewJobType
    <2> QED  BY <1>1, <2>1 DEF JobInv
  <1>3. PlaceInv /\ ~Redirecting /\ StreamInv
    BY <1>1 DEF PlaceInv, Redirecting, StreamInv
  <1>4. OwnInv
    BY <1>1 DEF OwnInv
  <1> QED  BY <1>2, <1>3, <1>4, QueueInit DEF Inv, PipeInv, RedirectInv

\* No step takes a taint back.
LEMMA TaintStays == [Next]_vars => (taint' = {} => taint = {})
  <1> SUFFICES ASSUME [Next]_vars, taint' = {} PROVE taint = {}
    OBVIOUS
  <1>1. CASE \E j \in Jobs : AddJob(j) \/ OthersTake(j)
    BY <1>1 DEF AddJob, OthersTake
  <1>2. CASE SignalStop \/ TopStop \/ TopSplice \/ ConnectPrepare \/ DialFresh \/ DialReuse
              \/ DialFails \/ FillDone \/ FillDrop \/ FillMismatch \/ FillRequest
    BY <1>2 DEF SignalStop, TopStop, TopSplice, ConnectPrepare, DialFresh, DialReuse,
       DialFails, FillDone, FillDrop, FillMismatch, FillRequest
  <1>3. CASE Exchange
    BY <1>3 DEF Exchange, SelectWake, SelectTimeout, SelectLost, SelectRead, SelectMore
  <1>4. CASE \/ ProcJunk \/ ProcHint \/ ProcRedirectFails \/ ProcRefused \/ ProcBusy \/ ProcRestart
              \/ ProcHeader \/ ProcData \/ ProcStoreFails \/ ProcLastChunk \/ ProcBadChunk
    BY <1>4 DEF ProcJunk, ProcHint, ProcRedirectFails, ProcRefused, ProcBusy, ProcRestart,
       ProcHeader, ProcData, ProcStoreFails, ProcLastChunk, ProcBadChunk
  <1>5. CASE ProcRedirect
    BY <1>5 DEF ProcRedirect
  <1>6. CASE ResultStop \/ ResultRecycle \/ ResultContinue \/ ResultRedirect \/ ResultFailed
    BY <1>6 DEF ResultStop, ResultRecycle, ResultContinue, ResultRedirect, ResultFailed
  <1>7. CASE UNCHANGED vars
    BY <1>7 DEF vars
  <1> QED
    BY <1>1, <1>2, <1>3, <1>4, <1>5, <1>6, <1>7 DEF Next, WorkLoop, Process

\* Every step keeps the invariant.
LEMMA InvStep == Inv /\ [Next]_vars => Inv'
  <1> SUFFICES ASSUME Inv, [Next]_vars PROVE Inv'
    OBVIOUS
  <1>1. QueueInv'
    BY QueueStep DEF Inv
  <1> SUFFICES ASSUME taint' = {} PROVE PipeInv'
    BY <1>1 DEF Inv
  <1>2. QueueInv /\ PipeInv
    BY TaintStays DEF Inv
  <1>3. CASE \/ \E j \in Jobs : AddJob(j) \/ OthersTake(j)
             \/ SignalStop
             \/ UNCHANGED vars
    <2>1. UNCHANGED <<pc, loopRes, con, wire, inBuf, nextJobs, activeJobs, job, got, idle>>
      BY <1>3 DEF AddJob, OthersTake, SignalStop, vars, queues, conVars
    <2> QED  BY <1>2, <2>1, Untouched
  <1>4. CASE TopStop \/ ResultStop
    BY <1>2, <1>4, TopStopPipe, ResultStopPipe
  <1>5. CASE TopSplice
    BY <1>2, <1>5, TopSplicePipe
  <1>6. CASE ConnectPrepare
    BY <1>2, <1>6, ConnectPreparePipe
  <1>7. CASE DialFresh \/ DialReuse \/ DialFails
    BY <1>2, <1>7, DialPipe
  <1>8. CASE FillDone
    <2>1. /\ pc = "fill" /\ pc' = "select"
          /\ UNCHANGED <<con, wire, inBuf, activeJobs, got, idle, job>>
      BY <1>8 DEF FillDone, queues, conVars
    <2>2. ~Redirecting
      BY <2>1 DEF Redirecting
    <2>3. job' \in [Jobs -> JobType] /\ \A j \in Jobs : job'[j].file = j /\ job'[j].st = job[j].st
      BY <1>2, <2>1 DEF PipeInv, JobInv
    <2>4. activeJobs # <<>> => Front \in Jobs /\ job'[Front].rest = job[Front].rest
      BY <1>2, <2>1, QueueFacts
    <2> QED  BY <1>2, <2>1, <2>2, <2>3, <2>4, Quiet
  <1>9. CASE FillDrop
    BY <1>2, <1>9, FillDropPipe
  <1>10. CASE FillMismatch
    BY <1>2, <1>10, FillMismatchPipe
  <1>11. CASE FillRequest
    BY <1>2, <1>11, FillRequestPipe
  <1>12. CASE SelectWake \/ SelectTimeout \/ SelectLost
    BY <1>2, <1>12, SelectPipe
  <1>13. CASE SelectRead
    BY <1>2, <1>13, SelectReadPipe
  <1>14. CASE ProcJunk \/ ProcRedirectFails \/ ProcRefused \/ ProcStoreFails \/ ProcBadChunk
    BY <1>2, <1>14, GiveUpPipe
  <1>15. CASE ProcBusy \/ ProcRestart
    BY <1>2, <1>15, MarkPipe
  <1>16. CASE ProcRedirect
    BY <1>2, <1>16, RedirectPipe
  <1>17. CASE ProcHeader
    BY <1>2, <1>17, HeaderPipe
  <1>18. CASE ProcData
    BY <1>2, <1>18, DataPipe
  <1>19. CASE ProcLastChunk
    BY <1>2, <1>19, LastChunkPipe
  <1>20. CASE ResultRecycle
    BY <1>2, <1>20, RecyclePipe
  <1>21. CASE ResultContinue
    BY <1>2, <1>21, ContinuePipe
  <1>22. CASE ResultRedirect
    BY <1>2, <1>22, FollowPipe
  <1>24. CASE SelectMore
    <2>1. /\ pc = "wait" /\ pc' = "select"
          /\ UNCHANGED <<con, wire, inBuf, activeJobs, got, idle, job>>
      BY <1>24 DEF SelectMore, queues, conVars
    <2>2. ~Redirecting
      BY <2>1 DEF Redirecting
    <2>3. job' \in [Jobs -> JobType] /\ \A j \in Jobs : job'[j].file = j /\ job'[j].st = job[j].st
      BY <1>2, <2>1 DEF PipeInv, JobInv
    <2>4. activeJobs # <<>> => Front \in Jobs /\ job'[Front].rest = job[Front].rest
      BY <1>2, <2>1, QueueFacts
    <2> QED  BY <1>2, <2>1, <2>2, <2>3, <2>4, Quiet
  <1>25. CASE ProcHint
    BY <1>2, <1>25, HintPipe
  <1>23. CASE ResultFailed
    BY <1>2, <1>23, FailedPipe
  <1> QED
    BY <1>3, <1>4, <1>5, <1>6, <1>7, <1>8, <1>9, <1>10, <1>11, <1>12, <1>13, <1>14, <1>15,
       <1>16, <1>17, <1>18, <1>19, <1>20, <1>21, <1>22, <1>23, <1>24, <1>25
    DEF Next, WorkLoop, Exchange, Process

\* In every reachable state the queues are disjoint, and while the framing was not
\* lost in a known way, the stream is the answers of the pipeline's jobs in their
\* order.
THEOREM PipelineHolds == Spec => []Inv
  <1>1. Inv /\ UNCHANGED vars => Inv'
    BY InvStep
  <1> QED  BY InvInit, InvStep, <1>1, PTL DEF Spec

\* A job's item only gets data of its own file (NewDataHandler), for any jobs,
\* mirrors and limits, through lost connections, redirections, collisions and
\* requests that are sent again, unless the framing was lost in a known way.
THEOREM OwnAnswerHolds == Spec => []OwnAnswer
  <1>1. Inv => OwnAnswer
    BY DEF Inv, PipeInv, OwnInv, OwnAnswer
  <1> QED  BY PipelineHolds, <1>1, PTL

\* A connection that RecycleIdleConnection takes has nothing to deliver any more.
THEOREM IdleCleanHolds == Spec => []IdleClean
  <1>1. Inv => IdleClean
    BY DEF Inv, PipeInv, OwnInv, IdleClean
  <1> QED  BY PipelineHolds, <1>1, PTL
=============================================================================
