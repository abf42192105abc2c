--------------------------- MODULE ClientConnProofs ---------------------------
(***************************************************************************)
(* Proofs about ClientConn for any requests, settings and sizes: what the  *)
(* client reads can be split into the responses, and what was sent is in   *)
(* the log.  The argument follows the first job of the queue: until its    *)
(* header is on the wire nothing of it is, and from then on the state of   *)
(* the job says what the response still lacks.                             *)
(***************************************************************************)
EXTENDS ClientConn, WellFoundedInduction, NaturalsInduction, TLAPS

\* The objects that jobs, buffers, responses and the log are.
ItemType ==
    [of : {"none", "store", "pt", "gen", "local"},
     st : {"err", "fresh", "head", "recv", "done"}, size : Nat, len : Int,
     code : {"ok", "redir", "nobody", "other"}, raw : {"no", "len", "chunked", "close"},
     cut : BOOLEAN]

Ways == {"empty", "len", "open", "chunked", "redir"}

BufType == [t : {"none", "head", "last", "mark"}, how : Ways, n : Int, body : Nat]

Acts == {"start", "buf", "data", "chunk", "chunkdata", "done", "maint"}

JobType ==
    [id : Nat, act : Acts, item : ItemType, file : Names, keep : {"close", "keep", "any"},
     from : Int, to : Int, pos : Int, chunk : Int, data : Nat, buf : BufType]

WireType == [id : Nat, how : Ways, n : Int, body : Int, end : BOOLEAN, pt : BOOLEAN]

LogType == [file : Names, out : Nat, done : [Names -> Nat]]

Types ==
    /\ script \in Seq(Request) /\ got \in 0..Len(script)
    /\ half \in BOOLEAN /\ known \in BOOLEAN /\ open \in BOOLEAN
    /\ jobs \in Seq(JobType) /\ wire \in Seq(WireType)
    /\ lg \in LogType /\ sent \in [Names -> Nat]

\* What items keep to: an announced length is not exceeded and is reached by
\* the end, and only uncached files have a raw header.
ItemInv(i) ==
    /\ i.raw # "no" => i.of = "pt"
    /\ i.of = "pt" => i.code = "ok" /\ (i.st \in {"head", "recv", "done"} => i.raw # "no")
    /\ i.raw = "len" => i.len >= 0
    /\ i.st = "fresh" => i.size = 0 /\ i.len = -1 /\ i.raw = "no" /\ i.code = "ok"
    /\ i.code = "ok" /\ i.len >= 0 =>
         /\ i.size <= i.len
         /\ i.st \in {"head", "recv"} => i.len \in {0, MaxSize}
         /\ i.st = "done" => i.size = i.len

\* Responses that Framed is about.
Judged(w, r) == w.how # "redir" /\ ~(w.pt /\ r.to >= 0) /\ w.n >= 0

Safe(w, r) == r.meth = "GET" /\ Judged(w, r) => Delimited(w)

\* Where the body that is sent ends in the file.
Goal(j) == IF j.to >= 0 THEN j.to + 1 ELSE j.item.len

\* The body lacks as many bytes as the job has still to send.
Aimed(j, w) ==
    /\ j.item.code = "ok" /\ j.item.len >= 0
    /\ w.n - w.body = Goal(j) - j.pos
    /\ j.pos <= Goal(j) /\ Goal(j) <= j.item.len

\* A response that has been begun fits the state of its job.
Fits(j, w, r) ==
    /\ j.act = "buf" => w.how # "chunked" /\ (w.how # "redir" => Delimited(w))
    /\ j.act = "data" => /\ w.how \in {"len", "open"}
                         /\ w.how = "len" /\ Judged(w, r) => Aimed(j, w)
                         /\ w.how = "open" => j.keep = "close"
    /\ j.act \in {"chunk", "chunkdata", "done"} => w.how = "chunked"
    /\ j.act = "done" /\ j.buf = NoBuf => w.end

\* The response that the header in m_sendbuf will begin.
Opening(j) == [id |-> j.id, how |-> j.buf.how, n |-> j.buf.n, body |-> j.buf.body,
               end |-> FALSE, pt |-> j.item.of = "pt"]

\* Nothing of the response has been sent.
Unsent(j, r) ==
    /\ j.data = 0
    /\ j.act \in {"start", "maint", "buf", "data", "chunk"}
    /\ j.act \in {"start", "maint"} => j.buf = NoBuf /\ j.pos = 0
    /\ j.act = "start" => j.to = r.to
    /\ j.act \in {"buf", "data", "chunk"} => j.buf.t = "head" /\ Fits(j, Opening(j), r)

Sign(t) == [NoBuf EXCEPT !.t = t]

\* The header has been sent.
Started(j, w, r) ==
    /\ j.data > 0
    /\ j.act \in {"buf", "data", "chunk", "chunkdata", "done"}
    /\ j.act \in {"buf", "data"} => j.buf = NoBuf
    /\ j.act \in {"chunk", "chunkdata"} => j.buf \in {NoBuf, Sign("mark")}
    /\ j.act = "done" => j.buf \in {NoBuf, Sign("last")}
    /\ Fits(j, w, r)

\* Requests whose jobs are gone.
Answered == got - Len(jobs)

\* The last response of the stream.
Latest == wire[Len(wire)]

\* It belongs to the first job.
Begun == jobs # <<>> /\ wire # <<>> /\ Latest.id = Answered + 1

JobsInv ==
    /\ Answered >= 0
    /\ \A k \in 1..Len(jobs) : jobs[k].id = Answered + k
    /\ \A k \in 1..Len(jobs) : ItemInv(jobs[k].item)
    /\ \A k \in 1..Len(jobs) : k > 1 => Unsent(jobs[k], script[jobs[k].id])
    /\ ~known => jobs = <<>> /\ wire = <<>>
    /\ ~open => jobs = <<>>

WireInv ==
    /\ \A k \in 1..Len(wire) : wire[k].id \in 1..Len(script)
    /\ \A k \in 1..Len(wire) : k < Len(wire) => wire[k + 1].id = wire[k].id + 1
    /\ \A k \in 1..Len(wire) : k < Len(wire) => Safe(wire[k], script[wire[k].id])

FrontInv ==
    open =>
      /\ Begun => Started(jobs[1], Latest, script[jobs[1].id])
      /\ ~Begun => /\ jobs # <<>> => Unsent(jobs[1], script[jobs[1].id])
                   /\ wire # <<>> => Latest.id = Answered /\ Safe(Latest, script[Latest.id])

\* The bytes of a file that the log has or will have when the record ends.
Total(l, f) == l.done[f] + (IF l.file = f THEN l.out ELSE 0)

\* The bytes that the first job has not reported.
Unreported(f) == IF jobs # <<>> /\ jobs[1].file = f THEN jobs[1].data ELSE 0

LogInv ==
    /\ open => \A f \in Names : sent[f] = Total(lg, f) + Unreported(f)
    /\ ~open => lg.done = sent

Inv == Types /\ JobsInv /\ WireInv /\ FrontInv /\ LogInv

-----------------------------------------------------------------------------
(* Lemmas on the log                                                       *)

\* Induction over the natural numbers, for a set.
LEMMA NatSetInduction ==
  ASSUME NEW S, 0 \in S, \A k \in Nat : k \in S => k + 1 \in S
  PROVE  Nat \subseteq S
<1>1. SUFFICES ASSUME Nat \ S # {} PROVE FALSE
  OBVIOUS
<1>2. PICK m \in Nat \ S : \A x \in Nat \ S : ~ (<<x, m>> \in OpToRel(<, Nat))
  BY <1>1, WFMin, NatLessThanWellFounded
<1>3. m # 0 /\ m - 1 \in Nat
  BY SMT
<1>4. m - 1 \notin S
  BY <1>3
<1>5. <<m - 1, m>> \in OpToRel(<, Nat)
  BY <1>3, SMT DEF OpToRel
<1> QED BY <1>2, <1>3, <1>4, <1>5

\* A report moves no byte from one file to another.
LEMMA CountedOnce ==
  ASSUME NEW l \in LogType, NEW j, j.file \in Names, j.data \in Nat
  PROVE  /\ LogDataCounts(l, j) \in LogType
         /\ \A f \in Names : Total(LogDataCounts(l, j), f)
                               = Total(l, f) + (IF j.file = f THEN j.data ELSE 0)
<1> DEFINE m == [l EXCEPT !.out = @ + j.data]
           n == [file |-> j.file, out |-> j.data, done |-> [l.done EXCEPT ![l.file] = @ + l.out]]
<1>0. l.file \in Names /\ l.out \in Nat /\ l.done \in [Names -> Nat]
  BY DEF LogType
<1>1. CASE j.file = l.file
  <2>1. LogDataCounts(l, j) = m
    BY <1>1 DEF LogDataCounts
  <2>2. m \in LogType /\ m.file = l.file /\ m.out = l.out + j.data /\ m.done = l.done
    BY <1>0 DEF LogType
  <2> HIDE DEF m
  <2> QED BY <1>0, <1>1, <2>1, <2>2 DEF Total
<1>2. CASE j.file # l.file
  <2>1. LogDataCounts(l, j) = n
    BY <1>2 DEF LogDataCounts
  <2>2. /\ n \in LogType /\ n.file = j.file /\ n.out = j.data
        /\ \A f \in Names : n.done[f] = l.done[f] + (IF l.file = f THEN l.out ELSE 0)
    BY <1>0 DEF LogType
  <2> HIDE DEF n
  <2>3. ASSUME NEW f \in Names
        PROVE  Total(n, f) = Total(l, f) + (IF j.file = f THEN j.data ELSE 0)
    BY <1>0, <1>2, <2>2 DEF Total
  <2> QED BY <2>1, <2>2, <2>3
<1> QED BY <1>1, <1>2

\* The record that is open is added to what was written.
LEMMA RecordTotal ==
  ASSUME NEW l \in LogType
  PROVE  /\ WriteRecord(l) \in LogType
         /\ \A f \in Names : WriteRecord(l).done[f] = Total(l, f)
<1>1. l.file \in Names /\ l.out \in Nat /\ l.done \in [Names -> Nat] /\ NoFile \in Names
  BY DEF LogType, Names
<1> QED BY <1>1 DEF WriteRecord, Total, LogType

\* The sequence of logs that Reported goes through exists.
LEMMA ReportedExists ==
  ASSUME NEW l \in LogType, NEW js \in Seq(JobType)
  PROVE  \E g \in [0..Len(js) -> LogType] :
           g = [k \in 0..Len(js) |-> IF k = 0 THEN l ELSE LogDataCounts(g[k - 1], js[k])]
<1> DEFINE Upto(m) == \E g \in [0..m -> LogType] :
                        g = [k \in 0..m |-> IF k = 0 THEN l ELSE LogDataCounts(g[k - 1], js[k])]
           S == {m \in Nat : m <= Len(js) => Upto(m)}
<1>0. Len(js) \in Nat
  OBVIOUS
<1>1. 0 \in S
  <2> DEFINE g == [k \in 0..0 |-> l]
  <2>1. g \in [0..0 -> LogType]
    OBVIOUS
  <2>2. [k \in 0..0 |-> IF k = 0 THEN l ELSE LogDataCounts(g[k - 1], js[k])] = g
    <3>1. ASSUME NEW k \in 0..0 PROVE (IF k = 0 THEN l ELSE LogDataCounts(g[k - 1], js[k])) = l
      OBVIOUS
    <3> QED BY <3>1, Zenon
  <2> HIDE DEF g
  <2>3. Upto(0)
    BY <2>1, <2>2
  <2> HIDE DEF Upto
  <2> QED BY <2>3
<1>2. ASSUME NEW m \in Nat, m \in S PROVE m + 1 \in S
  <2> SUFFICES ASSUME m + 1 <= Len(js)
               PROVE  Upto(m + 1)
    <3> HIDE DEF Upto
    <3> QED OBVIOUS
  <2>0. Upto(m)
    <3> HIDE DEF Upto
    <3> QED BY <1>0, <1>2
  <2>1. PICK g \in [0..m -> LogType] :
          g = [k \in 0..m |-> IF k = 0 THEN l ELSE LogDataCounts(g[k - 1], js[k])]
    BY <2>0
  <2> DEFINE h == [k \in 0..(m + 1) |->
                     IF k = m + 1 THEN LogDataCounts(g[m], js[m + 1]) ELSE g[k]]
  <2>2. g[m] \in LogType /\ js[m + 1] \in JobType
    BY <1>0
  <2>3. LogDataCounts(g[m], js[m + 1]) \in LogType
    BY <2>2, CountedOnce DEF JobType
  <2>4. h \in [0..(m + 1) -> LogType]
    BY <2>3
  <2>5. ASSUME NEW k \in 0..(m + 1)
        PROVE  h[k] = IF k = 0 THEN l ELSE LogDataCounts(h[k - 1], js[k])
    <3>1. CASE k = m + 1
      BY <3>1
    <3>2. CASE k # m + 1
      <4>1. k \in 0..m /\ h[k] = g[k] /\ (k # 0 => h[k - 1] = g[k - 1])
        BY <3>2
      <4> QED BY <4>1, <2>1
    <3> QED BY <3>1, <3>2
  <2>6. h = [k \in 0..(m + 1) |-> IF k = 0 THEN l ELSE LogDataCounts(h[k - 1], js[k])]
    BY <2>4, <2>5
  <2> HIDE DEF h
  <2> QED BY <2>4, <2>6
<1>3. Nat \subseteq S
  <2> HIDE DEF S
  <2> QED BY <1>1, <1>2, NatSetInduction
<1>4. Len(js) \in S
  <2> HIDE DEF S
  <2> QED BY <1>0, <1>3
<1>5. Upto(Len(js))
  <2> HIDE DEF Upto
  <2> QED BY <1>0, <1>4
<1> QED BY <1>5

\* So Reported ends with the log after the last job.
LEMMA ReportedEnds ==
  ASSUME NEW l \in LogType, NEW js \in Seq(JobType)
  PROVE  \E g \in [0..Len(js) -> LogType] :
           /\ g[0] = l
           /\ \A k \in 1..Len(js) : g[k] = LogDataCounts(g[k - 1], js[k])
           /\ Reported(l, js) = g[Len(js)]
<1> DEFINE P(g) == g = [k \in 0..Len(js) |-> IF k = 0 THEN l ELSE LogDataCounts(g[k - 1], js[k])]
           a == CHOOSE g : P(g)
<1>0. Len(js) \in Nat
  OBVIOUS
<1>1. PICK g0 \in [0..Len(js) -> LogType] : P(g0)
  BY ReportedExists
<1>2. P(a)
  BY <1>1
<1>3. Reported(l, js) = a[Len(js)]
  BY DEF Reported
<1> HIDE DEF a
<1>4. a[0] = l /\ \A k \in 1..Len(js) : a[k] = LogDataCounts(a[k - 1], js[k])
  BY <1>0, <1>2
<1>5. a \in [0..Len(js) -> LogType]
  <2> DEFINE S == {m \in Nat : m <= Len(js) => a[m] \in LogType}
  <2>1. 0 \in S
    BY <1>4
  <2>2. ASSUME NEW m \in Nat, m \in S PROVE m + 1 \in S
    <3> SUFFICES ASSUME m + 1 <= Len(js) PROVE a[m + 1] \in LogType
      OBVIOUS
    <3>1. a[m] \in LogType /\ m + 1 \in 1..Len(js) /\ (m + 1) - 1 = m /\ js[m + 1] \in JobType
      BY <2>2, <1>0
    <3>2. a[m + 1] = LogDataCounts(a[m], js[m + 1])
      BY <3>1, <1>4
    <3> QED BY <3>1, <3>2, CountedOnce DEF JobType
  <2>3. Nat \subseteq S
    <3> HIDE DEF S
    <3> QED BY <2>1, <2>2, NatSetInduction
  <2>4. \A k \in 0..Len(js) : a[k] \in LogType
    BY <2>3, <1>0
  <2> QED BY <1>2, <2>4
<1> QED BY <1>3, <1>4, <1>5

\* When only the first job has sent anything, only its bytes are added.
LEMMA ReportedTotal ==
  ASSUME NEW l \in LogType, NEW js \in Seq(JobType),
         \A k \in 1..Len(js) : k > 1 => js[k].data = 0
  PROVE  /\ Reported(l, js) \in LogType
         /\ \A f \in Names :
              Total(Reported(l, js), f)
                = Total(l, f) + (IF js # <<>> /\ js[1].file = f THEN js[1].data ELSE 0)
<1>0. Len(js) \in Nat
  OBVIOUS
<1>1. PICK g \in [0..Len(js) -> LogType] :
        /\ g[0] = l
        /\ \A k \in 1..Len(js) : g[k] = LogDataCounts(g[k - 1], js[k])
        /\ Reported(l, js) = g[Len(js)]
  BY ReportedEnds
<1>2. Reported(l, js) \in LogType
  BY <1>0, <1>1
<1>3. ASSUME NEW f \in Names
      PROVE  Total(Reported(l, js), f)
               = Total(l, f) + (IF js # <<>> /\ js[1].file = f THEN js[1].data ELSE 0)
  <2> DEFINE d == IF js # <<>> /\ js[1].file = f THEN js[1].data ELSE 0
             S == {m \in Nat : m >= 1 /\ m <= Len(js) => Total(g[m], f) = Total(l, f) + d}
  <2>0. Total(l, f) \in Nat
    BY DEF Total, LogType
  <2>1. 0 \in S
    OBVIOUS
  <2>2. ASSUME NEW m \in Nat, m \in S PROVE m + 1 \in S
    <3> SUFFICES ASSUME m + 1 <= Len(js) PROVE Total(g[m + 1], f) = Total(l, f) + d
      OBVIOUS
    <3>1. /\ m \in 0..Len(js) /\ m + 1 \in 1..Len(js) /\ (m + 1) - 1 = m
          /\ js[m + 1] \in JobType /\ js # <<>>
      BY <1>0
    <3>2. g[m + 1] = LogDataCounts(g[m], js[m + 1]) /\ g[m] \in LogType
      BY <3>1, <1>1
    <3>3. Total(g[m + 1], f) = Total(g[m], f) + (IF js[m + 1].file = f THEN js[m + 1].data ELSE 0)
      <4>1. js[m + 1].file \in Names /\ js[m + 1].data \in Nat
        BY <3>1 DEF JobType
      <4>2. \A h \in Names : Total(LogDataCounts(g[m], js[m + 1]), h)
              = Total(g[m], h) + (IF js[m + 1].file = h THEN js[m + 1].data ELSE 0)
        BY <3>2, <4>1, CountedOnce
      <4> QED BY <3>2, <4>2
    <3>4. CASE m = 0
      BY <3>1, <3>3, <3>4, <1>1
    <3>5. CASE m # 0
      <4>1. js[m + 1].data = 0 /\ Total(g[m], f) = Total(l, f) + d
        BY <3>1, <3>5, <2>2
      <4>2. d \in Nat
        <5>1. js[1] \in JobType
          BY <3>1, <1>0
        <5> QED BY <5>1 DEF JobType
      <4> HIDE DEF d
      <4> QED BY <3>3, <4>1, <4>2, <2>0
    <3> QED BY <3>4, <3>5
  <2>3. Nat \subseteq S
    <3> HIDE DEF S
    <3> QED BY <2>1, <2>2, NatSetInduction
  <2>4. CASE js = <<>>
    BY <2>0, <2>4, <1>1
  <2>5. CASE js # <<>>
    <3>1. Len(js) \in S /\ Len(js) >= 1
      <4> HIDE DEF S
      <4> QED BY <2>3, <2>5, <1>0
    <3>2. Total(g[Len(js)], f) = Total(l, f) + d
      BY <3>1
    <3> QED BY <3>2, <1>1
  <2> QED BY <2>4, <2>5
<1> QED BY <1>2, <1>3

\* The last record completes the log.
LEMMA ClosingLog ==
  ASSUME lg \in LogType, NEW js \in Seq(JobType), NEW s \in [Names -> Nat],
         \A k \in 1..Len(js) : k > 1 => js[k].data = 0,
         \A f \in Names : s[f] = Total(lg, f)
                            + (IF js # <<>> /\ js[1].file = f THEN js[1].data ELSE 0)
  PROVE  Logged(js) \in LogType /\ Logged(js).done = s
<1> DEFINE l == Reported(lg, js)
<1>1. l \in LogType /\ \A f \in Names : Total(l, f) = s[f]
  BY ReportedTotal
<1> HIDE DEF l
<1>2. WriteRecord(l) \in LogType /\ \A f \in Names : WriteRecord(l).done[f] = s[f]
  BY <1>1, RecordTotal
<1>3. WriteRecord(l).done \in [Names -> Nat]
  BY <1>2 DEF LogType
<1>4. WriteRecord(l).done = s
  BY <1>2, <1>3
<1>5. Logged(js) = WriteRecord(l)
  BY DEF Logged, l
<1> QED BY <1>2, <1>4, <1>5

-----------------------------------------------------------------------------
(* Lemmas on sequences                                                     *)

\* A sequence with another element at k.
LEMMA ReplaceFacts ==
  ASSUME NEW S, NEW q \in Seq(S), NEW k \in 1..Len(q), NEW x \in S
  PROVE  LET p == [q EXCEPT ![k] = x]
         IN  /\ p \in Seq(S) /\ Len(p) = Len(q)
             /\ p[k] = x
             /\ \A m \in 1..Len(q) : m # k => p[m] = q[m]
  OBVIOUS

\* A sequence without its first element.
LEMMA TailFacts ==
  ASSUME NEW S, NEW q \in Seq(S), q # <<>>
  PROVE  /\ Tail(q) \in Seq(S) /\ Len(Tail(q)) = Len(q) - 1
         /\ \A m \in 1..(Len(q) - 1) : Tail(q)[m] = q[m + 1]
  OBVIOUS

\* A sequence with one more element.
LEMMA AppendFacts ==
  ASSUME NEW S, NEW q \in Seq(S), NEW x \in S
  PROVE  /\ Append(q, x) \in Seq(S) /\ Len(Append(q, x)) = Len(q) + 1
         /\ Append(q, x)[Len(q) + 1] = x
         /\ \A m \in 1..Len(q) : Append(q, x)[m] = q[m]
  OBVIOUS

\* The two ways in which the code of the model replaces the first element.
LEMMA FrontFacts ==
  ASSUME NEW S, NEW q \in Seq(S), q # <<>>, NEW x \in S
  PROVE  <<x>> \o Tail(q) = [q EXCEPT ![1] = x]
<1>1. Tail(q) \in Seq(S) /\ Len(Tail(q)) = Len(q) - 1 /\ Len(q) \in Nat \ {0}
  OBVIOUS
<1>2. <<x>> \o Tail(q) \in Seq(S) /\ Len(<<x>> \o Tail(q)) = Len(q)
  BY <1>1
<1>3. \A m \in 1..Len(q) : (<<x>> \o Tail(q))[m] = [q EXCEPT ![1] = x][m]
  BY <1>1
<1> QED BY <1>2, <1>3

-----------------------------------------------------------------------------
(* The ways in which a step changes the queue                              *)

\* The connection ends, and the jobs that are left report.
LEMMA ReturnsKeep ==
  ASSUME Inv, open, Returns, wire' \in Seq(WireType), WireInv',
         wire # <<>> \/ jobs # <<>> \/ wire' = <<>>
  PROVE  Inv'
<1>1. /\ jobs \in Seq(JobType) /\ lg \in LogType /\ sent \in [Names -> Nat]
      /\ Len(jobs) \in Nat
  BY DEF Inv, Types
<1>2. \A k \in 1..Len(jobs) : k > 1 => jobs[k].data = 0
  BY DEF Inv, JobsInv, Unsent
<1>3. \A f \in Names : sent[f] = Total(lg, f)
                         + (IF jobs # <<>> /\ jobs[1].file = f THEN jobs[1].data ELSE 0)
  BY DEF Inv, LogInv, Unreported
<1>4. lg' \in LogType /\ lg'.done = sent
  BY <1>1, <1>2, <1>3, ClosingLog DEF Returns
<1>5. Types'
  <2>1. jobs' = <<>> /\ <<>> \in Seq(JobType) /\ open' = FALSE
    BY DEF Returns
  <2>2. open' \in BOOLEAN
    BY <2>1
  <2>3. UNCHANGED <<script, got, half, known, sent>>
    BY DEF Returns
  <2> QED BY <1>4, <2>1, <2>2, <2>3 DEF Inv, Types
<1>6. JobsInv'
  BY DEF Inv, Types, JobsInv, Answered, Returns
<1>8. FrontInv' /\ LogInv'
  BY <1>4 DEF FrontInv, LogInv, Returns
<1> QED BY <1>5, <1>6, <1>8 DEF Inv

LEMMA EndKeeps ==
  ASSUME Inv, open, Returns, UNCHANGED wire
  PROVE  Inv'
<1>1. wire' \in Seq(WireType)
  BY DEF Inv, Types
<1>2. WireInv'
  BY DEF Inv, WireInv, Returns
<1>3. wire # <<>> \/ jobs # <<>> \/ wire' = <<>>
  OBVIOUS
<1> QED BY <1>1, <1>2, <1>3, ReturnsKeep

\* A job changes, and nothing is sent.
LEMMA ChangeKeeps ==
  ASSUME Inv, open, NEW k \in 1..Len(jobs), NEW j \in JobType,
         j.id = jobs[k].id, j.file = jobs[k].file, j.data = jobs[k].data, ItemInv(j.item),
         k = 1 /\ Begun => Started(j, Latest, script[j.id]),
         ~(k = 1 /\ Begun) => Unsent(j, script[j.id]),
         jobs' = [jobs EXCEPT ![k] = j],
         UNCHANGED <<script, opt, got, half, known, open, lg, wire, sent>>
  PROVE  Inv'
<1>1. /\ jobs \in Seq(JobType) /\ jobs # <<>> /\ 1 \in 1..Len(jobs) /\ Len(jobs) \in Nat
  BY DEF Inv, Types
<1>2. /\ jobs' \in Seq(JobType) /\ Len(jobs') = Len(jobs) /\ jobs'[k] = j /\ jobs' # <<>>
      /\ \A m \in 1..Len(jobs) : m # k => jobs'[m] = jobs[m]
  BY <1>1, ReplaceFacts
<1>4. Types'
  BY <1>2 DEF Inv, Types
<1>5. Answered' = Answered /\ Latest' = Latest /\ (Begun' <=> Begun)
  BY <1>1, <1>2 DEF Answered, Latest, Begun
<1>6. JobsInv'
  <2>1. \A m \in 1..Len(jobs') : jobs'[m].id = Answered' + m /\ ItemInv(jobs'[m].item)
    BY <1>1, <1>2, <1>5 DEF Inv, JobsInv
  <2>2. \A m \in 1..Len(jobs') : m > 1 => Unsent(jobs'[m], script'[jobs'[m].id])
    BY <1>2 DEF Inv, JobsInv
  <2>3. known /\ Answered' >= 0
    BY <1>1, <1>5 DEF Inv, JobsInv
  <2> QED BY <2>1, <2>2, <2>3 DEF Inv, JobsInv
<1>7. WireInv'
  BY DEF Inv, WireInv
<1>8. FrontInv'
  <2>1. Begun' => Started(jobs'[1], Latest', script'[jobs'[1].id])
    BY <1>1, <1>2, <1>5 DEF Inv, FrontInv
  <2>2. ~Begun' => /\ Unsent(jobs'[1], script'[jobs'[1].id])
                   /\ wire' # <<>> => Latest'.id = Answered' /\ Safe(Latest', script'[Latest'.id])
    BY <1>1, <1>2, <1>5 DEF Inv, FrontInv
  <2> QED BY <2>1, <2>2 DEF FrontInv
<1>9. LogInv'
  <2>1. jobs'[1].file = jobs[1].file /\ jobs'[1].data = jobs[1].data
    BY <1>1, <1>2
  <2> QED BY <1>1, <1>2, <2>1 DEF Inv, LogInv, Unreported
<1> QED BY <1>4, <1>6, <1>7, <1>8, <1>9 DEF Inv

\* The last response is replaced by one of the same job.
LEMMA SameWire ==
  ASSUME Inv, Begun, NEW w \in WireType, w.id = Latest.id,
         wire' = [wire EXCEPT ![Len(wire)] = w], script' = script
  PROVE  /\ wire' \in Seq(WireType) /\ wire' # <<>> /\ Latest' = w /\ WireInv'
<1>1. wire \in Seq(WireType) /\ Len(wire) \in 1..Len(wire)
  BY DEF Inv, Types, Begun
<1>3. /\ wire' \in Seq(WireType) /\ Len(wire') = Len(wire) /\ wire'[Len(wire)] = w
      /\ \A m \in 1..Len(wire) : m # Len(wire) => wire'[m] = wire[m]
  BY <1>1, ReplaceFacts
<1>4. Latest' = w /\ wire' # <<>>
  <2>0. Len(wire) \in Nat \ {0}
    BY <1>1
  <2>1. Len(wire') = Len(wire)
    BY <1>3
  <2>2. wire' # <<>>
    BY <2>0, <2>1
  <2>3. Latest' = w
    BY <1>3 DEF Latest
  <2> QED BY <2>2, <2>3
<1>5. WireInv'
  <2>1. \A k \in 1..Len(wire) : wire'[k].id = wire[k].id
    BY <1>3 DEF Latest
  <2>2. \A k \in 1..Len(wire) : k < Len(wire) => wire'[k] = wire[k]
    <3> SUFFICES ASSUME NEW k \in 1..Len(wire), k < Len(wire) PROVE wire'[k] = wire[k]
      OBVIOUS
    <3>1. k # Len(wire)
      BY <1>1
    <3> QED BY <3>1, <1>3
  <2>3. \A k \in 1..Len(wire') : wire'[k].id \in 1..Len(script')
    BY <1>3, <2>1 DEF Inv, WireInv
  <2>4. \A k \in 1..Len(wire') : k < Len(wire') => wire'[k + 1].id = wire'[k].id + 1
    <3> SUFFICES ASSUME NEW k \in 1..Len(wire), k < Len(wire)
                 PROVE  wire'[k + 1].id = wire'[k].id + 1
      BY <1>3
    <3>1. k + 1 \in 1..Len(wire)
      BY <1>1
    <3> QED BY <2>1, <3>1 DEF Inv, WireInv
  <2>5. \A k \in 1..Len(wire') : k < Len(wire') => Safe(wire'[k], script'[wire'[k].id])
    BY <1>3, <2>2 DEF Inv, WireInv
  <2> QED BY <2>3, <2>4, <2>5 DEF WireInv
<1> QED BY <1>3, <1>4, <1>5

\* The first job is done, and is removed from the queue.
LEMMA RemovalKeeps ==
  ASSUME Inv, open, Begun,
         NEW j \in JobType, NEW s \in [Names -> Nat], NEW w \in WireType,
         j.file = jobs[1].file,
         jobs' = Tail(jobs), lg' = LogDataCounts(lg, j),
         w.id = Latest.id, Safe(w, script[w.id]),
         wire' = [wire EXCEPT ![Len(wire)] = w], sent' = s,
         \A f \in Names : s[f] = Total(lg, f) + (IF j.file = f THEN j.data ELSE 0),
         UNCHANGED <<script, opt, got, half, known, open>>
  PROVE  Inv'
<1>1. /\ jobs \in Seq(JobType) /\ wire \in Seq(WireType) /\ jobs # <<>>
      /\ Len(wire) \in 1..Len(wire) /\ Len(jobs) \in Nat \ {0} /\ got \in Nat
  BY DEF Inv, Types, Begun
<1>2. /\ jobs' \in Seq(JobType) /\ Len(jobs') = Len(jobs) - 1
      /\ \A m \in 1..(Len(jobs) - 1) : jobs'[m] = jobs[m + 1]
  BY <1>1, TailFacts
<1>3. wire' \in Seq(WireType) /\ Latest' = w /\ WireInv'
  BY SameWire
<1>4. /\ lg' \in LogType
      /\ \A f \in Names : Total(lg', f) = Total(lg, f) + (IF j.file = f THEN j.data ELSE 0)
  <2>1. lg \in LogType /\ j.file \in Names /\ j.data \in Nat
    BY DEF Inv, Types, JobType
  <2> QED BY <2>1, CountedOnce
<1>5. Types'
  BY <1>2, <1>3, <1>4 DEF Inv, Types
<1>6. Answered' = Answered + 1
  BY <1>1, <1>2 DEF Answered
<1>7. JobsInv'
  <2>1. Answered \in Nat
    BY <1>1 DEF Inv, JobsInv, Answered
  <2>2. \A k \in 1..Len(jobs') : jobs'[k].id = Answered' + k /\ ItemInv(jobs'[k].item)
    <3> SUFFICES ASSUME NEW k \in 1..Len(jobs')
                 PROVE  jobs'[k].id = Answered' + k /\ ItemInv(jobs'[k].item)
      OBVIOUS
    <3>1. k + 1 \in 1..Len(jobs) /\ jobs'[k] = jobs[k + 1]
      BY <1>1, <1>2
    <3>2. jobs[k + 1].id = Answered + (k + 1) /\ ItemInv(jobs[k + 1].item)
      BY <3>1 DEF Inv, JobsInv
    <3> QED BY <3>1, <3>2, <1>6, <2>1, <1>2
  <2>3. \A k \in 1..Len(jobs') : Unsent(jobs'[k], script'[jobs'[k].id])
    <3> SUFFICES ASSUME NEW k \in 1..Len(jobs')
                 PROVE  Unsent(jobs'[k], script'[jobs'[k].id])
      OBVIOUS
    <3>1. k + 1 \in 1..Len(jobs) /\ k + 1 > 1 /\ jobs'[k] = jobs[k + 1]
      BY <1>1, <1>2
    <3> QED BY <3>1 DEF Inv, JobsInv
  <2>4. known
    BY DEF Inv, JobsInv, Begun
  <2> QED BY <1>6, <2>1, <2>2, <2>3, <2>4 DEF Inv, JobsInv
<1>8. Latest' = w /\ w.id = Answered + 1
  BY <1>3 DEF Begun
<1>10. FrontInv'
  <2>1. ~Begun'
    BY <1>1, <1>6, <1>8 DEF Begun, Answered
  <2>2. jobs' # <<>> => Unsent(jobs'[1], script'[jobs'[1].id])
    <3>1. jobs' # <<>> => /\ 2 \in 1..Len(jobs) /\ jobs'[1] = jobs[2]
      BY <1>1, <1>2
    <3> QED BY <3>1 DEF Inv, JobsInv
  <2> QED BY <1>6, <1>8, <2>1, <2>2 DEF FrontInv
<1>11. LogInv'
  <2>1. ASSUME NEW f \in Names PROVE Unreported(f)' = 0
    <3>1. jobs' # <<>> => jobs'[1].data = 0
      <4>1. jobs' # <<>> => /\ 2 \in 1..Len(jobs) /\ jobs'[1] = jobs[2]
        BY <1>1, <1>2
      <4> QED BY <4>1 DEF Inv, JobsInv, Unsent
    <3> QED BY <3>1 DEF Unreported
  <2>2. ASSUME NEW f \in Names PROVE sent'[f] = Total(lg', f) + 0
    <3>1. Total(lg', f) \in Nat
      BY <1>4 DEF Total, LogType
    <3> QED BY <1>4, <3>1
  <2> QED BY <2>1, <2>2 DEF LogInv
<1> QED BY <1>3, <1>5, <1>7, <1>10, <1>11 DEF Inv

-----------------------------------------------------------------------------
(* Items                                                                   *)

\* An item keeps what it has announced.
LEMMA ItemStepsKeep ==
  ASSUME NEW i \in ItemType, ItemInv(i), NEW n \in ItemSteps(i)
  PROVE  /\ n \in ItemType /\ ItemInv(n) /\ n.of = i.of
         /\ i.code = "ok" /\ i.len >= 0 => n.code = "ok" /\ n.len = i.len
<1>0. MaxSize \in Nat \ {0}
  BY FilesAssumption
<1>1. CASE n = [i EXCEPT !.st = "err"]
  <2> DEFINE e == [i EXCEPT !.st = "err"]
  <2>1. /\ e \in ItemType /\ e.of = i.of /\ e.st = "err" /\ e.size = i.size /\ e.len = i.len
        /\ e.code = i.code /\ e.raw = i.raw
    BY DEF ItemType
  <2> HIDE DEF e
  <2> QED BY <1>1, <2>1 DEF ItemInv, e
<1>2. CASE i.st = "fresh" /\ \E h \in Heads(i.of) :
             n = [i EXCEPT !.st = "head", !.len = h[1], !.code = h[2], !.raw = h[3]]
  <2>1. PICK h \in Heads(i.of) :
             n = [i EXCEPT !.st = "head", !.len = h[1], !.code = h[2], !.raw = h[3]]
    BY <1>2
  <2>2. /\ h[1] \in {-1, 0, MaxSize} /\ h[2] \in {"ok", "redir", "nobody", "other"}
        /\ h[3] \in {"no", "len", "chunked", "close"}
        /\ i.of = "pt" <=> h[3] # "no"
        /\ i.of = "pt" => h[2] = "ok"
        /\ h[3] = "len" => h[1] >= 0
    BY <1>0 DEF Heads
  <2> DEFINE e == [i EXCEPT !.st = "head", !.len = h[1], !.code = h[2], !.raw = h[3]]
  <2>3. /\ e \in ItemType /\ e.of = i.of /\ e.st = "head" /\ e.size = i.size /\ e.len = h[1]
        /\ e.code = h[2] /\ e.raw = h[3]
    <3>1. h[1] \in Int
      BY <1>0, <2>2
    <3>2. PICK t : t = "head"
      OBVIOUS
    <3>3. t \in {"err", "fresh", "head", "recv", "done"}
      BY <3>2
    <3>4. PICK d : d = [i EXCEPT !.st = t, !.len = h[1], !.code = h[2], !.raw = h[3]]
      OBVIOUS
    <3>5. d = e
      BY <3>2, <3>4
    <3>6. /\ d \in ItemType /\ d.of = i.of /\ d.st = t /\ d.size = i.size /\ d.len = h[1]
          /\ d.code = h[2] /\ d.raw = h[3]
      BY <2>2, <3>1, <3>3, <3>4 DEF ItemType
    <3> QED BY <3>2, <3>5, <3>6
  <2>4. i.size = 0 /\ i.len = -1
    BY <1>2 DEF ItemInv
  <2> HIDE DEF e
  <2>5. ItemInv(e)
    BY <1>0, <2>2, <2>3, <2>4 DEF ItemInv
  <2> QED BY <2>1, <2>3, <2>4, <2>5 DEF e
<1>3. CASE /\ i.st \in {"head", "recv"} /\ i.code = "ok" /\ i.size < MaxSize /\ i.len # 0
           /\ n = [i EXCEPT !.st = "recv", !.size = @ + 1]
  <2> DEFINE e == [i EXCEPT !.st = "recv", !.size = @ + 1]
  <2>1. /\ e \in ItemType /\ e.of = i.of /\ e.st = "recv" /\ e.size = i.size + 1 /\ e.len = i.len
        /\ e.code = i.code /\ e.raw = i.raw /\ i.size \in Nat /\ i.len \in Int
    <3>1. i.size \in Nat /\ i.len \in Int
      BY DEF ItemType
    <3>2. PICK t, x : t = "recv" /\ x = i.size + 1
      OBVIOUS
    <3>3. t \in {"err", "fresh", "head", "recv", "done"} /\ x \in Nat
      BY <3>1, <3>2
    <3>4. PICK d : d = [i EXCEPT !.st = t, !.size = x]
      OBVIOUS
    <3>5. d = e
      BY <3>2, <3>4
    <3>6. /\ d \in ItemType /\ d.of = i.of /\ d.st = t /\ d.size = x /\ d.len = i.len
          /\ d.code = i.code /\ d.raw = i.raw
      BY <3>3, <3>4 DEF ItemType
    <3> QED BY <3>1, <3>2, <3>5, <3>6
  <2> HIDE DEF e
  <2>2. ItemInv(e)
    BY <1>0, <1>3, <2>1 DEF ItemInv
  <2> QED BY <1>3, <2>1, <2>2 DEF e
<1>4. CASE /\ i.st \in {"head", "recv"} /\ (i.len < 0 \/ i.len = i.size \/ i.code # "ok")
           /\ n = [i EXCEPT !.st = "done", !.len = IF @ < 0 /\ i.of = "store" THEN i.size ELSE @]
  <2> DEFINE z == IF i.len < 0 /\ i.of = "store" THEN i.size ELSE i.len
             e == [i EXCEPT !.st = "done", !.len = IF @ < 0 /\ i.of = "store" THEN i.size ELSE @]
  <2>1. /\ e \in ItemType /\ e.of = i.of /\ e.st = "done" /\ e.size = i.size /\ e.len = z
        /\ e.code = i.code /\ e.raw = i.raw /\ i.size \in Nat /\ i.len \in Int
    <3>1. i.size \in Nat /\ i.len \in Int
      BY DEF ItemType
    <3>2. PICK t, x : t = "done" /\ x = z
      OBVIOUS
    <3>3. t \in {"err", "fresh", "head", "recv", "done"} /\ x \in Int
      BY <3>1, <3>2
    <3>4. PICK d : d = [i EXCEPT !.st = t, !.len = x]
      OBVIOUS
    <3>5. d = e
      BY <3>2, <3>4
    <3>6. /\ d \in ItemType /\ d.of = i.of /\ d.st = t /\ d.size = i.size /\ d.len = x
          /\ d.code = i.code /\ d.raw = i.raw
      BY <3>3, <3>4 DEF ItemType
    <3> QED BY <3>1, <3>2, <3>5, <3>6
  <2> HIDE DEF e
  <2>2. ItemInv(e)
    BY <1>0, <1>4, <2>1 DEF ItemInv
  <2> QED BY <1>4, <2>1, <2>2 DEF e
<1>5. CASE n = [i EXCEPT !.cut = TRUE]
  <2> DEFINE e == [i EXCEPT !.cut = TRUE]
  <2>1. /\ e \in ItemType /\ e.of = i.of /\ e.st = i.st /\ e.size = i.size /\ e.len = i.len
        /\ e.code = i.code /\ e.raw = i.raw
    <3>1. PICK t : t = TRUE
      OBVIOUS
    <3>2. t \in BOOLEAN
      BY <3>1
    <3>3. PICK d : d = [i EXCEPT !.cut = t]
      OBVIOUS
    <3>4. d = e
      BY <3>1, <3>3
    <3>5. /\ d \in ItemType /\ d.of = i.of /\ d.st = i.st /\ d.size = i.size /\ d.len = i.len
          /\ d.code = i.code /\ d.raw = i.raw
      BY <3>2, <3>3 DEF ItemType
    <3> QED BY <3>4, <3>5
  <2> HIDE DEF e
  <2>2. ItemInv(e)
    BY <2>1 DEF ItemInv
  <2> QED BY <1>5, <2>1, <2>2 DEF e
<1> QED BY <1>1, <1>2, <1>3, <1>4, <1>5 DEF ItemSteps, Shortened

\* So a job, begun or not, is not disturbed by its item.
LEMMA ItemKeepsJob ==
  ASSUME NEW j \in JobType, ItemInv(j.item), NEW i \in ItemSteps(j.item),
         NEW w \in WireType, NEW r
  PROVE  LET k == [j EXCEPT !.item = i]
         IN  /\ k \in JobType /\ ItemInv(k.item) /\ k.id = j.id /\ k.file = j.file /\ k.data = j.data
             /\ Unsent(j, r) => Unsent(k, r)
             /\ Started(j, w, r) => Started(k, w, r)
<1> DEFINE k == [j EXCEPT !.item = i]
<1>1. /\ i \in ItemType /\ ItemInv(i) /\ i.of = j.item.of
      /\ j.item.code = "ok" /\ j.item.len >= 0 => i.code = "ok" /\ i.len = j.item.len
  BY ItemStepsKeep DEF JobType
<1>2. /\ k \in JobType /\ k.item = i /\ k.id = j.id /\ k.file = j.file /\ k.data = j.data
      /\ k.act = j.act /\ k.buf = j.buf /\ k.pos = j.pos /\ k.to = j.to /\ k.keep = j.keep
  BY <1>1 DEF JobType
<1> HIDE DEF k
<1>3. ASSUME NEW v PROVE Fits(j, v, r) => Fits(k, v, r)
  <2>1. Aimed(j, v) => Aimed(k, v)
    BY <1>1, <1>2 DEF Aimed, Goal
  <2> QED BY <1>2, <2>1 DEF Fits
<1>4. Opening(k) = Opening(j)
  BY <1>1, <1>2 DEF Opening
<1>5. Unsent(j, r) => Unsent(k, r)
  BY <1>2, <1>3, <1>4 DEF Unsent
<1>6. Started(j, w, r) => Started(k, w, r)
  BY <1>2, <1>3 DEF Started
<1> QED BY <1>1, <1>2, <1>5, <1>6 DEF k

\* What is known of a job of the queue.
LEMMA JobFacts ==
  ASSUME Inv, NEW k \in 1..Len(jobs)
  PROVE  /\ jobs[k] \in JobType /\ ItemInv(jobs[k].item)
         /\ jobs[k].id = Answered + k
         /\ jobs[k].id \in 1..Len(script) /\ script[jobs[k].id] \in Request
         /\ k > 1 => Unsent(jobs[k], script[jobs[k].id])
<1>1. /\ jobs \in Seq(JobType) /\ script \in Seq(Request) /\ got \in 0..Len(script)
      /\ Len(jobs) \in Nat /\ Len(script) \in Nat
  BY DEF Inv, Types
<1>2. jobs[k] \in JobType
  BY <1>1
<1>3. /\ ItemInv(jobs[k].item) /\ jobs[k].id = Answered + k /\ Answered >= 0
      /\ k > 1 => Unsent(jobs[k], script[jobs[k].id])
  BY DEF Inv, JobsInv
<1>4. jobs[k].id \in 1..Len(script)
  BY <1>1, <1>3 DEF Answered
<1> QED BY <1>1, <1>2, <1>3, <1>4

\* The item of a job makes progress.
LEMMA ItemStepKeeps ==
  ASSUME Inv, NEW k \in 1..MaxRequests, ItemStep(k)
  PROVE  Inv'
<1>1. k \in 1..Len(jobs) /\ open
  BY DEF ItemStep, Inv, Types
<1>2. PICK i \in ItemSteps(jobs[k].item) : jobs' = [jobs EXCEPT ![k].item = i]
  BY DEF ItemStep
<1>3. PICK j : j = [jobs[k] EXCEPT !.item = i]
  OBVIOUS
<1>4. jobs' = [jobs EXCEPT ![k] = j]
  BY <1>2, <1>3
<1>5. jobs[k] \in JobType /\ ItemInv(jobs[k].item)
      /\ (k > 1 => Unsent(jobs[k], script[jobs[k].id]))
  BY <1>1, JobFacts
<1>6. ASSUME NEW w \in WireType
      PROVE  /\ j \in JobType /\ ItemInv(j.item) /\ j.id = jobs[k].id
             /\ j.file = jobs[k].file /\ j.data = jobs[k].data
             /\ Unsent(jobs[k], script[jobs[k].id]) => Unsent(j, script[jobs[k].id])
             /\ Started(jobs[k], w, script[jobs[k].id]) => Started(j, w, script[jobs[k].id])
  BY <1>3, <1>5, ItemKeepsJob
<1>7. Begun => Latest \in WireType
  BY DEF Begun, Latest, Inv, Types
<1>8. \E w : w \in WireType
  <2>1. [id |-> 0, how |-> "empty", n |-> 0, body |-> 0, end |-> FALSE, pt |-> FALSE] \in WireType
    BY DEF WireType, Ways
  <2> QED BY <2>1
<1>9. k = 1 /\ Begun => Started(j, Latest, script[j.id])
  BY <1>1, <1>6, <1>7 DEF Inv, FrontInv
<1>10. ~(k = 1 /\ Begun) => Unsent(j, script[j.id])
  BY <1>1, <1>5, <1>6, <1>8 DEF Inv, FrontInv
<1>11. UNCHANGED <<script, opt, got, half, known, open, lg, wire, sent>>
  BY DEF ItemStep
<1>12. /\ j \in JobType /\ ItemInv(j.item) /\ j.id = jobs[k].id
       /\ j.file = jobs[k].file /\ j.data = jobs[k].data
  BY <1>6, <1>8
<1> QED BY <1>1, <1>4, <1>9, <1>10, <1>11, <1>12, ChangeKeeps

-----------------------------------------------------------------------------
(* Requests                                                                *)

\* A job that Prepare may leave.
Sound(j, id) ==
    /\ j \in JobType /\ j.id = id /\ ItemInv(j.item)
    /\ Unsent(j, script[id])

\* The items that a job may start with.
LEMMA StartingItems ==
  /\ NoItem \in ItemType /\ ItemInv(NoItem)
  /\ Fresh("pt") \in ItemType /\ ItemInv(Fresh("pt"))
  /\ Whole("gen", 1) \in ItemType /\ ItemInv(Whole("gen", 1))
  /\ [Whole("gen", 1) EXCEPT !.code = "redir"] \in ItemType
  /\ ItemInv([Whole("gen", 1) EXCEPT !.code = "redir"])
  /\ Whole("local", MaxSize) \in ItemType /\ ItemInv(Whole("local", MaxSize))
  /\ \A i \in SetupItems : i \in ItemType /\ ItemInv(i)
<1>0. MaxSize \in Nat \ {0} /\ MaxSize \in Int /\ 1 \in Nat /\ -1 \in Int /\ 0 \in Nat
  BY FilesAssumption
<1>1. /\ NoItem \in ItemType /\ NoItem.of = "none" /\ NoItem.st = "err" /\ NoItem.size = 0
      /\ NoItem.len = -1 /\ NoItem.code = "ok" /\ NoItem.raw = "no"
  BY DEF NoItem, ItemType
<1>2. ItemInv(NoItem)
  BY <1>1 DEF ItemInv
<1>3. ASSUME NEW o \in {"none", "store", "pt", "gen", "local"}
      PROVE  /\ Fresh(o) \in ItemType /\ Fresh(o).of = o /\ Fresh(o).st = "fresh"
             /\ Fresh(o).size = 0 /\ Fresh(o).len = -1 /\ Fresh(o).code = "ok" /\ Fresh(o).raw = "no"
  <2>1. PICK t : t = "fresh"
    OBVIOUS
  <2>2. t \in {"err", "fresh", "head", "recv", "done"}
    BY <2>1
  <2>3. PICK e : e = [NoItem EXCEPT !.of = o, !.st = t]
    OBVIOUS
  <2>4. /\ e \in ItemType /\ e.of = o /\ e.st = t /\ e.size = NoItem.size /\ e.len = NoItem.len
        /\ e.code = NoItem.code /\ e.raw = NoItem.raw
    BY <1>1, <2>2, <2>3 DEF ItemType
  <2>5. Fresh(o) = e
    BY <2>1, <2>3 DEF Fresh
  <2> QED BY <1>1, <2>1, <2>4, <2>5
<1>4. ASSUME NEW o \in {"none", "store", "pt", "gen", "local"}, NEW n \in Nat
      PROVE  /\ Whole(o, n) \in ItemType /\ Whole(o, n).of = o /\ Whole(o, n).st = "done"
             /\ Whole(o, n).size = n /\ Whole(o, n).len = n /\ Whole(o, n).code = "ok"
             /\ Whole(o, n).raw = "no"
  <2>1. PICK t : t = "done"
    OBVIOUS
  <2>2. t \in {"err", "fresh", "head", "recv", "done"} /\ n \in Int
    BY <2>1
  <2>3. PICK e : e = [NoItem EXCEPT !.of = o, !.st = t, !.size = n, !.len = n]
    OBVIOUS
  <2>4. /\ e \in ItemType /\ e.of = o /\ e.st = t /\ e.size = n /\ e.len = n
        /\ e.code = NoItem.code /\ e.raw = NoItem.raw
    BY <1>1, <2>2, <2>3 DEF ItemType
  <2>5. Whole(o, n) = e
    BY <2>1, <2>3 DEF Whole
  <2> QED BY <1>1, <2>1, <2>4, <2>5
<1>5. Fresh("pt") \in ItemType /\ ItemInv(Fresh("pt"))
      /\ Fresh("store") \in ItemType /\ ItemInv(Fresh("store"))
  BY <1>3 DEF ItemInv
<1>6. /\ Whole("gen", 1) \in ItemType /\ ItemInv(Whole("gen", 1))
      /\ Whole("local", MaxSize) \in ItemType /\ ItemInv(Whole("local", MaxSize))
      /\ Whole("store", MaxSize) \in ItemType /\ ItemInv(Whole("store", MaxSize))
  BY <1>0, <1>4 DEF ItemInv
<1>7. /\ [Whole("gen", 1) EXCEPT !.code = "redir"] \in ItemType
      /\ ItemInv([Whole("gen", 1) EXCEPT !.code = "redir"])
  <2>1. PICK c, g : c = "redir" /\ g = Whole("gen", 1)
    OBVIOUS
  <2>2. /\ c \in {"ok", "redir", "nobody", "other"} /\ g \in ItemType
        /\ g.raw = "no" /\ g.of = "gen" /\ g.st = "done"
    BY <1>0, <1>4, <2>1
  <2>3. PICK e : e = [g EXCEPT !.code = c]
    OBVIOUS
  <2>4. e \in ItemType /\ e.of = g.of /\ e.st = g.st /\ e.code = c /\ e.raw = g.raw
    BY <2>2, <2>3 DEF ItemType
  <2>5. ItemInv(e)
    BY <2>1, <2>2, <2>4 DEF ItemInv
  <2> QED BY <2>1, <2>3, <2>4, <2>5
<1>8. ASSUME NEW l \in {-1, MaxSize}
      PROVE  /\ [Fresh("store") EXCEPT !.st = "recv", !.size = 1, !.len = l] \in ItemType
             /\ ItemInv([Fresh("store") EXCEPT !.st = "recv", !.size = 1, !.len = l])
  <2>1. PICK t, o, g : t = "recv" /\ o = 1 /\ g = Fresh("store")
    OBVIOUS
  <2>2. /\ t \in {"err", "fresh", "head", "recv", "done"} /\ o \in Nat /\ l \in Int
        /\ g \in ItemType /\ g.raw = "no" /\ g.of = "store" /\ g.code = "ok"
    BY <1>0, <1>3, <2>1
  <2>3. PICK e : e = [g EXCEPT !.st = t, !.size = o, !.len = l]
    OBVIOUS
  <2>4. /\ e \in ItemType /\ e.of = g.of /\ e.st = t /\ e.size = o /\ e.len = l
        /\ e.code = g.code /\ e.raw = g.raw
    BY <2>2, <2>3 DEF ItemType
  <2>5. ItemInv(e)
    BY <1>0, <2>1, <2>2, <2>4 DEF ItemInv
  <2> QED BY <2>1, <2>3, <2>4, <2>5
<1>9. \A i \in SetupItems : i \in ItemType /\ ItemInv(i)
  BY <1>5, <1>6, <1>8 DEF SetupItems
<1> QED BY <1>1, <1>2, <1>5, <1>6, <1>7, <1>9

\* The fields of the buffers that jobs have.
LEMMA BufFacts ==
  /\ NoBuf \in BufType /\ Page \in BufType /\ NoBuf # Page
  /\ NoBuf.t = "none" /\ Page.t = "head" /\ Page.how = "len" /\ Page.n = 1 /\ Page.body = 1
  /\ \A h \in Ways, n \in Int :
       /\ Announce(h, n) \in BufType /\ Announce(h, n).t = "head" /\ Announce(h, n).how = h
       /\ Announce(h, n).n = n /\ Announce(h, n).body = 0
  /\ \A t \in {"mark", "last"} : Sign(t) \in BufType /\ Sign(t).t = t
<1>1. NoBuf \in BufType /\ Page \in BufType /\ NoBuf # Page
      /\ NoBuf.t = "none" /\ Page.t = "head" /\ Page.how = "len" /\ Page.n = 1 /\ Page.body = 1
  BY DEF NoBuf, Page, BufType, Ways
<1>2. ASSUME NEW h \in Ways, NEW n \in Int
      PROVE  /\ Announce(h, n) \in BufType /\ Announce(h, n).t = "head" /\ Announce(h, n).how = h
             /\ Announce(h, n).n = n /\ Announce(h, n).body = 0
  BY DEF Announce, BufType, Ways
<1>3. ASSUME NEW t \in {"mark", "last"} PROVE Sign(t) \in BufType /\ Sign(t).t = t
  BY DEF Sign, NoBuf, BufType, Ways
<1> QED BY <1>1, <1>2, <1>3

\* A job that is going to send a page of the server.
LEMMA PageFacts ==
  ASSUME NEW j \in JobType, NEW r, j.data = 0
  PROVE  LET k == [j EXCEPT !.act = "buf", !.buf = Page]
         IN  /\ k \in JobType /\ k.id = j.id /\ k.file = j.file /\ k.data = j.data
             /\ k.item = j.item /\ Unsent(k, r)
<1>1. PICK a, b : a = "buf" /\ b = Page
  OBVIOUS
<1>2. a \in Acts /\ b \in BufType
  BY <1>1, BufFacts DEF Acts
<1>3. PICK k : k = [j EXCEPT !.act = a, !.buf = b]
  OBVIOUS
<1>4. /\ k \in JobType /\ k.id = j.id /\ k.file = j.file /\ k.data = j.data
      /\ k.item = j.item /\ k.act = a /\ k.buf = b
  BY <1>2, <1>3 DEF JobType
<1>5. Opening(k).how = "len" /\ Opening(k).n = 1 /\ Opening(k).body = 1
  BY <1>1, <1>4, BufFacts DEF Opening
<1>6. Delimited(Opening(k))
  BY <1>5 DEF Delimited
<1>7. Unsent(k, r)
  BY <1>1, <1>4, <1>5, <1>6, BufFacts DEF Unsent, Fits
<1> QED BY <1>1, <1>3, <1>4, <1>7

\* A job of Prepare, with an item, with a page, or for maintenance, has sent nothing.
LEMMA NewJobSound ==
  ASSUME Inv, NEW id \in 1..Len(script), NEW f \in Names, NEW i \in ItemType, ItemInv(i)
  PROVE  /\ Sound(NewJob(id, f, i), id) /\ NewJob(id, f, i).data = 0
         /\ Sound(Early(id, f), id)
         /\ Sound(Maint(id), id)
<1>1. script[id] \in Request
  BY DEF Inv, Types
<1>2. /\ script[id].keep \in {"close", "keep", "any"}
      /\ script[id].from \in Int /\ script[id].to \in Int /\ id \in Nat
  BY <1>1, FilesAssumption DEF Request
<1>3. NoFile \in Names /\ NoItem \in ItemType /\ ItemInv(NoItem)
  BY StartingItems DEF Names
<1>4. ASSUME NEW g \in Names, NEW n \in ItemType, ItemInv(n)
      PROVE  /\ Sound(NewJob(id, g, n), id)
             /\ NewJob(id, g, n).data = 0 /\ NewJob(id, g, n).pos = 0 /\ NewJob(id, g, n).buf = NoBuf
  <2>1. PICK s, z, b : s = "start" /\ z = 0 /\ b = NoBuf
    OBVIOUS
  <2>2. s \in Acts /\ z \in Nat /\ z \in Int /\ b \in BufType
    BY <2>1, BufFacts DEF Acts
  <2>3. PICK j : j = [id |-> id, act |-> s, item |-> n, file |-> g, keep |-> script[id].keep,
                      from |-> script[id].from, to |-> script[id].to, pos |-> z, chunk |-> z,
                      data |-> z, buf |-> b]
    OBVIOUS
  <2>4. /\ j \in JobType /\ j.id = id /\ j.item = n /\ j.act = s /\ j.to = script[id].to
        /\ j.pos = z /\ j.data = z /\ j.buf = b
    BY <1>2, <2>2, <2>3, <1>4 DEF JobType
  <2>5. Unsent(j, script[id])
    BY <2>1, <2>4 DEF Unsent
  <2>6. NewJob(id, g, n) = j
    BY <2>1, <2>3 DEF NewJob
  <2> QED BY <2>1, <2>4, <2>5, <2>6, <1>4 DEF Sound
<1>5. Sound(Early(id, f), id)
  <2>1. PICK j : j = NewJob(id, f, NoItem)
    OBVIOUS
  <2>2. j \in JobType /\ j.id = id /\ ItemInv(j.item) /\ j.data = 0
    BY <1>3, <1>4, <2>1 DEF Sound
  <2>3. PICK k : k = [j EXCEPT !.act = "buf", !.buf = Page]
    OBVIOUS
  <2>4. k \in JobType /\ k.id = j.id /\ k.item = j.item /\ Unsent(k, script[id])
    BY <2>2, <2>3, PageFacts
  <2>5. Early(id, f) = k
    BY <2>1, <2>3 DEF Early
  <2> QED BY <2>2, <2>4, <2>5 DEF Sound
<1>6. Sound(Maint(id), id)
  <2>1. PICK j : j = NewJob(id, NoFile, NoItem)
    OBVIOUS
  <2>2. j \in JobType /\ j.id = id /\ ItemInv(j.item) /\ j.data = 0 /\ j.pos = 0 /\ j.buf = NoBuf
    BY <1>3, <1>4, <2>1 DEF Sound
  <2>3. PICK m : m = "maint"
    OBVIOUS
  <2>4. m \in Acts
    BY <2>3 DEF Acts
  <2>5. PICK k : k = [j EXCEPT !.act = m]
    OBVIOUS
  <2>6. /\ k \in JobType /\ k.id = j.id /\ k.item = j.item /\ k.act = m
        /\ k.data = j.data /\ k.pos = j.pos /\ k.buf = j.buf
    BY <2>2, <2>4, <2>5 DEF JobType
  <2>7. Unsent(k, script[id])
    BY <2>2, <2>3, <2>6 DEF Unsent
  <2>8. Maint(id) = k
    BY <2>1, <2>3, <2>5 DEF Maint
  <2> QED BY <2>2, <2>6, <2>7, <2>8 DEF Sound
<1> QED BY <1>4, <1>5, <1>6

\* Every job that Prepare leaves has still to send its header.
LEMMA PrepareSound ==
  ASSUME Inv, NEW id \in 1..Len(script), NEW j \in Prepare(id)
  PROVE  Sound(j, id)
<1>1. script[id] \in Request
  BY DEF Inv, Types
<1>2. script[id].file \in Names /\ NoFile \in Names
  BY <1>1 DEF Request, Names
<1>3. ASSUME NEW f \in Names PROVE Sound(Early(id, f), id) /\ Sound(Maint(id), id)
  BY <1>3, NewJobSound, StartingItems
<1>4. ASSUME NEW f \in Names, NEW i \in ItemType, ItemInv(i) PROVE Sound(NewJob(id, f, i), id)
  BY <1>4, NewJobSound
<1>5. CASE j \in PrepareLocalDownload(id)
  BY <1>2, <1>3, <1>4, <1>5, StartingItems DEF PrepareLocalDownload
<1>6. CASE j \in PrepareFile(id)
  <2> DEFINE r == script[id]
             Item(i) == IF PtMode(r) /\ i.st # "done" THEN Fresh("pt") ELSE i
             Queued(i) == IF ~PtMode(r) /\ r.kind = "uncachedtgt" THEN Fresh("pt") ELSE i
  <2>1. \/ j = Early(id, r.file)
        \/ \E s \in SetupItems : j = NewJob(id, r.file, Item(s)) \/ j = NewJob(id, r.file, Queued(Item(s)))
    BY <1>6 DEF PrepareFile
  <2>2. ASSUME NEW s \in SetupItems
        PROVE  /\ Item(s) \in ItemType /\ ItemInv(Item(s))
               /\ Queued(Item(s)) \in ItemType /\ ItemInv(Queued(Item(s)))
    BY StartingItems
  <2> HIDE DEF Item, Queued
  <2> QED BY <1>2, <1>3, <1>4, <2>1, <2>2
<1>7. CASE j \in {Early(id, NoFile), Maint(id), Early(id, script[id].file)}
  BY <1>2, <1>3, <1>7
<1> QED BY <1>5, <1>6, <1>7 DEF Prepare

\* con::WorkLoop queues the job of a request.
LEMMA ReceiveKeeps ==
  ASSUME Inv, Receive
  PROVE  Inv'
<1>1. /\ jobs \in Seq(JobType) /\ script \in Seq(Request) /\ got \in 0..Len(script)
      /\ Len(jobs) \in Nat /\ Len(script) \in Nat
  BY DEF Inv, Types
<1>2. /\ open /\ got + 1 \in 1..Len(script) /\ known
      /\ UNCHANGED <<script, opt, known, open, wire, lg, sent>>
      /\ got' = got + 1 /\ half' = FALSE
  BY <1>1 DEF Receive, Take
<1>3. PICK j \in Prepare(got + 1) : jobs' = Append(jobs, j)
  BY DEF Receive
<1>4. j \in JobType /\ j.id = got + 1 /\ ItemInv(j.item) /\ Unsent(j, script[got + 1])
  BY <1>2, PrepareSound DEF Sound
<1>5. /\ jobs' \in Seq(JobType) /\ Len(jobs') = Len(jobs) + 1 /\ jobs'[Len(jobs) + 1] = j
      /\ \A m \in 1..Len(jobs) : jobs'[m] = jobs[m]
  BY <1>1, <1>3, <1>4, AppendFacts
<1>6. Types'
  <2>1. half' \in BOOLEAN
    BY <1>2
  <2>2. got' \in 0..Len(script')
    BY <1>1, <1>2
  <2> QED BY <1>2, <1>5, <2>1, <2>2 DEF Inv, Types
<1>7. Answered' = Answered
  BY <1>1, <1>2, <1>5 DEF Answered
<1>8. JobsInv'
  <2>1. ASSUME NEW m \in 1..Len(jobs')
        PROVE  jobs'[m].id = Answered' + m /\ ItemInv(jobs'[m].item)
    <3>1. CASE m \in 1..Len(jobs)
      BY <1>5, <1>7, <3>1 DEF Inv, JobsInv
    <3>2. CASE m = Len(jobs) + 1
      BY <1>1, <1>4, <1>5, <1>7, <3>2 DEF Answered
    <3> QED BY <1>1, <1>5, <3>1, <3>2
  <2>2. ASSUME NEW m \in 1..Len(jobs'), m > 1 PROVE Unsent(jobs'[m], script'[jobs'[m].id])
    <3>1. CASE m \in 1..Len(jobs)
      BY <1>2, <1>5, <2>2, <3>1 DEF Inv, JobsInv
    <3>2. CASE m = Len(jobs) + 1
      BY <1>2, <1>4, <1>5, <3>2
    <3> QED BY <1>1, <1>5, <3>1, <3>2
  <2>3. Answered' >= 0
    BY <1>7 DEF Inv, JobsInv
  <2> QED BY <1>2, <2>1, <2>2, <2>3 DEF JobsInv
<1>9. WireInv'
  BY <1>2 DEF Inv, WireInv
<1>10. FrontInv'
  <2>1. Latest' = Latest
    BY <1>2 DEF Latest
  <2>2. jobs' # <<>> /\ 1 \in 1..Len(jobs')
    BY <1>1, <1>5
  <2>3. CASE jobs = <<>>
    <3>1. jobs'[1] = j
      BY <1>5, <2>3
    <3>2. ~Begun /\ ~Begun'
      BY <1>1, <1>2, <1>7, <2>1, <2>3 DEF Begun, Inv, FrontInv, JobsInv, Answered
    <3> QED BY <1>2, <1>4, <1>7, <2>1, <3>1, <3>2 DEF Inv, FrontInv
  <2>4. CASE jobs # <<>>
    <3>1. jobs'[1] = jobs[1] /\ (Begun' <=> Begun)
      BY <1>1, <1>2, <1>5, <1>7, <2>1, <2>2, <2>4 DEF Begun
    <3> QED BY <1>2, <1>7, <2>1, <2>4, <3>1 DEF Inv, FrontInv
  <2> QED BY <2>3, <2>4
<1>11. LogInv'
  <2>1. ASSUME NEW f \in Names PROVE Unreported(f)' = Unreported(f)
    <3>1. CASE jobs = <<>>
      <4>4. jobs' # <<>>
        BY <1>1, <1>5
      <4>5. jobs'[1] = j
        BY <1>5, <3>1
      <4>1. jobs'[1] = j /\ jobs' # <<>>
        BY <4>4, <4>5
      <4>2. j.data = 0
        BY <1>4 DEF Unsent
      <4> QED BY <3>1, <4>1, <4>2 DEF Unreported
    <3>2. CASE jobs # <<>>
      <4>1. jobs'[1] = jobs[1] /\ jobs' # <<>>
        BY <1>1, <1>5, <3>2
      <4> QED BY <3>2, <4>1 DEF Unreported
    <3> QED BY <3>1, <3>2
  <2> QED BY <1>2, <2>1 DEF Inv, LogInv
<1> QED BY <1>6, <1>8, <1>9, <1>10, <1>11 DEF Inv

\* The steps of con::WorkLoop that queue no job.
LEMMA RequestsKeep ==
  ASSUME Inv, Part \/ Leave \/ Identify \/ ReceiveBad \/ Gone
  PROVE  Inv'
<1>1. CASE Part
  <2>1. UNCHANGED <<script, got, known, open, jobs, wire, lg, sent>> /\ half' = TRUE
    BY <1>1 DEF Part
  <2>2. half' \in BOOLEAN
    BY <2>1
  <2>3. Types'
    BY <2>1, <2>2 DEF Inv, Types
  <2>4. Answered' = Answered /\ Latest' = Latest /\ (Begun' <=> Begun)
    BY <2>1 DEF Answered, Latest, Begun
  <2>5. JobsInv' /\ WireInv' /\ FrontInv' /\ LogInv'
    BY <2>1, <2>4 DEF Inv, JobsInv, WireInv, FrontInv, LogInv, Unreported
  <2> QED BY <2>3, <2>5 DEF Inv
<1>2. CASE Leave
  BY <1>2, EndKeeps DEF Leave, Take, Returns
<1>3. CASE Identify /\ ~script[got + 1].xorig
  BY <1>3, EndKeeps DEF Identify, Take, End
<1>4. CASE Identify /\ script[got + 1].xorig
  <2>1. /\ known' = TRUE /\ got' = got + 1 /\ half' = FALSE /\ got < Len(script)
        /\ UNCHANGED <<script, opt, open, jobs, wire, lg, sent>>
        /\ jobs = <<>> /\ wire = <<>> /\ got \in 0..Len(script) /\ Len(script) \in Nat
    BY <1>4 DEF Identify, Take, Inv, JobsInv, Types
  <2>2. half' \in BOOLEAN /\ known' \in BOOLEAN
    BY <2>1
  <2>7. got' \in 0..Len(script')
    BY <2>1
  <2>3. Types'
    BY <2>1, <2>2, <2>7 DEF Inv, Types
  <2>4. JobsInv'
    BY <2>1 DEF JobsInv, Answered
  <2>5. WireInv' /\ LogInv'
    BY <2>1 DEF Inv, WireInv, LogInv, Unreported
  <2>6. FrontInv'
    BY <2>1 DEF FrontInv, Begun
  <2> QED BY <2>3, <2>4, <2>5, <2>6 DEF Inv
<1>5. CASE ReceiveBad
  BY <1>5, EndKeeps DEF ReceiveBad, Take, End
<1>6. CASE Gone
  BY <1>6, EndKeeps DEF Gone, End
<1> QED BY <1>1, <1>2, <1>3, <1>4, <1>5, <1>6

-----------------------------------------------------------------------------
(* Bytes                                                                   *)

\* What is known of the first job.
LEMMA FirstFacts ==
  ASSUME Inv, open, jobs # <<>>
  PROVE  /\ 1 \in 1..Len(jobs) /\ jobs \in Seq(JobType) /\ wire \in Seq(WireType)
         /\ jobs[1] \in JobType /\ ItemInv(jobs[1].item)
         /\ jobs[1].id = Answered + 1
         /\ script[jobs[1].id] \in Request
         /\ Begun => /\ Started(jobs[1], Latest, script[jobs[1].id])
                     /\ Latest \in WireType /\ Latest.id = jobs[1].id
                     /\ Len(wire) \in 1..Len(wire)
         /\ ~Begun => Unsent(jobs[1], script[jobs[1].id])
<1>1. 1 \in 1..Len(jobs) /\ jobs \in Seq(JobType) /\ wire \in Seq(WireType)
  BY DEF Inv, Types
<1>2. /\ jobs[1] \in JobType /\ ItemInv(jobs[1].item) /\ jobs[1].id = Answered + 1
      /\ script[jobs[1].id] \in Request
  BY <1>1, JobFacts
<1>3. Begun => Len(wire) \in 1..Len(wire)
  BY <1>1 DEF Begun
<1>4. Begun => Latest \in WireType /\ Latest.id = jobs[1].id
  BY <1>1, <1>2, <1>3 DEF Begun, Latest
<1> QED BY <1>1, <1>2, <1>3, <1>4 DEF Inv, FrontInv

\* The counter of a file.
LEMMA CountFacts ==
  ASSUME sent \in [Names -> Nat], NEW f \in Names, NEW n \in Nat, Counted(f, n)
  PROVE  /\ sent' \in [Names -> Nat]
         /\ \A g \in Names : sent'[g] = sent[g] + (IF g = f THEN n ELSE 0)
  BY DEF Counted

\* The bytes of the first job, when it has sent n more.
LEMMA CountedTotal ==
  ASSUME Inv, open, jobs # <<>>, NEW j \in JobType, NEW n \in Nat,
         j.file = jobs[1].file, j.data = jobs[1].data + n, Counted(j.file, n)
  PROVE  /\ sent' \in [Names -> Nat]
         /\ \A f \in Names : sent'[f] = Total(lg, f) + (IF j.file = f THEN j.data ELSE 0)
<1>1. /\ sent \in [Names -> Nat] /\ lg \in LogType /\ j.file \in Names /\ j.data \in Nat
      /\ jobs[1].data \in Nat
  BY FirstFacts DEF Inv, Types, JobType
<1>2. /\ sent' \in [Names -> Nat]
      /\ \A g \in Names : sent'[g] = sent[g] + (IF g = j.file THEN n ELSE 0)
  BY <1>1, CountFacts
<1>3. ASSUME NEW f \in Names PROVE sent'[f] = Total(lg, f) + (IF j.file = f THEN j.data ELSE 0)
  <2>1. sent[f] = Total(lg, f) + (IF j.file = f THEN jobs[1].data ELSE 0)
    BY DEF Inv, LogInv, Unreported
  <2>2. Total(lg, f) \in Nat
    BY <1>1 DEF Total, LogType
  <2> QED BY <1>1, <1>2, <2>1, <2>2
<1> QED BY <1>2, <1>3

\* A new response follows the last one.
LEMMA NextWire ==
  ASSUME Inv, open, jobs # <<>>, ~Begun, NEW w \in WireType, w.id = jobs[1].id,
         wire' = Append(wire, w), script' = script
  PROVE  /\ wire' \in Seq(WireType) /\ wire' # <<>> /\ Latest' = w /\ WireInv'
<1>1. wire \in Seq(WireType) /\ Len(wire) \in Nat /\ Len(script) \in Nat
  BY DEF Inv, Types
<1>2. w.id = Answered + 1 /\ w.id \in 1..Len(script)
  BY FirstFacts, JobFacts
<1>3. /\ wire' \in Seq(WireType) /\ Len(wire') = Len(wire) + 1 /\ wire'[Len(wire) + 1] = w
      /\ \A m \in 1..Len(wire) : wire'[m] = wire[m]
  BY <1>1, AppendFacts
<1>4. Latest' = w /\ wire' # <<>>
  BY <1>1, <1>3 DEF Latest
<1>5. wire # <<>> => /\ wire[Len(wire)].id = Answered /\ Len(wire) \in 1..Len(wire)
                     /\ Safe(wire[Len(wire)], script[wire[Len(wire)].id])
  BY <1>1 DEF Inv, FrontInv, Latest
<1>6. WireInv'
  <2>1. ASSUME NEW k \in 1..Len(wire') PROVE wire'[k].id \in 1..Len(script')
    <3>1. CASE k \in 1..Len(wire)
      BY <1>3, <3>1 DEF Inv, WireInv
    <3>2. CASE k = Len(wire) + 1
      BY <1>2, <1>3, <3>2
    <3> QED BY <1>1, <1>3, <3>1, <3>2
  <2>2. ASSUME NEW k \in 1..Len(wire'), k < Len(wire')
        PROVE  /\ wire'[k + 1].id = wire'[k].id + 1
               /\ Safe(wire'[k], script'[wire'[k].id])
    <3>1. CASE k < Len(wire)
      <4>1. k \in 1..Len(wire) /\ k + 1 \in 1..Len(wire)
        BY <1>1, <1>3, <3>1
      <4> QED BY <1>3, <3>1, <4>1 DEF Inv, WireInv
    <3>2. CASE k = Len(wire)
      <4>1. wire # <<>> /\ k \in 1..Len(wire)
        BY <1>1, <3>2
      <4> QED BY <1>2, <1>3, <1>5, <3>2, <4>1
    <3> QED BY <1>1, <1>3, <2>2, <3>1, <3>2
  <2> QED BY <2>1, <2>2 DEF WireInv
<1> QED BY <1>3, <1>4, <1>6

\* The first job sends n bytes and goes on.
LEMMA SendKeeps ==
  ASSUME Inv, open, jobs # <<>>, NEW j \in JobType, NEW w \in WireType, NEW n \in Nat,
         j.id = jobs[1].id, j.file = jobs[1].file, j.data = jobs[1].data + n, ItemInv(j.item),
         Started(j, w, script[j.id]), w.id = j.id,
         Begun => wire' = [wire EXCEPT ![Len(wire)] = w],
         ~Begun => wire' = Append(wire, w),
         jobs' = [jobs EXCEPT ![1] = j], Counted(j.file, n),
         UNCHANGED <<script, opt, got, half, known, open, lg>>
  PROVE  Inv'
<1>1. /\ jobs \in Seq(JobType) /\ 1 \in 1..Len(jobs) /\ Len(jobs) \in Nat
      /\ jobs[1].id = Answered + 1 /\ (Begun => Latest.id = jobs[1].id)
  BY FirstFacts
<1>2. /\ jobs' \in Seq(JobType) /\ Len(jobs') = Len(jobs) /\ jobs'[1] = j /\ jobs' # <<>>
      /\ \A m \in 1..Len(jobs) : m # 1 => jobs'[m] = jobs[m]
  BY <1>1, ReplaceFacts
<1>3. wire' \in Seq(WireType) /\ wire' # <<>> /\ Latest' = w /\ WireInv'
  BY <1>1, SameWire, NextWire
<1>4. /\ sent' \in [Names -> Nat]
      /\ \A f \in Names : sent'[f] = Total(lg, f) + (IF j.file = f THEN j.data ELSE 0)
  BY CountedTotal
<1>5. Types'
  BY <1>2, <1>3, <1>4 DEF Inv, Types
<1>6. Answered' = Answered
  BY <1>2 DEF Answered
<1>7. JobsInv'
  <2>1. \A m \in 1..Len(jobs') : jobs'[m].id = Answered' + m /\ ItemInv(jobs'[m].item)
    BY <1>1, <1>2, <1>6 DEF Inv, JobsInv
  <2>2. \A m \in 1..Len(jobs') : m > 1 => Unsent(jobs'[m], script'[jobs'[m].id])
    BY <1>2 DEF Inv, JobsInv
  <2>3. known /\ Answered' >= 0
    BY <1>6 DEF Inv, JobsInv
  <2> QED BY <2>1, <2>2, <2>3 DEF Inv, JobsInv
<1>8. Begun'
  BY <1>1, <1>2, <1>3, <1>6 DEF Begun
<1>9. FrontInv'
  BY <1>2, <1>3, <1>8 DEF FrontInv
<1>10. LogInv'
  BY <1>2, <1>4 DEF LogInv, Unreported
<1> QED BY <1>3, <1>5, <1>7, <1>9, <1>10 DEF Inv

\* The first job sends n bytes, and the connection ends.
LEMMA CloseKeeps ==
  ASSUME Inv, open, Begun, NEW j \in JobType, NEW w \in WireType, NEW n \in Nat,
         j.file = jobs[1].file, j.data = jobs[1].data + n,
         w.id = Latest.id, wire' = [wire EXCEPT ![Len(wire)] = w],
         lg' = Logged(<<j>> \o Tail(jobs)), jobs' = <<>>, open' = FALSE, Counted(j.file, n),
         UNCHANGED <<script, opt, got, half, known>>
  PROVE  Inv'
<1>0. jobs # <<>> /\ known
  BY DEF Inv, JobsInv, Begun
<1>1. jobs \in Seq(JobType) /\ 1 \in 1..Len(jobs) /\ lg \in LogType
  BY <1>0, FirstFacts DEF Inv, Types
<1>2. PICK q : q = <<j>> \o Tail(jobs)
  OBVIOUS
<1>3. q = [jobs EXCEPT ![1] = j]
  BY <1>0, <1>1, <1>2, FrontFacts
<1>4. /\ q \in Seq(JobType) /\ Len(q) = Len(jobs) /\ q[1] = j /\ q # <<>>
      /\ \A m \in 1..Len(jobs) : m # 1 => q[m] = jobs[m]
  BY <1>1, <1>3, ReplaceFacts
<1>5. \A k \in 1..Len(q) : k > 1 => q[k].data = 0
  BY <1>4 DEF Inv, JobsInv, Unsent
<1>6. /\ sent' \in [Names -> Nat]
      /\ \A f \in Names : sent'[f] = Total(lg, f) + (IF j.file = f THEN j.data ELSE 0)
  BY <1>0, CountedTotal
<1>7. lg' \in LogType /\ lg'.done = sent'
  <2>1. PICK s : s = sent'
    OBVIOUS
  <2>2. Logged(q) \in LogType /\ Logged(q).done = s
    <3>1. s \in [Names -> Nat]
      BY <2>1, <1>6
    <3>2. \A f \in Names : s[f] = Total(lg, f) + (IF q # <<>> /\ q[1].file = f THEN q[1].data ELSE 0)
      BY <2>1, <1>4, <1>6
    <3> QED BY <1>1, <1>4, <1>5, <3>1, <3>2, ClosingLog
  <2> QED BY <1>2, <2>1, <2>2
<1>8. wire' \in Seq(WireType) /\ WireInv'
  BY SameWire
<1>9. Types'
  <2>1. jobs' \in Seq(JobType)
    OBVIOUS
  <2>2. open' \in BOOLEAN
    OBVIOUS
  <2> QED BY <1>6, <1>7, <1>8, <2>1, <2>2 DEF Inv, Types
<1>10. JobsInv'
  BY <1>0 DEF Inv, Types, JobsInv, Answered
<1>11. FrontInv' /\ LogInv'
  BY <1>7 DEF FrontInv, LogInv
<1> QED BY <1>8, <1>9, <1>10, <1>11 DEF Inv

-----------------------------------------------------------------------------
(* job::SendData                                                           *)

\* RunMaintWork: the page begins where the responses before it are complete.
LEMMA MaintWorkKeeps ==
  ASSUME Inv, MaintWork
  PROVE  Inv'
<1>1. /\ open /\ jobs # <<>> /\ jobs[1].act = "maint" /\ Returns /\ script' = script
  BY DEF MaintWork, Active, Returns
<1>2. /\ jobs[1] \in JobType /\ ~Begun
  BY <1>1, FirstFacts DEF Started
<1>3. PICK w : w = [id |-> jobs[1].id, how |-> "open", n |-> 0, body |-> 1,
                    end |-> FALSE, pt |-> FALSE]
  OBVIOUS
<1>4. w \in WireType /\ w.id = jobs[1].id
  <2>1. jobs[1].id \in Nat
    BY <1>2 DEF JobType
  <2> QED BY <1>3, <2>1 DEF WireType, Ways
<1>5. wire' = Append(wire, w)
  BY <1>3 DEF MaintWork
<1>6. wire' \in Seq(WireType) /\ WireInv'
  BY <1>1, <1>2, <1>4, <1>5, NextWire
<1>7. known
  BY <1>1 DEF Inv, JobsInv
<1> QED BY <1>1, <1>6, ReturnsKeep

\* Whether a response fits its job depends on these fields only.
LEMMA SameFit ==
  ASSUME NEW j, NEW k, NEW w, NEW r, Fits(j, w, r),
         k.act = j.act, k.item = j.item, k.pos = j.pos, k.to = j.to, k.keep = j.keep,
         j.act = "done" => w.end
  PROVE  Fits(k, w, r)
<1>1. Aimed(j, w) => Aimed(k, w)
  BY DEF Aimed, Goal
<1> QED BY <1>1 DEF Fits

\* m_sendbuf goes out: with a header the response begins.
LEMMA FlushKeeps ==
  ASSUME Inv, Flush
  PROVE  Inv'
<1>1. open /\ jobs # <<>> /\ jobs[1].buf # NoBuf
  BY DEF Flush
<1>2. PICK j : j = jobs[1]
  OBVIOUS
<1>3. /\ j \in JobType /\ ItemInv(j.item) /\ j.id = jobs[1].id
      /\ Begun => /\ Started(j, Latest, script[j.id])
                  /\ Latest \in WireType /\ Latest.id = j.id /\ Len(wire) \in 1..Len(wire)
      /\ ~Begun => Unsent(j, script[j.id])
  BY <1>1, <1>2, FirstFacts
<1>4. j.buf \in BufType /\ j.buf.body \in Nat /\ j.data \in Nat /\ j.id \in Nat /\ j.file \in Names
  BY <1>3 DEF JobType, BufType
<1>5. PICK n : n = IF j.buf.t = "head" THEN j.buf.body + 1 ELSE 1
  OBVIOUS
<1>6. n \in Nat \ {0}
  BY <1>4, <1>5
<1>7. PICK d : d = j.data + n
  OBVIOUS
<1>8. d \in Nat /\ d > 0
  BY <1>4, <1>6, <1>7
<1>9. PICK k : k = [j EXCEPT !.buf = NoBuf, !.data = d]
  OBVIOUS
<1>10. /\ k \in JobType /\ k.id = j.id /\ k.file = j.file /\ k.item = j.item
       /\ k.act = j.act /\ k.pos = j.pos /\ k.to = j.to /\ k.buf = NoBuf /\ k.data = d
       /\ k.keep = j.keep
  <2>1. PICK b : b = NoBuf
    OBVIOUS
  <2>2. b \in BufType
    BY <2>1, BufFacts
  <2>3. k = [j EXCEPT !.buf = b, !.data = d]
    BY <1>9, <2>1
  <2> QED BY <1>3, <1>8, <2>1, <2>2, <2>3 DEF JobType
<1>11. [j EXCEPT !.buf = NoBuf, !.data = @ + n] = k
  BY <1>7, <1>9
<1>12. /\ jobs' = [jobs EXCEPT ![1] = k] /\ Counted(j.file, n)
       /\ UNCHANGED <<script, opt, got, half, known, open, lg>>
       /\ wire' = CASE j.buf.t = "head" -> Append(wire, Opening(j))
                    [] j.buf.t = "last" -> [wire EXCEPT ![Len(wire)].end = TRUE]
                    [] OTHER -> wire
  <2>1. Does([j EXCEPT !.buf = NoBuf, !.data = @ + n]) /\ Counted(j.file, n)
    BY <1>2, <1>5 DEF Flush
  <2>2. wire' = CASE j.buf.t = "head" -> Append(wire, Opening(j))
                  [] j.buf.t = "last" -> [wire EXCEPT ![Len(wire)].end = TRUE]
                  [] OTHER -> wire
    BY <1>2 DEF Flush, Opening
  <2> QED BY <1>11, <2>1, <2>2 DEF Does
<1>13. CASE Begun
  <2>1. /\ j.act \in {"chunk", "chunkdata", "done"} /\ j.buf \in {Sign("mark"), Sign("last")}
        /\ j.act = "done" <=> j.buf = Sign("last")
        /\ j.act # "done" => j.buf = Sign("mark")
    <3>1. Sign("mark") # Sign("last")
      BY BufFacts
    <3> QED BY <1>1, <1>2, <1>3, <1>13, <3>1 DEF Started
  <2>2. n = 1 /\ j.buf.t # "head" /\ (j.act = "done" <=> j.buf.t = "last")
    BY <1>5, <2>1, BufFacts
  <2>3. PICK w : w = IF j.act = "done" THEN [Latest EXCEPT !.end = TRUE] ELSE Latest
    OBVIOUS
  <2>4. w \in WireType /\ w.id = Latest.id /\ w.how = Latest.how /\ (j.act = "done" => w.end)
        /\ (j.act # "done" => w = Latest)
    <3>1. CASE j.act = "done"
      <4>1. PICK t : t = TRUE
        OBVIOUS
      <4>2. t \in BOOLEAN
        BY <4>1
      <4>3. w = [Latest EXCEPT !.end = t]
        BY <2>3, <3>1, <4>1
      <4>4. w \in WireType /\ w.id = Latest.id /\ w.how = Latest.how /\ w.end = t
        BY <1>3, <1>13, <4>2, <4>3 DEF WireType
      <4> QED BY <3>1, <4>1, <4>4
    <3>2. CASE j.act # "done"
      BY <1>3, <1>13, <2>3, <3>2
    <3> QED BY <3>1, <3>2
  <2>5. wire' = [wire EXCEPT ![Len(wire)] = w]
    <3>1. CASE j.act = "done"
      BY <1>12, <2>2, <2>3, <3>1 DEF Latest
    <3>2. CASE j.act # "done"
      <4>1. wire' = wire
        BY <1>12, <2>2, <3>2
      <4>2. wire \in Seq(WireType) /\ Len(wire) \in 1..Len(wire)
        BY <1>3, <1>13 DEF Inv, Types
      <4> QED BY <2>4, <3>2, <4>1, <4>2 DEF Latest
    <3> QED BY <3>1, <3>2
  <2>6. Fits(k, w, script[j.id])
    <3>1. Fits(j, Latest, script[j.id])
      BY <1>3, <1>13 DEF Started
    <3> QED BY <1>10, <2>1, <2>4, <3>1 DEF Fits
  <2>7. Started(k, w, script[k.id])
    BY <1>8, <1>10, <2>1, <2>6 DEF Started
  <2> QED BY <1>1, <1>2, <1>3, <1>6, <1>7, <1>10, <1>12, <1>13, <2>4, <2>5, <2>7, SendKeeps
<1>14. CASE ~Begun
  <2>1. /\ j.act \in {"buf", "data", "chunk"} /\ j.buf.t = "head"
        /\ Fits(j, Opening(j), script[j.id])
    BY <1>1, <1>2, <1>3, <1>14 DEF Unsent
  <2>2. PICK w : w = Opening(j)
    OBVIOUS
  <2>3. w \in WireType /\ w.id = j.id
    <3>1. PICK f, p : f = FALSE /\ p = (j.item.of = "pt")
      OBVIOUS
    <3>2. f \in BOOLEAN /\ p \in BOOLEAN
      BY <3>1
    <3>3. w = [id |-> j.id, how |-> j.buf.how, n |-> j.buf.n, body |-> j.buf.body,
               end |-> f, pt |-> p]
      BY <2>2, <3>1 DEF Opening
    <3>4. j.buf.how \in Ways /\ j.buf.n \in Int /\ j.buf.body \in Int
      BY <1>4 DEF BufType
    <3> QED BY <1>4, <3>2, <3>3, <3>4 DEF WireType
  <2>4. Fits(k, w, script[j.id])
    BY <1>10, <2>1, <2>2, SameFit
  <2>5. Started(k, w, script[k.id])
    BY <1>8, <1>10, <2>1, <2>4 DEF Started
  <2>6. wire' = Append(wire, w)
    BY <1>12, <2>1, <2>2
  <2> QED BY <1>1, <1>2, <1>3, <1>6, <1>7, <1>10, <1>12, <1>14, <2>3, <2>5, <2>6, SendKeeps
<1> QED BY <1>13, <1>14

\* A job that sends nothing at the moment and is not at its start has begun.
LEMMA ActiveBegun ==
  ASSUME Inv, NEW A, Active(A), "start" \notin A, "maint" \notin A
  PROVE  open /\ jobs # <<>> /\ Begun
<1>1. open /\ jobs # <<>> /\ jobs[1].act \in A /\ jobs[1].buf = NoBuf
  BY DEF Active
<1>2. ~Begun => Unsent(jobs[1], script[jobs[1].id])
  BY <1>1, FirstFacts
<1> QED BY <1>1, <1>2, BufFacts DEF Unsent

\* R_DONE: the job leaves the queue, or the connection ends.
LEMMA DoneKeeps ==
  ASSUME Inv, open, Begun, Done, Safe(Latest, script[Latest.id])
  PROVE  Inv'
<1>1. jobs # <<>>
  BY DEF Begun
<1>2. CASE Keeps(jobs[1])
  <2>1. /\ jobs' = Tail(jobs) /\ lg' = LogDataCounts(lg, jobs[1])
        /\ UNCHANGED <<script, opt, got, half, known, open, wire, sent>>
    BY <1>2 DEF Done
  <2>2. jobs[1] \in JobType /\ Latest \in WireType /\ sent \in [Names -> Nat]
        /\ wire \in Seq(WireType) /\ Len(wire) \in 1..Len(wire)
    BY <1>1, FirstFacts DEF Inv, Types
  <2>3. wire' = [wire EXCEPT ![Len(wire)] = Latest]
    BY <2>1, <2>2 DEF Latest
  <2>4. \A f \in Names : sent[f] = Total(lg, f) + (IF jobs[1].file = f THEN jobs[1].data ELSE 0)
    BY <1>1 DEF Inv, LogInv, Unreported
  <2>5. PICK s : s = sent
    OBVIOUS
  <2> QED BY <2>1, <2>2, <2>3, <2>4, <2>5, RemovalKeeps
<1>3. CASE ~Keeps(jobs[1])
  BY <1>3, EndKeeps DEF Done, End
<1> QED BY <1>2, <1>3

\* The states of job::SendData in which nothing is left to send.
LEMMA FinishKeeps ==
  ASSUME Inv, Finish
  PROVE  Inv'
<1>1. Active({"buf", "done", "data"}) /\ Done /\ (jobs[1].act = "data" => HeadOnly(jobs[1]))
  BY DEF Finish
<1>2. open /\ jobs # <<>> /\ Begun
  BY <1>1, ActiveBegun
<1>3. jobs[1].act \in {"buf", "done", "data"} /\ jobs[1].buf = NoBuf
  BY <1>1 DEF Active
<1>4. Started(jobs[1], Latest, script[jobs[1].id]) /\ Latest.id = jobs[1].id
  BY <1>2, FirstFacts
<1>5. Safe(Latest, script[Latest.id])
  <2>1. CASE jobs[1].act = "data"
    BY <1>1, <1>4, <2>1 DEF HeadOnly, Safe
  <2>2. CASE jobs[1].act = "buf"
    BY <1>4, <2>2 DEF Started, Fits, Safe, Judged
  <2>3. CASE jobs[1].act = "done"
    BY <1>3, <1>4, <2>3 DEF Started, Fits, Safe, Delimited
  <2> QED BY <1>3, <2>1, <2>2, <2>3
<1> QED BY <1>1, <1>2, <1>5, DoneKeeps

\* The response that a header begins.
LEMMA OpeningFacts ==
  ASSUME NEW j
  PROVE  /\ Opening(j).how = j.buf.how /\ Opening(j).n = j.buf.n /\ Opening(j).body = j.buf.body
         /\ Opening(j).pt = (j.item.of = "pt")
  BY DEF Opening

\* HandleSuddenError: a page as long as nothing was sent, else the end.
LEMMA SuddenKeeps ==
  ASSUME Inv, Sudden
  PROVE  Inv'
<1>1. /\ open /\ jobs # <<>> /\ jobs[1].buf = NoBuf
      /\ jobs[1].act \in {"start", "data", "chunk"}
  BY DEF Sudden, Active
<1>2. /\ 1 \in 1..Len(jobs) /\ jobs[1] \in JobType /\ ItemInv(jobs[1].item)
      /\ Begun => Started(jobs[1], Latest, script[jobs[1].id])
  BY <1>1, FirstFacts
<1>3. CASE jobs[1].data > 0
  BY <1>1, <1>3, EndKeeps DEF Sudden, End
<1>4. CASE ~(jobs[1].data > 0)
  <2>1. jobs[1].data = 0 /\ ~Begun
    BY <1>2, <1>4 DEF JobType, Started
  <2>2. PICK k : k = [jobs[1] EXCEPT !.act = "buf", !.buf = Page]
    OBVIOUS
  <2>3. /\ k \in JobType /\ k.id = jobs[1].id /\ k.file = jobs[1].file /\ k.data = jobs[1].data
        /\ k.item = jobs[1].item /\ Unsent(k, script[k.id])
    BY <1>2, <2>1, <2>2, PageFacts
  <2>4. /\ jobs' = [jobs EXCEPT ![1] = k]
        /\ UNCHANGED <<script, opt, got, half, known, open, lg, wire, sent>>
    BY <1>4, <2>2 DEF Sudden, Does
  <2> QED BY <1>1, <1>2, <2>1, <2>3, <2>4, ChangeKeeps
<1> QED BY <1>3, <1>4

\* The header that CookResponseHeader makes announces what the job will send.
LEMMA CookedSound ==
  ASSUME NEW j \in JobType, ItemInv(j.item), j.act = "start", Unsent(j, script[j.id])
  PROVE  /\ Cooked(j) \in JobType /\ Cooked(j).id = j.id /\ Cooked(j).file = j.file
         /\ Cooked(j).data = j.data /\ Cooked(j).item = j.item
         /\ Unsent(Cooked(j), script[j.id])
<1> DEFINE r == script[j.id]
           i == j.item
<1>1. /\ j.data = 0 /\ j.pos = 0 /\ j.to = r.to /\ j.from \in Int /\ j.to \in Int
      /\ i \in ItemType /\ i.len \in Int /\ i.size \in Nat
  BY DEF Unsent, JobType, ItemType
<1>2. /\ Page \in BufType /\ Page.t = "head" /\ Page.how = "len" /\ Page.n = 1 /\ Page.body = 1
      /\ \A h \in Ways, n \in Int :
           /\ Announce(h, n) \in BufType /\ Announce(h, n).t = "head" /\ Announce(h, n).how = h
           /\ Announce(h, n).n = n /\ Announce(h, n).body = 0
  BY BufFacts
<1> HIDE DEF r, i
<1>3. ASSUME NEW b \in BufType, NEW a \in Acts
      PROVE  LET k == [j EXCEPT !.buf = b, !.act = a]
             IN  /\ k \in JobType /\ k.id = j.id /\ k.file = j.file /\ k.data = j.data
                 /\ k.item = j.item /\ k.pos = j.pos /\ k.to = j.to /\ k.from = j.from
                 /\ k.keep = j.keep /\ k.buf = b /\ k.act = a
  BY DEF JobType
<1>4. ASSUME NEW k \in JobType, k.data = 0, k.buf.t = "head", k.act = "buf", k.buf.how # "chunked",
             \/ k.buf.how = "len" /\ k.buf.n = k.buf.body
             \/ k.buf.how = "empty" /\ k.buf.body = 0
             \/ k.buf.how = "redir"
      PROVE  Unsent(k, r)
  <2>1. (Opening(k).how # "redir" => Delimited(Opening(k))) /\ Opening(k).how # "chunked"
    BY <1>4, OpeningFacts DEF Delimited
  <2> QED BY <1>4, <2>1 DEF Unsent, Fits
<1>5. ASSUME NEW k \in JobType, k.data = 0, k.buf.t = "head", k.act = "data",
             k.buf.how \in {"len", "open"},
             k.buf.how = "len" /\ Judged(Opening(k), r) => Aimed(k, Opening(k)),
             k.buf.how = "open" => k.keep = "close"
      PROVE  Unsent(k, r)
  BY <1>5, OpeningFacts DEF Unsent, Fits
<1>6. CASE i.raw # "no"
  <2>1. i.of = "pt" /\ i.code = "ok" /\ (i.raw = "len" => i.len >= 0)
    BY <1>6 DEF ItemInv, i
  <2>2. PICK b : b = IF i.raw = "len" THEN Announce("len", i.len) ELSE Announce("open", 0)
    OBVIOUS
  <2>3. PICK a : a = "data"
    OBVIOUS
  <2>4. /\ b \in BufType /\ a \in Acts /\ b.t = "head" /\ b.body = 0
        /\ b.how = (IF i.raw = "len" THEN "len" ELSE "open")
        /\ i.raw = "len" => b.n = i.len
    BY <1>1, <1>2, <2>2, <2>3 DEF Acts, Ways
  <2>5. PICK m : m = [j EXCEPT !.buf = b, !.act = a]
    OBVIOUS
  <2>6. /\ m \in JobType /\ m.id = j.id /\ m.file = j.file /\ m.data = j.data
        /\ m.item = j.item /\ m.pos = j.pos /\ m.to = j.to /\ m.buf = b /\ m.act = a
        /\ m.keep \in {"close", "keep", "any"}
    BY <1>3, <2>4, <2>5 DEF JobType
  <2>7. PICK p : p = IF i.raw \in {"chunked", "close"} THEN "close" ELSE m.keep
    OBVIOUS
  <2>8. p \in {"close", "keep", "any"}
    BY <2>6, <2>7
  <2>9. PICK k : k = [m EXCEPT !.keep = p]
    OBVIOUS
  <2>10. /\ k \in JobType /\ k.id = j.id /\ k.file = j.file /\ k.data = j.data
         /\ k.item = j.item /\ k.pos = j.pos /\ k.to = j.to /\ k.buf = b /\ k.act = a
         /\ k.keep = p
    BY <2>6, <2>8, <2>9 DEF JobType
  <2>11. Cooked(j) = k
    BY <1>6, <2>2, <2>3, <2>5, <2>7, <2>9 DEF Cooked, i
  <2>12. ASSUME b.how = "len", Judged(Opening(k), r) PROVE Aimed(k, Opening(k))
    <3>1. i.raw = "len"
      BY <2>4, <2>12
    <3>2. ~(r.to >= 0)
      BY <2>1, <2>10, <2>12, OpeningFacts DEF Judged, i
    <3>3. Goal(k) = i.len
      BY <1>1, <2>10, <3>2 DEF Goal, i
    <3>4. Opening(k).n = i.len /\ Opening(k).body = 0
      BY <2>4, <2>10, <3>1, OpeningFacts
    <3> QED BY <1>1, <2>1, <2>10, <3>1, <3>3, <3>4 DEF Aimed, i
  <2>14. b.how = "open" => k.keep = "close"
    BY <1>1, <1>6, <2>4, <2>7, <2>10 DEF ItemType
  <2>13. Unsent(k, r)
    BY <1>1, <1>5, <2>3, <2>4, <2>10, <2>12, <2>14
  <2> QED BY <2>10, <2>11, <2>13 DEF r
<1>7. CASE i.raw = "no" /\ (i.code # "ok" \/ r.ims \/ (~Chunked(j) /\ BadRange(j)))
  <2>1. i.code \in {"ok", "redir", "nobody", "other"}
    BY <1>1 DEF ItemType
  <2>2. PICK b : b = IF i.code = "redir" THEN Announce("redir", 0)
                     ELSE IF i.code = "nobody" THEN Announce("empty", 0)
                     ELSE IF i.code = "other" THEN Page
                     ELSE IF r.ims THEN Announce("empty", 0)
                     ELSE Page
    OBVIOUS
  <2>3. PICK a : a = "buf"
    OBVIOUS
  <2>4. /\ b \in BufType /\ a \in Acts /\ b.t = "head"
        /\ \/ b.how = "len" /\ b.n = b.body
           \/ b.how = "empty" /\ b.body = 0
           \/ b.how = "redir"
    BY <1>2, <2>2, <2>3 DEF Acts, Ways
  <2>5. PICK k : k = [j EXCEPT !.buf = b, !.act = a]
    OBVIOUS
  <2>6. /\ k \in JobType /\ k.id = j.id /\ k.file = j.file /\ k.data = j.data
        /\ k.item = j.item /\ k.buf = b /\ k.act = a
    BY <1>3, <2>4, <2>5
  <2>7. Cooked(j) = k
    <3>1. CASE i.code = "redir"
      BY <1>7, <3>1, <2>2, <2>3, <2>5 DEF Cooked, i
    <3>2. CASE i.code = "nobody"
      BY <1>7, <3>2, <2>2, <2>3, <2>5 DEF Cooked, i
    <3>3. CASE i.code = "other"
      BY <1>7, <3>3, <2>2, <2>3, <2>5 DEF Cooked, i
    <3>4. CASE i.code = "ok"
      BY <1>7, <3>4, <2>2, <2>3, <2>5 DEF Cooked, i, r
    <3> QED BY <2>1, <3>1, <3>2, <3>3, <3>4
  <2>8. Unsent(k, r)
    BY <1>1, <1>4, <2>3, <2>4, <2>6
  <2> QED BY <2>6, <2>7, <2>8 DEF r
<1>8. ASSUME NEW b \in BufType, NEW a \in Acts
      PROVE  LET k == [[j EXCEPT !.buf = b, !.act = a] EXCEPT !.from = 0, !.to = -1]
             IN  /\ k \in JobType /\ k.id = j.id /\ k.file = j.file /\ k.data = j.data
                 /\ k.item = j.item /\ k.pos = j.pos /\ k.to = -1 /\ k.buf = b /\ k.act = a
  <2>1. PICK m : m = [j EXCEPT !.buf = b, !.act = a]
    OBVIOUS
  <2>2. /\ m \in JobType /\ m.id = j.id /\ m.file = j.file /\ m.data = j.data
        /\ m.item = j.item /\ m.pos = j.pos /\ m.buf = b /\ m.act = a
    BY <1>3, <2>1
  <2>3. PICK z, o : z = 0 /\ o = -1
    OBVIOUS
  <2>4. z \in Int /\ o \in Int
    BY <2>3
  <2>5. PICK k : k = [m EXCEPT !.from = z, !.to = o]
    OBVIOUS
  <2>6. /\ k \in JobType /\ k.id = m.id /\ k.file = m.file /\ k.data = m.data
        /\ k.item = m.item /\ k.pos = m.pos /\ k.to = o /\ k.buf = m.buf /\ k.act = m.act
    BY <2>2, <2>4, <2>5 DEF JobType
  <2>7. k = [[j EXCEPT !.buf = b, !.act = a] EXCEPT !.from = 0, !.to = -1]
    BY <2>1, <2>3, <2>5
  <2> QED BY <2>2, <2>3, <2>6, <2>7
<1>9. CASE i.raw = "no" /\ i.code = "ok" /\ ~r.ims /\ Chunked(j)
  <2>1. PICK b, a : b = Announce("chunked", 0) /\ a = "chunk"
    OBVIOUS
  <2>2. b \in BufType /\ a \in Acts /\ b.t = "head" /\ b.how = "chunked"
    BY <1>2, <2>1 DEF Acts, Ways
  <2>3. PICK k : k = [[j EXCEPT !.buf = b, !.act = a] EXCEPT !.from = 0, !.to = -1]
    OBVIOUS
  <2>4. /\ k \in JobType /\ k.id = j.id /\ k.file = j.file /\ k.data = j.data
        /\ k.item = j.item /\ k.buf = b /\ k.act = a
    BY <1>8, <2>2, <2>3
  <2>5. Cooked(j) = k
    BY <1>9, <2>1, <2>3 DEF Cooked, i, r
  <2>6. Unsent(k, r)
    BY <1>1, <2>1, <2>2, <2>4, OpeningFacts DEF Unsent, Fits
  <2> QED BY <2>4, <2>5, <2>6 DEF r
<1>10. CASE /\ i.raw = "no" /\ i.code = "ok" /\ ~r.ims /\ ~Chunked(j) /\ ~BadRange(j)
            /\ j.from >= 0 /\ i.size > j.from /\ i.len > 0
  <2>1. PICK b, a : b = Announce("len", PartLength(j)) /\ a = "data"
    OBVIOUS
  <2>2. PartLength(j) \in Int
    BY <1>1 DEF PartLength, i
  <2>3. /\ b \in BufType /\ a \in Acts /\ b.t = "head" /\ b.how = "len" /\ b.n = PartLength(j)
        /\ b.body = 0
    BY <1>2, <2>1, <2>2 DEF Acts, Ways
  <2>4. PICK m : m = [j EXCEPT !.buf = b, !.act = a]
    OBVIOUS
  <2>5. /\ m \in JobType /\ m.id = j.id /\ m.file = j.file /\ m.data = j.data
        /\ m.item = j.item /\ m.to = j.to /\ m.buf = b /\ m.act = a
    BY <1>3, <2>3, <2>4
  <2>6. PICK p : p = j.from
    OBVIOUS
  <2>7. p \in Int
    BY <1>1, <2>6
  <2>8. PICK k : k = [m EXCEPT !.pos = p]
    OBVIOUS
  <2>9. /\ k \in JobType /\ k.id = j.id /\ k.file = j.file /\ k.data = j.data
        /\ k.item = j.item /\ k.to = j.to /\ k.buf = b /\ k.act = a /\ k.pos = p
    BY <2>5, <2>7, <2>8 DEF JobType
  <2>10. Cooked(j) = k
    BY <1>10, <2>1, <2>4, <2>6, <2>8 DEF Cooked, i, r
  <2>11. ASSUME Judged(Opening(k), r) PROVE Aimed(k, Opening(k))
    <3>1. Opening(k).n = PartLength(j) /\ Opening(k).body = 0
      BY <2>3, <2>9, OpeningFacts
    <3>2. PartLength(j) >= 0
      BY <2>11, <3>1 DEF Judged
    <3>3. j.to + 1 <= i.len /\ j.from < i.len
      BY <1>1, <1>10 DEF BadRange, i
    <3>4. Goal(k) = PartLength(j) + j.from
      BY <1>1, <2>9 DEF Goal, PartLength, i
    <3>5. Goal(k) <= i.len
      BY <1>1, <2>9, <3>3 DEF Goal, i
    <3> QED BY <1>1, <1>10, <2>2, <2>6, <2>9, <3>1, <3>2, <3>4, <3>5 DEF Aimed, i
  <2>12. Unsent(k, r)
    BY <1>1, <1>5, <2>1, <2>3, <2>9, <2>11
  <2> QED BY <2>9, <2>10, <2>12 DEF r
<1>11. CASE /\ i.raw = "no" /\ i.code = "ok" /\ ~r.ims /\ ~Chunked(j) /\ ~BadRange(j)
            /\ ~(j.from >= 0 /\ i.size > j.from /\ i.len > 0)
  <2>1. PICK b, a : b = Announce("len", i.len) /\ a = "data"
    OBVIOUS
  <2>2. /\ b \in BufType /\ a \in Acts /\ b.t = "head" /\ b.how = "len" /\ b.n = i.len
        /\ b.body = 0
    BY <1>1, <1>2, <2>1 DEF Acts, Ways
  <2>3. PICK k : k = [[j EXCEPT !.buf = b, !.act = a] EXCEPT !.from = 0, !.to = -1]
    OBVIOUS
  <2>4. /\ k \in JobType /\ k.id = j.id /\ k.file = j.file /\ k.data = j.data
        /\ k.item = j.item /\ k.buf = b /\ k.act = a /\ k.pos = j.pos /\ k.to = -1
    BY <1>8, <2>2, <2>3
  <2>5. Cooked(j) = k
    BY <1>11, <2>1, <2>3 DEF Cooked, i, r
  <2>6. ASSUME Judged(Opening(k), r) PROVE Aimed(k, Opening(k))
    <3>1. Opening(k).n = i.len /\ Opening(k).body = 0
      BY <2>2, <2>4, OpeningFacts
    <3>2. Goal(k) = i.len /\ i.len >= 0
      BY <2>4, <2>6, <3>1 DEF Goal, Judged, i
    <3> QED BY <1>1, <1>11, <2>4, <3>1, <3>2 DEF Aimed, i
  <2>7. Unsent(k, r)
    BY <1>1, <1>5, <2>1, <2>2, <2>4, <2>6
  <2> QED BY <2>4, <2>5, <2>7 DEF r
<1> QED BY <1>6, <1>7, <1>9, <1>10, <1>11

\* The header of the response is made.
LEMMA CookKeeps ==
  ASSUME Inv, CookResponseHeader
  PROVE  Inv'
<1>1. open /\ jobs # <<>> /\ jobs[1].act = "start"
  BY DEF CookResponseHeader, Active
<1>2. /\ 1 \in 1..Len(jobs) /\ jobs[1] \in JobType /\ ItemInv(jobs[1].item)
      /\ Begun => Started(jobs[1], Latest, script[jobs[1].id])
      /\ ~Begun => Unsent(jobs[1], script[jobs[1].id])
  BY <1>1, FirstFacts
<1>3. ~Begun
  BY <1>1, <1>2 DEF Started
<1>4. PICK k : k = Cooked(jobs[1])
  OBVIOUS
<1>5. /\ k \in JobType /\ k.id = jobs[1].id /\ k.file = jobs[1].file /\ k.data = jobs[1].data
      /\ k.item = jobs[1].item /\ Unsent(k, script[k.id])
  BY <1>1, <1>2, <1>3, <1>4, CookedSound
<1>6. /\ jobs' = [jobs EXCEPT ![1] = k]
      /\ UNCHANGED <<script, opt, got, half, known, open, lg, wire, sent>>
  BY <1>4 DEF CookResponseHeader, Does
<1> QED BY <1>1, <1>2, <1>3, <1>5, <1>6, ChangeKeeps

\* A job that is n bytes further.
Ahead(j, n) == [j EXCEPT !.pos = @ + n, !.data = @ + n]

\* The bytes that such a job has sent.
LEMMA AheadFacts ==
  ASSUME NEW j \in JobType, NEW n \in Nat
  PROVE  /\ Ahead(j, n) \in JobType /\ Ahead(j, n).id = j.id /\ Ahead(j, n).file = j.file
         /\ Ahead(j, n).item = j.item /\ Ahead(j, n).act = j.act /\ Ahead(j, n).buf = j.buf
         /\ Ahead(j, n).to = j.to /\ Ahead(j, n).pos = j.pos + n
         /\ Ahead(j, n).data = j.data + n /\ Ahead(j, n).keep = j.keep
<1>1. PICK p, d : p = j.pos + n /\ d = j.data + n
  OBVIOUS
<1>2. p \in Int /\ d \in Nat
  BY <1>1 DEF JobType
<1>3. PICK k : k = [j EXCEPT !.pos = p, !.data = d]
  OBVIOUS
<1>4. /\ k \in JobType /\ k.id = j.id /\ k.file = j.file /\ k.item = j.item
      /\ k.act = j.act /\ k.buf = j.buf /\ k.to = j.to /\ k.pos = p /\ k.data = d /\ k.keep = j.keep
  BY <1>2, <1>3 DEF JobType
<1>5. Ahead(j, n) = k
  BY <1>1, <1>3 DEF Ahead
<1> QED BY <1>1, <1>4, <1>5

\* A response with n more bytes.
LEMMA MoreBody ==
  ASSUME NEW w \in WireType, NEW n \in Nat, NEW v, v = [w EXCEPT !.body = @ + n]
  PROVE  /\ v \in WireType /\ v.id = w.id /\ v.how = w.how /\ v.n = w.n /\ v.pt = w.pt
         /\ v.end = w.end /\ v.body = w.body + n
<1>1. PICK b : b = w.body + n
  OBVIOUS
<1>2. b \in Int
  BY <1>1 DEF WireType
<1>3. v = [w EXCEPT !.body = b]
  BY <1>1
<1> QED BY <1>1, <1>2, <1>3 DEF WireType

\* A job that has sent its last piece.
Ended(k) ==
    \/ k.item.st = "done" /\ k.pos = k.item.size
    \/ k.to >= 0 /\ k.pos >= k.to + 1

\* STATE_SEND_DATA: what is sent brings the body nearer to its goal, and the
\* last piece reaches it.
LEMMA SendBodyKeeps ==
  ASSUME Inv, SendBody
  PROVE  Inv'
<1>0. Active({"data"})
  BY DEF SendBody
<1>1. open /\ jobs # <<>> /\ Begun /\ jobs[1].act = "data" /\ jobs[1].buf = NoBuf
  BY <1>0, ActiveBegun DEF Active
<1>2. PICK j : j = jobs[1]
  OBVIOUS
<1>3. /\ jobs \in Seq(JobType) /\ wire \in Seq(WireType) /\ 1 \in 1..Len(jobs)
      /\ j \in JobType /\ ItemInv(j.item) /\ Latest \in WireType /\ Latest.id = j.id
      /\ Started(j, Latest, script[j.id]) /\ Len(wire) \in 1..Len(wire)
  BY <1>1, <1>2, FirstFacts
<1>4. /\ j.pos \in Int /\ j.to \in Int /\ j.item.size \in Nat /\ j.item.len \in Int
      /\ j.data \in Nat /\ j.file \in Names
  BY <1>3 DEF JobType, ItemType
<1>5. PICK n \in 1..Limit(j) :
        /\ IF ~Ended(Ahead(j, n)) THEN open' = open /\ lg' = lg
           ELSE IF Keeps(Ahead(j, n)) THEN open' = open /\ lg' = LogDataCounts(lg, Ahead(j, n))
           ELSE open' = FALSE /\ lg' = Logged(<<Ahead(j, n)>> \o Tail(jobs))
        /\ Sends(j, n, IF ~Ended(Ahead(j, n)) THEN <<Ahead(j, n)>> \o Tail(jobs)
                       ELSE IF Keeps(Ahead(j, n)) THEN Tail(jobs) ELSE <<>>)
  BY <1>2 DEF SendBody, Ended, Ahead
<1>6. PICK k : k = Ahead(j, n)
  OBVIOUS
<1>8. PICK w : w = [Latest EXCEPT !.body = @ + n]
  OBVIOUS
<1>9. /\ n \in Nat /\ n >= 1 /\ n <= j.item.size - j.pos
      /\ j.to >= 0 => n <= j.to + 1 - j.pos
  BY <1>4, <1>5 DEF Limit
<1>10. /\ k \in JobType /\ k.id = j.id /\ k.file = j.file /\ k.item = j.item
       /\ k.act = j.act /\ k.buf = j.buf /\ k.to = j.to /\ k.pos = j.pos + n
       /\ k.data = j.data + n /\ k.keep = j.keep
  BY <1>3, <1>6, <1>9, AheadFacts
<1>11. /\ w \in WireType /\ w.id = Latest.id /\ w.how = Latest.how /\ w.n = Latest.n
       /\ w.pt = Latest.pt /\ w.body = Latest.body + n
  BY <1>3, <1>8, <1>9, MoreBody
<1>12. /\ UNCHANGED <<script, opt, got, half, known>>
       /\ IF ~Ended(k) THEN open' = open /\ lg' = lg
          ELSE IF Keeps(k) THEN open' = open /\ lg' = LogDataCounts(lg, k)
          ELSE open' = FALSE /\ lg' = Logged(<<k>> \o Tail(jobs))
       /\ jobs' = IF ~Ended(k) THEN <<k>> \o Tail(jobs)
                  ELSE IF Keeps(k) THEN Tail(jobs) ELSE <<>>
       /\ wire' = [wire EXCEPT ![Len(wire)].body = @ + n]
       /\ Counted(j.file, n)
  <2>1. UNCHANGED <<script, opt, got, half, known>>
    BY DEF SendBody
  <2> QED BY <1>5, <1>6, <2>1 DEF Sends
<1>13. wire' = [wire EXCEPT ![Len(wire)] = w]
  BY <1>3, <1>8, <1>12 DEF Latest
<1>14. /\ w.how \in {"len", "open"}
       /\ w.how = "len" /\ Judged(w, script[j.id]) => Aimed(k, w)
       /\ w.how = "open" => k.keep = "close"
  <2>1. /\ Latest.how \in {"len", "open"}
        /\ Latest.how = "open" => j.keep = "close"
        /\ Latest.how = "len" /\ Judged(Latest, script[j.id]) => Aimed(j, Latest)
    BY <1>1, <1>2, <1>3 DEF Started, Fits
  <2>2. Judged(w, script[j.id]) => Judged(Latest, script[j.id])
    BY <1>11 DEF Judged
  <2>3. ASSUME Aimed(j, Latest) PROVE Aimed(k, w)
    <3>1. /\ j.item.code = "ok" /\ j.item.len >= 0
          /\ Latest.n - Latest.body = Goal(j) - j.pos /\ Goal(j) <= j.item.len
      BY <2>3 DEF Aimed
    <3>2. Goal(k) = Goal(j) /\ Goal(j) \in Int
      BY <1>4, <1>10 DEF Goal
    <3>3. Latest.n \in Int /\ Latest.body \in Int
      BY <1>3 DEF WireType
    <3>4. j.item.size <= j.item.len
      BY <1>3, <3>1 DEF ItemInv
    <3>5. j.pos + n <= Goal(j)
      BY <1>4, <1>9, <3>4 DEF Goal
    <3> QED BY <1>4, <1>9, <1>10, <1>11, <3>1, <3>2, <3>3, <3>5 DEF Aimed
  <2>4. w.how = "open" => k.keep = "close"
    BY <1>10, <1>11, <2>1
  <2>5. w.how = "len" /\ Judged(w, script[j.id]) => Aimed(k, w)
    BY <1>11, <2>1, <2>2, <2>3
  <2> QED BY <1>11, <2>1, <2>4, <2>5
<1>15. CASE ~Ended(k)
  <2>1. jobs' = [jobs EXCEPT ![1] = k]
    BY <1>1, <1>3, <1>10, <1>12, <1>15, FrontFacts
  <2>2. Started(k, w, script[k.id])
    <3>1. k.data > 0
      BY <1>4, <1>9, <1>10
    <3>2. k.act = "data" /\ k.buf = NoBuf
      BY <1>1, <1>2, <1>10
    <3>3. Fits(k, w, script[k.id])
      BY <1>10, <1>14, <3>2 DEF Fits
    <3> QED BY <3>1, <3>2, <3>3 DEF Started
  <2>3. UNCHANGED <<open, lg>>
    BY <1>12, <1>15
  <2>4. k.id = jobs[1].id /\ k.file = jobs[1].file /\ k.data = jobs[1].data + n /\ w.id = k.id
    BY <1>2, <1>3, <1>10, <1>11
  <2>5. Counted(k.file, n) /\ ItemInv(k.item)
    BY <1>3, <1>10, <1>12
  <2> QED BY <1>1, <1>9, <1>10, <1>11, <1>12, <1>13, <2>1, <2>2, <2>3, <2>4, <2>5, SendKeeps
<1>16. CASE Ended(k) /\ Keeps(k)
  <2>1. jobs' = Tail(jobs) /\ lg' = LogDataCounts(lg, k) /\ open' = open
    BY <1>12, <1>16
  <2>2. Safe(w, script[w.id])
    <3>1. ASSUME w.how = "len", Judged(w, script[j.id]) PROVE w.body = w.n
      <4>1. /\ k.item.code = "ok" /\ k.item.len >= 0 /\ w.n - w.body = Goal(k) - k.pos
            /\ k.pos <= Goal(k) /\ Goal(k) <= k.item.len
        BY <1>14, <3>1 DEF Aimed
      <4>2. k.item.st = "done" => k.item.size = k.item.len
        BY <1>3, <1>10, <4>1 DEF ItemInv
      <4>3. k.pos = Goal(k)
        BY <1>4, <1>9, <1>10, <1>16, <4>1, <4>2 DEF Goal, Ended
      <4>4. w.n \in Int /\ w.body \in Int /\ k.pos \in Int
        BY <1>10, <1>11 DEF WireType, JobType
      <4> QED BY <4>1, <4>3, <4>4
    <3>2. w.how = "len"
      BY <1>14, <1>16 DEF Keeps
    <3> QED BY <1>3, <1>11, <3>1, <3>2 DEF Safe, Delimited
  <2>3. /\ sent' \in [Names -> Nat]
        /\ \A f \in Names : sent'[f] = Total(lg, f) + (IF k.file = f THEN k.data ELSE 0)
    BY <1>1, <1>2, <1>9, <1>10, <1>12, CountedTotal
  <2>4. PICK s : s = sent'
    OBVIOUS
  <2> QED BY <1>1, <1>2, <1>10, <1>11, <1>12, <1>13, <2>1, <2>2, <2>3, <2>4, RemovalKeeps
<1>17. CASE Ended(k) /\ ~Keeps(k)
  <2>1. jobs' = <<>> /\ lg' = Logged(<<k>> \o Tail(jobs)) /\ open' = FALSE
    BY <1>12, <1>17
  <2> QED BY <1>1, <1>2, <1>9, <1>10, <1>11, <1>12, <1>13, <2>1, CloseKeeps
<1> QED BY <1>15, <1>16, <1>17

\* STATE_SEND_CHUNK_HEADER: a mark, or the last chunk.
LEMMA ChunkHeaderKeeps ==
  ASSUME Inv, ChunkHeader
  PROVE  Inv'
<1>0. Active({"chunk"})
  BY DEF ChunkHeader
<1>1. open /\ jobs # <<>> /\ Begun /\ jobs[1].act = "chunk" /\ jobs[1].buf = NoBuf
  BY <1>0, ActiveBegun DEF Active
<1>2. PICK j : j = jobs[1]
  OBVIOUS
<1>3. /\ 1 \in 1..Len(jobs) /\ j \in JobType /\ ItemInv(j.item)
      /\ Started(j, Latest, script[j.id])
  BY <1>1, <1>2, FirstFacts
<1>4. PICK last \in BOOLEAN : last = (j.item.st = "done" /\ j.pos = j.item.size)
  OBVIOUS
<1>5. PICK a, c, b : /\ a = IF last THEN "done" ELSE "chunkdata"
                     /\ c = IF last THEN j.chunk ELSE j.item.size
                     /\ b = IF last THEN Sign("last") ELSE Sign("mark")
  OBVIOUS
<1>6. a \in Acts /\ c \in Int /\ b \in BufType
  <2>1. c \in Int
    BY <1>3, <1>5 DEF JobType, ItemType
  <2> QED BY <1>5, <2>1, BufFacts DEF Acts
<1>7. PICK k : k = [j EXCEPT !.act = a, !.chunk = c, !.buf = b]
  OBVIOUS
<1>8. /\ k \in JobType /\ k.id = j.id /\ k.file = j.file /\ k.item = j.item
      /\ k.data = j.data /\ k.act = a /\ k.buf = b
  BY <1>3, <1>6, <1>7 DEF JobType
<1>9. /\ jobs' = [jobs EXCEPT ![1] = k]
      /\ UNCHANGED <<script, opt, got, half, known, open, lg, wire, sent>>
  <2>1. CASE last
    <3>1. Does([j EXCEPT !.act = "done", !.buf = [NoBuf EXCEPT !.t = "last"]])
          /\ UNCHANGED <<wire, sent>>
      BY <1>2, <1>4, <2>1 DEF ChunkHeader
    <3>2. [j EXCEPT !.act = "done", !.buf = [NoBuf EXCEPT !.t = "last"]] = k
      <4>1. b = [NoBuf EXCEPT !.t = "last"] /\ a = "done" /\ c = j.chunk
        BY <1>5, <2>1 DEF Sign
      <4>2. [j EXCEPT !.act = a, !.buf = b] = [j EXCEPT !.act = a, !.chunk = j.chunk, !.buf = b]
        BY <1>3 DEF JobType
      <4> QED BY <1>7, <4>1, <4>2
    <3> QED BY <3>1, <3>2 DEF Does
  <2>2. CASE ~last
    <3>1. Does([j EXCEPT !.act = "chunkdata", !.chunk = j.item.size,
                         !.buf = [NoBuf EXCEPT !.t = "mark"]])
          /\ UNCHANGED <<wire, sent>>
      BY <1>2, <1>4, <2>2 DEF ChunkHeader
    <3>2. [j EXCEPT !.act = "chunkdata", !.chunk = j.item.size,
                    !.buf = [NoBuf EXCEPT !.t = "mark"]] = k
      BY <1>5, <1>7, <2>2 DEF Sign
    <3> QED BY <3>1, <3>2 DEF Does
  <2> QED BY <2>1, <2>2
<1>10. Started(k, Latest, script[k.id])
  <2>1. j.data > 0 /\ Latest.how = "chunked"
    BY <1>1, <1>2, <1>3 DEF Started, Fits
  <2>2. /\ k.act \in {"done", "chunkdata"} /\ (k.act = "done" => k.buf = Sign("last"))
        /\ (k.act = "chunkdata" => k.buf = Sign("mark"))
    BY <1>5, <1>8
  <2>3. Sign("last") # NoBuf
    BY BufFacts
  <2>4. Fits(k, Latest, script[k.id])
    BY <2>1, <2>2, <2>3 DEF Fits
  <2> QED BY <1>8, <2>1, <2>2, <2>4 DEF Started
<1> QED BY <1>1, <1>2, <1>3, <1>8, <1>9, <1>10, ChangeKeeps

\* STATE_SEND_CHUNK_DATA: a part of the chunk.
LEMMA ChunkDataKeeps ==
  ASSUME Inv, ChunkData
  PROVE  Inv'
<1>0. Active({"chunkdata"})
  BY DEF ChunkData
<1>1. open /\ jobs # <<>> /\ Begun /\ jobs[1].act = "chunkdata" /\ jobs[1].buf = NoBuf
  BY <1>0, ActiveBegun DEF Active
<1>2. PICK j : j = jobs[1]
  OBVIOUS
<1>3. /\ 1 \in 1..Len(jobs) /\ j \in JobType /\ ItemInv(j.item) /\ Latest \in WireType
      /\ Latest.id = j.id /\ Started(j, Latest, script[j.id])
      /\ wire \in Seq(WireType) /\ Len(wire) \in 1..Len(wire)
  BY <1>1, <1>2, FirstFacts
<1>4. PICK n \in (IF j.chunk = j.pos THEN {0} ELSE 1..(j.chunk - j.pos)) :
        Sends(j, n, [jobs EXCEPT ![1] =
               IF Ahead(j, n).pos = Ahead(j, n).chunk
                 THEN [Ahead(j, n) EXCEPT !.act = "chunk", !.buf = [NoBuf EXCEPT !.t = "mark"]]
                 ELSE Ahead(j, n)])
  BY <1>2 DEF ChunkData, Ahead
<1>5. n \in Nat /\ j.data \in Nat
  BY <1>3, <1>4 DEF JobType
<1>6. PICK k : k = Ahead(j, n)
  OBVIOUS
<1>7. /\ k \in JobType /\ k.id = j.id /\ k.file = j.file /\ k.item = j.item
      /\ k.act = j.act /\ k.buf = j.buf /\ k.data = j.data + n
  BY <1>3, <1>5, <1>6, AheadFacts
<1>8. PICK w : w = [Latest EXCEPT !.body = @ + n]
  OBVIOUS
<1>9. w \in WireType /\ w.id = Latest.id /\ w.how = Latest.how
  BY <1>3, <1>5, <1>8, MoreBody
<1>10. PICK a, b : a = "chunk" /\ b = Sign("mark")
  OBVIOUS
<1>11. a \in Acts /\ b \in BufType
  BY <1>10, BufFacts DEF Acts
<1>12. PICK c : c = [k EXCEPT !.act = a, !.buf = b]
  OBVIOUS
<1>13. /\ c \in JobType /\ c.id = k.id /\ c.file = k.file /\ c.item = k.item
       /\ c.act = a /\ c.buf = b /\ c.data = k.data
  BY <1>7, <1>11, <1>12 DEF JobType
<1>14. PICK m : m = IF k.pos = k.chunk THEN c ELSE k
  OBVIOUS
<1>15. /\ m \in JobType /\ m.id = j.id /\ m.file = j.file /\ m.item = j.item
       /\ m.data = j.data + n
       /\ (m.act = "chunk" /\ m.buf = Sign("mark")) \/ (m.act = "chunkdata" /\ m.buf = NoBuf)
  BY <1>1, <1>2, <1>7, <1>10, <1>13, <1>14
<1>16. /\ jobs' = [jobs EXCEPT ![1] = m]
       /\ wire' = [wire EXCEPT ![Len(wire)].body = @ + n] /\ Counted(j.file, n)
       /\ UNCHANGED <<script, opt, got, half, known, open, lg>>
  <2>1. c = [k EXCEPT !.act = "chunk", !.buf = [NoBuf EXCEPT !.t = "mark"]]
    BY <1>10, <1>12 DEF Sign
  <2>2. UNCHANGED <<script, opt, got, half, known, open, lg>>
    BY DEF ChunkData
  <2> QED BY <1>4, <1>6, <1>14, <2>1, <2>2 DEF Sends
<1>17. wire' = [wire EXCEPT ![Len(wire)] = w]
  BY <1>3, <1>8, <1>16 DEF Latest
<1>18. Started(m, w, script[m.id])
  <2>1. j.data > 0 /\ w.how = "chunked"
    BY <1>1, <1>2, <1>3, <1>9 DEF Started, Fits
  <2>2. m.data > 0
    BY <1>5, <1>15, <2>1
  <2>3. Fits(m, w, script[m.id])
    BY <1>15, <2>1 DEF Fits
  <2> QED BY <1>15, <2>2, <2>3 DEF Started
<1> QED BY <1>1, <1>2, <1>3, <1>5, <1>9, <1>15, <1>16, <1>17, <1>18, SendKeeps

-----------------------------------------------------------------------------
(* Theorems                                                                *)

\* A new connection has sent nothing.
LEMMA InitInv == Init => Inv
<1> SUFFICES ASSUME Init PROVE Inv
  OBVIOUS
<1>1. PICK s \in Starts : script = s.script /\ opt = s.opt
  BY DEF Init
<1>2. script \in Seq(Request) /\ Len(script) \in Nat /\ opt.wrapper \in BOOLEAN
  BY <1>1, StartsAssumption DEF Option
<1>3. lg \in LogType /\ lg.file = NoFile /\ lg.out = 0 /\ \A f \in Names : lg.done[f] = 0
  BY DEF Init, LogType, Names
<1>4. sent \in [Names -> Nat] /\ \A f \in Names : sent[f] = 0
  BY DEF Init
<1>5. Types
  <2>1. half \in BOOLEAN /\ known \in BOOLEAN /\ open \in BOOLEAN
    BY <1>2 DEF Init
  <2>2. got \in 0..Len(script) /\ jobs \in Seq(JobType) /\ wire \in Seq(WireType)
    BY <1>2 DEF Init
  <2> QED BY <1>2, <1>3, <1>4, <2>1, <2>2 DEF Types
<1>6. JobsInv /\ WireInv
  BY DEF Init, JobsInv, WireInv, Answered
<1>7. FrontInv
  BY DEF Init, FrontInv, Begun
<1>8. LogInv
  <2>1. \A f \in Names : Total(lg, f) = 0 /\ Unreported(f) = 0
    BY <1>3 DEF Init, Total, Unreported
  <2> QED BY <1>4, <2>1 DEF Init, LogInv
<1> QED BY <1>5, <1>6, <1>7, <1>8 DEF Inv

\* Every step keeps the invariant.
LEMMA NextKeeps == Inv /\ [Next]_vars => Inv'
<1> SUFFICES ASSUME Inv, [Next]_vars PROVE Inv'
  OBVIOUS
<1>1. CASE Part \/ Leave \/ Identify \/ ReceiveBad \/ Gone
  BY <1>1, RequestsKeep
<1>2. CASE Receive
  BY <1>2, ReceiveKeeps
<1>3. CASE \E k \in 1..MaxRequests : ItemStep(k)
  BY <1>3, ItemStepKeeps
<1>4. CASE Flush
  BY <1>4, FlushKeeps
<1>5. CASE CookResponseHeader
  BY <1>5, CookKeeps
<1>6. CASE Sudden
  BY <1>6, SuddenKeeps
<1>7. CASE Finish
  BY <1>7, FinishKeeps
<1>8. CASE SendBody
  BY <1>8, SendBodyKeeps
<1>9. CASE NoBody
  <2>1. open /\ End
    BY <1>9 DEF NoBody, Active
  <2> QED BY <2>1, EndKeeps DEF End
<1>13. CASE MaintWork
  BY <1>13, MaintWorkKeeps
<1>10. CASE ChunkHeader
  BY <1>10, ChunkHeaderKeeps
<1>11. CASE ChunkData
  BY <1>11, ChunkDataKeeps
<1>12. CASE UNCHANGED vars
  <2>1. UNCHANGED <<script, opt, got, half, known, open, jobs, wire, lg, sent>>
    BY <1>12 DEF vars
  <2>2. Types'
    BY <2>1 DEF Inv, Types
  <2>3. Answered' = Answered /\ Latest' = Latest /\ (Begun' <=> Begun)
    BY <2>1 DEF Answered, Latest, Begun
  <2>4. JobsInv' /\ WireInv' /\ FrontInv' /\ LogInv'
    BY <2>1, <2>3 DEF Inv, JobsInv, WireInv, FrontInv, LogInv, Unreported
  <2> QED BY <2>2, <2>4 DEF Inv
<1> QED BY <1>1, <1>2, <1>3, <1>4, <1>5, <1>6, <1>7, <1>8, <1>9, <1>10, <1>11, <1>12, <1>13
     DEF Next, SendData

\* The inductive invariant of a connection.
THEOREM InvHolds == Spec => []Inv
<1>1. Init => Inv
  BY InitInv
<1>2. Inv /\ [Next]_vars => Inv'
  BY NextKeeps
<1> QED BY <1>1, <1>2, PTL DEF Spec

\* A reply past the queue answers a request behind all those of the stream, and
\* it ends the connection.
PastInv == past # 0 => ~open /\ (wire # <<>> => Latest.id < past)

\* No response belongs to a request that was not received.
LEMMA LatestReceived ==
  ASSUME Inv, open, wire # <<>>
  PROVE  Latest.id <= got /\ Latest.id \in Nat /\ got \in Nat
<1>1. /\ jobs \in Seq(JobType) /\ got \in Nat /\ wire \in Seq(WireType)
      /\ script \in Seq(Request)
  BY DEF Inv, Types
<1>2. Len(wire) \in 1..Len(wire) /\ Len(jobs) \in Nat /\ Len(script) \in Nat
  BY <1>1
<1>3. Latest.id \in Nat
  BY <1>2 DEF Inv, WireInv, Latest
<1>4. CASE Begun
  BY <1>1, <1>2, <1>3, <1>4 DEF Begun, Answered
<1>5. CASE ~Begun
  BY <1>1, <1>2, <1>3, <1>5 DEF Inv, FrontInv, Answered
<1> QED BY <1>1, <1>3, <1>4, <1>5

\* con::WorkLoop returns after it has written such a reply.
LEMMA PastKeeps == Inv /\ PastInv /\ [Next]_vars => PastInv'
<1> SUFFICES ASSUME Inv, PastInv, [Next]_vars PROVE PastInv'
  OBVIOUS
<1>1. CASE Leave
  <2>1. open /\ wire' = wire /\ open' = FALSE /\ past' \in {0, got + 1}
    BY <1>1 DEF Leave, Take, Returns
  <2> QED BY <2>1, LatestReceived DEF PastInv, Latest
<1>2. CASE UNCHANGED vars
  BY <1>2 DEF vars, PastInv, Latest
<1>3. CASE Next /\ ~Leave
  <2>1. open /\ past' = past
    <3>1. ASSUME NEW k \in 1..MaxRequests, ItemStep(k) PROVE open /\ past' = past
      BY <3>1 DEF ItemStep
    <3>2. ASSUME SendData PROVE open /\ past' = past
      BY <3>2 DEF SendData, Flush, CookResponseHeader, Sudden, Finish, SendBody, NoBody,
                  ChunkHeader, ChunkData, MaintWork, Active, Does, Done, End
    <3> QED BY <1>3, <3>1, <3>2
         DEF Next, Part, Identify, Receive, ReceiveBad, Gone, Take, End
  <2> QED BY <2>1 DEF PastInv
<1> QED BY <1>1, <1>2, <1>3

\* Whatever clients ask for and however their files arrive, the client can
\* split the stream of the jobs' responses: they come in the order of the
\* requests, and one that is followed by another, a maintenance page included, or
\* that ended on a connection that was kept, is as long as its header said
\* (job::SendData, con::WorkLoop); the exceptions are those of Framed.
THEOREM FramedHolds == Spec => []Framed
<1>1. Inv /\ PastInv => Framed
  <2> SUFFICES ASSUME Inv, PastInv, NEW k \in DOMAIN wire
               PROVE  LET w == wire[k]
                          r == script[w.id]
                          over == \/ k < Len(wire)
                                  \/ open /\ \A i \in DOMAIN jobs : jobs[i].id # w.id
                      IN  /\ k < Len(wire) => wire[k + 1].id = w.id + 1
                          /\ over /\ w.how # "redir" /\ r.meth = "GET"
                             /\ ~(w.pt /\ r.to >= 0) /\ w.n >= 0
                               => Delimited(w)
    BY DEF Framed, Over, PastInv, Latest
  <2>1. /\ k \in 1..Len(wire) /\ Len(wire) \in Nat /\ jobs \in Seq(JobType)
        /\ 1..Len(jobs) = DOMAIN jobs
    BY DEF Inv, Types
  <2>2. CASE k < Len(wire)
    BY <2>1, <2>2 DEF Inv, WireInv, Safe, Judged
  <2>3. CASE k = Len(wire)
    <3>1. wire[k] = Latest /\ wire # <<>>
      BY <2>1, <2>3 DEF Latest
    <3>2. ASSUME open, \A i \in DOMAIN jobs : jobs[i].id # wire[k].id
          PROVE  Safe(wire[k], script[wire[k].id])
      <4>1. ~Begun
        <5> SUFFICES ASSUME Begun PROVE FALSE
          OBVIOUS
        <5>1. 1 \in DOMAIN jobs /\ Latest.id = jobs[1].id
          BY <3>2, FirstFacts, <2>1 DEF Begun
        <5> QED BY <3>1, <3>2, <5>1
      <4> QED BY <3>1, <3>2, <4>1 DEF Inv, FrontInv
    <3> QED BY <2>1, <2>3, <3>2 DEF Safe, Judged
  <2> QED BY <2>1, <2>2, <2>3
<1>2. Init => PastInv
  BY DEF Init, PastInv
<1> QED BY <1>1, <1>2, InvHolds, PastKeeps, PTL DEF Spec

\* When a connection is over, the log has exactly the bytes that SendData sent to
\* the client for each file, those of jobs that were cut off included (con::~con,
\* LogDataCounts, writeAnotherLogRecord).
THEOREM AccountedHolds == Spec => []Accounted
<1>1. Inv => Accounted
  BY DEF Inv, LogInv, Accounted
<1> QED BY <1>1, InvHolds, PTL
=============================================================================
