----------------------------- MODULE ClientConn -----------------------------
(***************************************************************************)
(* One connection of a client (conn.cc) with the jobs of its requests      *)
(* (job.cc): requests arrive in pieces and are queued, the first job of    *)
(* the queue sends its response, and the transferred bytes are accounted.  *)
(* The items behind the jobs progress on their own; how they do so is in   *)
(* ItemTransfer, and only what a job sees of them is kept here: status,    *)
(* size so far, announced length.  A byte stands for a piece of data, and  *)
(* a page of the server's own has one.                                     *)
(***************************************************************************)
EXTENDS Integers, Sequences

CONSTANTS
    Starts,     \* what clients send to which server: Request sequence and Option
    Files,      \* m_sFileLoc: names that the log knows
    NoFile,
    MaxSize,    \* bound: bytes of a file
    MaxRequests,\* bound: requests of a client
    MaxData     \* bound: bytes of a response, which need not end for HEAD

\* kind: what the tests of Prepare make of the URL; cc: Cache-Control; from and
\* to: the range, -1 without one; xorig: X-Original-Source is there; ims:
\* If-Modified-Since is not older than the file.
Request ==
    [meth : {"GET", "HEAD", "POST", "CONNECT", "garbage"},
     kind : {"nasty", "page", "port", "admin", "local", "dir", "file", "unknown",
             "uncached", "uncachedtgt"},
     cc : {"none", "no-cache", "no-store"}, from : -2..MaxSize, to : -2..MaxSize,
     keep : {"close", "keep", "any"}, v11 : BOOLEAN, xorig : BOOLEAN,
     ims : BOOLEAN, file : Files]

Option == [offline : BOOLEAN, degraded : BOOLEAN, managed : BOOLEAN,
           patrace : BOOLEAN, wrapper : BOOLEAN]

ASSUME StartsAssumption ==
    \A s \in Starts : s.script \in Seq(Request) /\ s.opt \in Option /\ Len(s.script) <= MaxRequests
ASSUME FilesAssumption == NoFile \notin Files /\ MaxSize \in Nat \ {0}

VARIABLES
    script, opt,
    got,        \* how many requests were taken from the input buffer
    half,       \* a part of the next one is in the buffer
    known,      \* m_sClientHost is set
    open,       \* WorkLoop runs
    jobs,       \* m_jobs2send
    wire,       \* the responses as the client gets them
    past,       \* the request that was answered past m_jobs2send, or 0
    lg,         \* logFile, fileTransferOut; and the records that were written
    sent        \* history: the bytes sent for each file

vars == <<script, opt, got, half, known, open, jobs, wire, past, lg, sent>>

Names == Files \cup {NoFile}

Init ==
    /\ \E s \in Starts : script = s.script /\ opt = s.opt
    /\ got = 0 /\ half = FALSE /\ open = TRUE
    /\ known = ~opt.wrapper
    /\ jobs = <<>> /\ wire = <<>> /\ past = 0
    /\ lg = [file |-> NoFile, out |-> 0, done |-> [f \in Names |-> 0]]
    /\ sent = [f \in Names |-> 0]

-----------------------------------------------------------------------------
(* Items *)

NoItem == [of |-> "none", st |-> "err", size |-> 0, len |-> -1, code |-> "ok", raw |-> "no",
           cut |-> FALSE]
Fresh(of) == [NoItem EXCEPT !.of = of, !.st = "fresh"]
Whole(of, n) == [NoItem EXCEPT !.of = of, !.st = "done", !.size = n, !.len = n]

\* What Setup may find for a file that the registry has or loads: complete,
\* to be downloaded, or in the hands of the downloader of another client.
SetupItems == {Whole("store", MaxSize), Fresh("store")}
    \cup {[Fresh("store") EXCEPT !.st = "recv", !.size = 1, !.len = n] : n \in {-1, MaxSize}}

\* Headers of responses: the length, the status, and how the raw header of an
\* uncached file tells where the body ends.
Heads(of) ==
    IF of = "pt" THEN {<<0, "ok", "len">>, <<MaxSize, "ok", "len">>,
                       <<-1, "ok", "chunked">>, <<-1, "ok", "close">>}
    ELSE {<<n, "ok", "no">> : n \in {-1, 0, MaxSize}}
         \cup {<<-1, c, "no">> : c \in {"redir", "nobody", "other"}}

\* The file in the cache is shorter than what was checked, and ends where the
\* job has got to: from now on sendfile returns 0.
Shortened(i) ==
    IF i.of \in {"store", "local"} /\ i.size > 0 THEN {[i EXCEPT !.cut = TRUE]} ELSE {}

\* Steps of an item: the header of the response, data, the end, an error.
ItemSteps(i) ==
    Shortened(i) \cup
    IF i.st \in {"done", "err"} THEN {}
    ELSE {[i EXCEPT !.st = "err"]}
      \cup (IF i.st = "fresh" THEN {[i EXCEPT !.st = "head", !.len = h[1], !.code = h[2],
                                          !.raw = h[3]] : h \in Heads(i.of)} ELSE {})
      \cup (IF i.st \in {"head", "recv"} /\ i.code = "ok" /\ i.size < MaxSize /\ i.len # 0
              THEN {[i EXCEPT !.st = "recv", !.size = @ + 1]} ELSE {})
      \cup (IF i.st \in {"head", "recv"} /\ (i.len < 0 \/ i.len = i.size \/ i.code # "ok")
              THEN {[i EXCEPT !.st = "done",
                              !.len = IF @ < 0 /\ i.of = "store" THEN i.size ELSE @]} ELSE {})

ItemStep(k) ==
    /\ open /\ k \in DOMAIN jobs
    /\ \E i \in ItemSteps(jobs[k].item) : jobs' = [jobs EXCEPT ![k].item = i]
    /\ UNCHANGED <<script, opt, got, half, known, open, wire, past, lg, sent>>

-----------------------------------------------------------------------------
(* job::Prepare *)

NoBuf == [t |-> "none", how |-> "empty", n |-> 0, body |-> 0]
Announce(how, n) == [t |-> "head", how |-> how, n |-> n, body |-> 0]

\* SetEarlySimpleResponse, with its page
Page == [t |-> "head", how |-> "len", n |-> 1, body |-> 1]

\* A job that has nothing to send yet.
NewJob(id, f, i) ==
    LET r == script[id]
    IN  [id |-> id, act |-> "start", item |-> i, file |-> f, keep |-> r.keep,
         from |-> r.from, to |-> r.to, pos |-> 0, chunk |-> 0, data |-> 0, buf |-> NoBuf]

Early(id, f) == [NewJob(id, f, NoItem) EXCEPT !.act = "buf", !.buf = Page]
Maint(id) == [NewJob(id, NoFile, NoItem) EXCEPT !.act = "maint"]

\* bPtMode
PtMode(r) ==
    \/ r.kind = "uncached" \/ r.cc = "no-store"
    \/ r.kind = "dir" /\ ~r.xorig

\* PrepareLocalDownload: an error, a redirection to the directory, its listing,
\* or a file.
PrepareLocalDownload(id) ==
    {Early(id, NoFile)}
    \cup {NewJob(id, NoFile, i) :
            i \in {[Whole("gen", 1) EXCEPT !.code = "redir"], Whole("gen", 1),
                   Whole("local", MaxSize)}}

\* Prepare from the point on where the name of the file is known.  The item may
\* be impossible to create; SetupDownloader fails when no thread can be started,
\* which ends the connection (m_badState).
PrepareFile(id) ==
    LET r == script[id]
        f == r.file
        Needs(i) == i.st = "fresh"
        Item(i) == IF PtMode(r) /\ i.st # "done" THEN Fresh("pt") ELSE i
        Queued(i) == IF ~PtMode(r) /\ r.kind = "uncachedtgt" THEN Fresh("pt") ELSE i
    IN  {Early(id, f)}      \* report_badcache, or AddJob has failed
        \cup IF opt.degraded THEN {Early(id, f)}
             ELSE UNION {LET i == Item(s)
                         IN  IF i.st = "done" THEN {NewJob(id, f, i)}
                             ELSE IF opt.offline THEN {Early(id, f)}
                             ELSE IF ~Needs(i) THEN {NewJob(id, f, i)}
                             ELSE IF opt.managed THEN {Early(id, f)}
                             ELSE {NewJob(id, f, Queued(i))}
                         : s \in SetupItems}

\* The tests of Prepare in their order; conn has dealt with other methods.
Prepare(id) ==
    LET r == script[id]
    IN  CASE r.kind = "nasty" -> {Early(id, NoFile)}
          [] r.kind = "page" -> {Maint(id)}
          [] r.kind = "port" -> {Early(id, NoFile)}
          [] r.kind = "admin" -> {Maint(id)}
          [] r.kind = "local" -> PrepareLocalDownload(id)
          [] r.kind = "dir" /\ r.xorig /\ r.cc # "no-cache" -> {Maint(id)}
          [] r.kind = "unknown" /\ ~PtMode(r) /\ r.cc # "no-cache" /\ ~opt.patrace
               -> {Early(id, r.file)}
          [] OTHER -> PrepareFile(id)

-----------------------------------------------------------------------------
(* The end of jobs and of the connection *)

\* LogDataCounts, with writeAnotherLogRecord when the file is another one.
LogDataCounts(l, j) ==
    IF j.file = l.file THEN [l EXCEPT !.out = @ + j.data]
    ELSE [file |-> j.file, out |-> j.data, done |-> [l.done EXCEPT ![l.file] = @ + l.out]]

WriteRecord(l) == [file |-> NoFile, out |-> 0, done |-> [l.done EXCEPT ![l.file] = @ + l.out]]

\* The jobs report one after the other.
Reported(l, js) ==
    LET after[k \in 0..Len(js)] ==
          IF k = 0 THEN l ELSE LogDataCounts(after[k - 1], js[k])
    IN  after[Len(js)]

\* Bug for the mutation check: the last record is written before the jobs that
\* are left have reported their bytes.
LoggedEarly(js) == Reported(WriteRecord(lg), js)

\* ~Impl: the jobs that are left report, then the last record is written.
Logged(js) == WriteRecord(Reported(lg, js))

\* WorkLoop returns.
Returns ==
    /\ open' = FALSE
    /\ lg' = Logged(jobs)
    /\ jobs' = <<>>
    /\ UNCHANGED <<script, opt, got, half, known, sent>>

End == Returns /\ UNCHANGED <<wire, past>>

-----------------------------------------------------------------------------
(* WorkLoop: the requests *)

\* header::Load sees a part of a request only.
Part ==
    /\ open /\ ~half /\ got < Len(script)
    /\ half' = TRUE
    /\ UNCHANGED <<script, opt, got, known, open, jobs, wire, past, lg, sent>>

\* The request at the front of the buffer is complete.
Take(meths) == open /\ got < Len(script) /\ script[got + 1].meth \in meths

\* A request that cannot be parsed, a POST, or a CONNECT.  The redirection of a
\* POST (forwardsoap, for a client that is known), the refusal of a CONNECT and
\* what PassThrough sends until one side closes go to the client at once and
\* unlogged, whatever responses are outstanding; then the connection ends.
Leave ==
    /\ Take({"garbage", "POST", "CONNECT"})
    /\ \/ past' = 0
       \/ /\ script[got + 1].meth = "CONNECT" \/ (script[got + 1].meth = "POST" /\ known)
          /\ past' = got + 1
    /\ Returns
    /\ UNCHANGED wire

\* The wrapper names the client in a request of its own.
Identify ==
    /\ Take({"GET", "HEAD"}) /\ ~known
    /\ IF script[got + 1].xorig
         THEN /\ known' = TRUE /\ got' = got + 1 /\ half' = FALSE
              /\ UNCHANGED <<script, opt, open, jobs, wire, past, lg, sent>>
         ELSE End

Receive ==
    /\ Take({"GET", "HEAD"}) /\ known
    /\ \E j \in Prepare(got + 1) : jobs' = Append(jobs, j)
    /\ got' = got + 1 /\ half' = FALSE
    /\ UNCHANGED <<script, opt, known, open, wire, past, lg, sent>>

\* No thread for a downloader.
ReceiveBad ==
    /\ Take({"GET", "HEAD"}) /\ known
    /\ \E j \in Prepare(got + 1) : j.item.st = "fresh"
    /\ End

\* The client closes or is silent for too long, the server shuts down.
Gone == open /\ End

-----------------------------------------------------------------------------
(* job::SendData *)

HeadOnly(j) == script[j.id].meth = "HEAD"

\* return_stream_ok keeps the connection or not.
Keeps(j) == j.keep = "keep" \/ (j.keep = "any" /\ script[j.id].v11)

\* The first job does a step.
Does(j) ==
    /\ jobs' = [jobs EXCEPT ![1] = j]
    /\ UNCHANGED <<script, opt, got, half, known, open, past, lg>>

Active(acts) == open /\ jobs # <<>> /\ jobs[1].act \in acts /\ jobs[1].buf = NoBuf

\* R_DONE: the job is removed, which reports its bytes.
Done ==
    IF Keeps(jobs[1])
      THEN /\ jobs' = Tail(jobs)
           /\ lg' = LogDataCounts(lg, jobs[1])
           /\ UNCHANGED <<script, opt, got, half, known, open, wire, past, sent>>
      ELSE End

Counted(f, n) == sent' = [sent EXCEPT ![f] = @ + n]

\* m_sendbuf goes out; chunk headers and the like are one byte.
Flush ==
    /\ open /\ jobs # <<>> /\ jobs[1].buf # NoBuf
    /\ LET j == jobs[1]
           b == j.buf
           n == IF b.t = "head" THEN b.body + 1 ELSE 1
       IN  /\ Does([j EXCEPT !.buf = NoBuf, !.data = @ + n])
           /\ Counted(j.file, n)
           /\ wire' = CASE b.t = "head" -> Append(wire, [id |-> j.id, how |-> b.how, n |-> b.n,
                                body |-> b.body, end |-> FALSE, pt |-> j.item.of = "pt"])
                        [] b.t = "last" -> [wire EXCEPT ![Len(wire)].end = TRUE]
                        [] OTHER -> wire

\* AwaitSendableState; it gives up when nothing happens for nettimeout seconds.
Sendable(j) ==
    \/ j.item.st = "done" \/ (j.item.st # "err" /\ j.item.size > j.pos)
    \/ HeadOnly(j) /\ j.item.st \in {"head", "recv"}

\* Bug for the mutation check: a wait without a limit.
AwaitForever(j) == j.item.st = "err"

AwaitFails(j) == ~Sendable(j)

\* HandleSuddenError
Sudden ==
    /\ Active({"start", "data", "chunk"}) /\ AwaitFails(jobs[1])
    /\ IF jobs[1].data > 0 THEN End
       ELSE /\ Does([jobs[1] EXCEPT !.act = "buf", !.buf = Page])
            /\ UNCHANGED <<wire, sent>>

\* CookResponseHeader
Chunked(j) ==
    /\ j.item.len < 0 /\ j.item.st = "recv"
    /\ ~(j.to > 0 /\ j.item.size >= j.to)

BadRange(j) == j.item.len >= 0 /\ (j.from >= j.item.len \/ j.to + 1 > j.item.len)

\* Bug for the mutation check: the end of a range is taken for its length.
PartLengthShort(j) == IF j.to < 0 THEN j.item.len - j.from ELSE j.to - j.from

PartLength(j) == IF j.to < 0 THEN j.item.len - j.from ELSE j.to + 1 - j.from

Cooked(j) ==
    LET i == j.item
        Says(b, act) == [j EXCEPT !.buf = b, !.act = act]
        Full(b, act) == [Says(b, act) EXCEPT !.from = 0, !.to = -1]
    IN  CASE i.raw # "no" ->        \* AddPtHeader
               [Says(IF i.raw = "len" THEN Announce("len", i.len) ELSE Announce("open", 0), "data")
                  EXCEPT !.keep = IF i.raw \in {"chunked", "close"} THEN "close" ELSE @]
          [] i.raw = "no" /\ i.code = "redir" -> Says(Announce("redir", 0), "buf")
          [] i.raw = "no" /\ i.code = "nobody" -> Says(Announce("empty", 0), "buf")
          [] i.raw = "no" /\ i.code = "other" -> Says(Page, "buf")
          [] OTHER ->
               IF script[j.id].ims THEN Says(Announce("empty", 0), "buf")
               ELSE IF Chunked(j) THEN Full(Announce("chunked", 0), "chunk")
               ELSE IF BadRange(j) THEN Says(Page, "buf")
               ELSE IF j.from >= 0 /\ i.size > j.from /\ i.len > 0
                 THEN [Says(Announce("len", PartLength(j)), "data") EXCEPT !.pos = j.from]
               ELSE Full(Announce("len", i.len), "data")

CookResponseHeader ==
    /\ Active({"start"}) /\ Sendable(jobs[1])
    /\ Does(Cooked(jobs[1]))
    /\ UNCHANGED <<wire, sent>>

\* STATE_SEND_BUF_NOT_FITEM, STATE_DONE, and STATE_SEND_DATA without data
Finish ==
    /\ Active({"buf", "done", "data"})
    /\ jobs[1].act = "data" => HeadOnly(jobs[1])
    /\ Done

\* The bytes that may be sent now.
Limit(j) ==
    LET l == j.item.size - j.pos
    IN  IF j.to >= 0 /\ j.to + 1 - j.pos < l THEN j.to + 1 - j.pos ELSE l

Sends(j, n, more) ==
    /\ jobs' = more
    /\ wire' = [wire EXCEPT ![Len(wire)].body = @ + n]
    /\ Counted(j.file, n)

\* STATE_SEND_DATA.  The last piece ends the job in the same call.  When the
\* file has become too short nothing is sent and R_AGAIN is returned for ever.
SendBody ==
    /\ Active({"data"}) /\ ~HeadOnly(jobs[1]) /\ Sendable(jobs[1])
    /\ ~jobs[1].item.cut
    /\ LET j == jobs[1]
       IN  \E n \in 1..Limit(j) :
             LET k == [j EXCEPT !.pos = @ + n, !.data = @ + n]
                 over == \/ k.item.st = "done" /\ k.pos = k.item.size
                         \/ k.to >= 0 /\ k.pos >= k.to + 1
             IN  /\ IF ~over THEN open' = open /\ lg' = lg
                    ELSE IF Keeps(k) THEN open' = open /\ lg' = LogDataCounts(lg, k)
                    ELSE open' = FALSE /\ lg' = Logged(<<k>> \o Tail(jobs))
                 /\ Sends(j, n, IF ~over THEN <<k>> \o Tail(jobs)
                                ELSE IF Keeps(k) THEN Tail(jobs) ELSE <<>>)
    /\ UNCHANGED <<script, opt, got, half, known, past>>

\* Nothing to send, as for a file without content: R_DISCON.
NoBody ==
    /\ Active({"data"}) /\ ~HeadOnly(jobs[1]) /\ Sendable(jobs[1])
    /\ Limit(jobs[1]) <= 0
    /\ End

\* STATE_SEND_CHUNK_HEADER
ChunkHeader ==
    /\ Active({"chunk"}) /\ Sendable(jobs[1]) /\ jobs[1].data < MaxData
    /\ LET j == jobs[1]
       IN  IF j.item.st = "done" /\ j.pos = j.item.size
             THEN Does([j EXCEPT !.act = "done", !.buf = [NoBuf EXCEPT !.t = "last"]])
             ELSE Does([j EXCEPT !.act = "chunkdata", !.chunk = j.item.size,
                                 !.buf = [NoBuf EXCEPT !.t = "mark"]])
    /\ UNCHANGED <<wire, sent>>

\* STATE_SEND_CHUNK_DATA.  A chunk without data is sent for HEAD, which does not
\* wait for data.
ChunkData ==
    /\ Active({"chunkdata"})
    /\ jobs[1].item.cut => jobs[1].chunk = jobs[1].pos
    /\ LET j == jobs[1]
       IN  \E n \in (IF j.chunk = j.pos THEN {0} ELSE 1..(j.chunk - j.pos)) :
             LET k == [j EXCEPT !.pos = @ + n, !.data = @ + n]
             IN  Sends(j, n, [jobs EXCEPT ![1] =
                    IF k.pos = k.chunk
                      THEN [k EXCEPT !.act = "chunk", !.buf = [NoBuf EXCEPT !.t = "mark"]]
                      ELSE k])
    /\ UNCHANGED <<script, opt, got, half, known, open, past, lg>>

\* RunMaintWork sends its page itself, which the log does not know of, and the
\* connection ends, which also ends the page.
MaintWork ==
    /\ Active({"maint"})
    /\ wire' = Append(wire, [id |-> jobs[1].id, how |-> "open", n |-> 0, body |-> 1,
                             end |-> FALSE, pt |-> FALSE])
    /\ Returns
    /\ UNCHANGED past

SendData ==
    \/ Flush \/ CookResponseHeader \/ Sudden \/ Finish
    \/ SendBody \/ NoBody \/ ChunkHeader \/ ChunkData \/ MaintWork

Next ==
    \/ Part \/ Leave \/ Identify \/ Receive \/ ReceiveBad \/ Gone
    \/ SendData
    \/ \E k \in 1..MaxRequests : ItemStep(k)

\* The thread of the connection runs on and the client reads; of the items
\* nothing is expected.
Spec == Init /\ [][Next]_vars /\ WF_vars(SendData)

-----------------------------------------------------------------------------
\* The jobs' states are those of job.h, and positions are within the file.
TypeOK ==
    /\ got \in 0..Len(script) /\ {half, known, open} \subseteq BOOLEAN
    /\ \A k \in DOMAIN jobs :
         /\ jobs[k].act \in {"start", "buf", "data", "chunk", "chunkdata", "done", "maint"}
         /\ jobs[k].pos \in 0..MaxSize
    /\ sent \in [Names -> Nat]

\* Responses the client can tell apart from what follows: the body is as long
\* as the header announced, the last chunk was sent, or there is none.
Delimited(w) ==
    CASE w.how = "len" -> w.body = w.n
      [] w.how = "chunked" -> w.end
      [] w.how = "empty" -> w.body = 0
      [] OTHER -> FALSE

\* A response is over when another one follows or when its job is gone from a
\* connection that is kept.
Over(k) == k < Len(wire) \/ (open /\ \A i \in DOMAIN jobs : jobs[i].id # wire[k].id)

\* The client can split the stream of the jobs' responses: they come in the order
\* of the requests, none is left out, and one that is over is complete; what has
\* no end of its own, such as a maintenance page, is the last.  A reply that is
\* written past the queue (conn.cc:369) may cut the stream off, but is not in the
\* midst of it: nothing follows.  Not covered: redirections, which end without a
\* sign on a connection that is kept (job.cc:1052), the answers to HEAD, a range
\* of an uncached file, and a length that is negative.
Framed ==
    /\ \A k \in DOMAIN wire :
         LET w == wire[k]
             r == script[w.id]
         IN  /\ k < Len(wire) => wire[k + 1].id = w.id + 1
             /\ Over(k) /\ w.how # "redir" /\ r.meth = "GET" /\ ~(w.pt /\ r.to >= 0) /\ w.n >= 0
                  => Delimited(w)
    /\ past # 0 => ~open /\ (wire # <<>> => wire[Len(wire)].id < past)

\* Every byte that the jobs sent to the client is in the log, under the file it
\* belongs to, once the connection is over; jobs that were cut off included.
\* Maintenance pages and replies past the queue are not logged at all.
Accounted == ~open => lg.done = sent

\* A request that was received is answered or the connection ends, even if its
\* item never makes progress, unless the file of the first job has become shorter
\* than it was.  Not covered: requests from HEAD on, since HEAD for a file of
\* unknown length is answered with empty chunks until the file ends.
Served ==
    \A n \in 1..MaxRequests :
        (\E i \in DOMAIN jobs : jobs[i].id = n) /\ (\A m \in 1..n : script[m].meth # "HEAD")
            ~> \/ ~\E i \in DOMAIN jobs : jobs[i].id = n
               \/ jobs # <<>> /\ jobs[1].item.cut
=============================================================================
