----------------------------- MODULE DlPipeline -----------------------------
(***************************************************************************)
(* One downloader thread (CDlConn in dlcon.cc): jobs are handed over to    *)
(* it, their requests are pipelined on one upstream connection, and the    *)
(* responses are matched to the jobs by their order alone.  The module has *)
(* the whole of WorkLoop and ExchangeData, and of ProcessIncomming what    *)
(* decides on framing, redirection and the verdict on a job; what a header *)
(* means for the item is the matter of ItemTransfer.  Jobs for a header    *)
(* only are left out: nothing in the program sets bHeadOnly.               *)
(*                                                                         *)
(* The stream from the server is a sequence of tokens: a header, a piece   *)
(* of a body, the end of a chunked body.  A token says which file it       *)
(* belongs to, which the program cannot see.  A job's URL is the file it   *)
(* points to and a host; jobs are named after the file they are for.       *)
(***************************************************************************)
EXTENDS FileItemStates, Selections

CONSTANTS
    Jobs,         \* the jobs that clients hand over, each for a file of its own
    Hosts,        \* mirrors
    NoHost,       \* a null pointer to a mirror, no connection, no proxy
    Backends,     \* tRepoData::m_backends, a sequence of hosts
    Shared,       \* jobs whose file another client's downloader may fetch, too
    Hinted,       \* jobs whose server sends hints before its answer
    Direct,       \* jobs with a URL of their own (not in backend mode)
    DirectHost,   \* the host of these URLs
    Proxy,        \* cfg::GetProxyInfo(), or NoHost
    NoResume,     \* jobs for volatile files when VfileUseRangeOps is 0
    OptProxy,     \* cfg::optproxytimeout > 0
    PipelineLen,  \* cfg::pipelinelen
    MaxRetry,     \* cfg::dlretriesmax
    RedirMax,     \* cfg::redirmax
    Locations,    \* hosts that servers redirect to; NoHost for a path only
    PipeDisable   \* requests sent one by one after a failed pipeline (30)

ASSUME PipelineAssumption ==
    /\ NoHost \notin Hosts /\ NoHost \notin Jobs
    /\ Backends \in Seq(Hosts) /\ DirectHost \in Hosts
    /\ Proxy \in Hosts \cup {NoHost}
    /\ Locations \subseteq Hosts \cup {NoHost}
    /\ Hinted \subseteq Jobs
    /\ Shared \subseteq Jobs /\ Direct \subseteq Jobs /\ NoResume \subseteq Jobs
    /\ PipelineLen \in Nat /\ MaxRetry \in Nat /\ RedirMax \in Nat
    /\ PipeDisable \in Nat

VARIABLES
    ctrl,         \* m_ctrl_hint, -1 for stop
    lastMark,     \* lastCtrlMark
    wakeup,       \* the event descriptor is readable
    newJobs,      \* m_new_jobs
    nextJobs,     \* next_jobs
    activeJobs,   \* active_jobs, the pipeline
    job,          \* the tDlJob objects
    stat,         \* the status of each job's item
    con,          \* the host of the current connection, or NoHost
    wire,         \* requests the server has to answer, and tokens on their way
    inBuf,        \* m_inBuf
    lastFile,     \* tcpconnect::m_lastFile
    idle,         \* spareConPool: what is outstanding on the idle connection
    blacklist,    \* m_blacklist
    stopReq,      \* bStopRequesting
    expClose,     \* bExpectRemoteClosing
    tolerance,    \* nLostConTolerance
    pipeDisable,  \* m_nTempPipelineDisable
    proxyTot,     \* m_bProxyTot
    pc, loopRes,  \* where WorkLoop is, what ExchangeData returned
    fate,         \* what became of each job
    got,          \* history: the files whose data went into each item
    taint         \* history: known ways to lose the framing that were taken

queues == <<newJobs, nextJobs, activeJobs>>
conVars == <<con, wire, inBuf, lastFile, idle>>
modeVars == <<blacklist, stopReq, expClose, tolerance, pipeDisable, proxyTot>>
vars == <<ctrl, lastMark, wakeup, queues, job, stat, conVars, modeVars, pc,
          loopRes, fate, got, taint>>

Elems(q) == {q[k] : k \in DOMAIN q}

\* A queue after the jobs in js were erased.
Without(q, js) == Retained(q, {k \in DOMAIN q : q[k] \notin js})

-----------------------------------------------------------------------------
(* State *)

\* Tokens of the stream.
Header(kind, of, len, dest) ==
    [k |-> "head", kind |-> kind, of |-> of, len |-> len, dest |-> dest]
Data(of) == [k |-> "data", of |-> of]
LastChunk(of) == [k |-> "last", of |-> of]
Junk == [k |-> "junk"]

Request(f) == [k |-> "request", of |-> f]

\* A response with a status below 200, which comes before the proper one.
Hint(f) == Header("hint", f, 0, NoHost)

NoConn == [live |-> FALSE, out |-> <<>>, last |-> NoHost]

NewJob(j) ==
    [backend |-> j \notin Direct, cur |-> NoHost,
     host |-> IF j \in Direct THEN DirectHost ELSE NoHost,
     file |-> j, redir |-> RedirMax, st |-> "header", rest |-> 0,
     store |-> TRUE, assigned |-> FALSE]

\* GetPeerHost()
PeerHost(jb) == IF jb.cur # NoHost THEN jb.cur ELSE jb.host

Init ==
    /\ ctrl = 0 /\ lastMark = -2 /\ wakeup = FALSE
    /\ newJobs = <<>> /\ nextJobs = <<>> /\ activeJobs = <<>>
    /\ job = [j \in Jobs |-> NewJob(j)]
    /\ stat = [j \in Jobs |-> FIST_INITED]
    /\ con = NoHost /\ wire = <<>> /\ inBuf = <<>> /\ lastFile = NoHost
    /\ idle = [h \in Hosts |-> NoConn]
    /\ blacklist = {} /\ stopReq = FALSE /\ expClose = FALSE
    /\ tolerance = MaxRetry /\ pipeDisable = 0 /\ proxyTot = FALSE
    /\ pc = "top" /\ loopRes = {}
    /\ fate = [j \in Jobs |-> "new"]
    /\ got = [j \in Jobs |-> {}]
    /\ taint = {}

-----------------------------------------------------------------------------
(* The client's side, and the downloaders of other clients                 *)

\* Where WorkLoop looks at m_ctrl_hint, m_new_jobs or the wake event next.
\* What clients do at another place is only seen there.
Watching == pc \in {"top", "select", "wait", "result"}

AddJob(j) ==
    /\ Watching
    /\ ctrl >= 0
    /\ fate[j] = "new"
    /\ newJobs' = Append(newJobs, j)
    /\ ctrl' = ctrl + 1
    /\ wakeup' = TRUE
    /\ fate' = [fate EXCEPT ![j] = "open"]
    /\ UNCHANGED <<lastMark, nextJobs, activeJobs, job, stat, conVars, modeVars,
                   pc, loopRes, got, taint>>

SignalStop ==
    /\ Watching
    /\ ctrl >= 0
    /\ ctrl' = -1
    /\ wakeup' = TRUE
    /\ UNCHANGED <<lastMark, queues, job, stat, conVars, modeVars, pc, loopRes,
                   fate, got, taint>>

\* Another downloader was faster to get an answer for the same item.
OthersTake(j) ==
    /\ j \in Shared
    /\ ~job[j].assigned
    /\ stat[j] <= FIST_DLPENDING
    /\ stat' = [stat EXCEPT ![j] = FIST_DLRECEIVING]
    /\ UNCHANGED <<ctrl, lastMark, wakeup, queues, job, conVars, modeVars, pc,
                   loopRes, fate, got, taint>>

-----------------------------------------------------------------------------
(* WorkLoop up to ExchangeData                                             *)

\* ~tDlJob: the item has lost this downloader.
Gone(jobs, js) == [j \in Jobs |-> IF j \in js THEN NewJob(j) ELSE jobs[j]]

Dropped(js) ==
    /\ fate' = [j \in Jobs |-> IF j \in js THEN "failed" ELSE fate[j]]
    /\ stat' = [j \in Jobs |->
                 IF j \in js /\ stat[j] < FIST_COMPLETE
                    /\ (job[j].assigned \/ stat[j] <= FIST_DLPENDING)
                 THEN FIST_DLERROR ELSE stat[j]]

\* RecycleIdleConnection, as far as one downloader can see it.
Recycled(h) == [idle EXCEPT ![h] = [live |-> TRUE, out |-> wire, last |-> lastFile]]

Return ==
    /\ Dropped(Elems(newJobs) \cup Elems(nextJobs) \cup Elems(activeJobs))
    /\ job' = [j \in Jobs |-> NewJob(j)]
    /\ newJobs' = <<>> /\ nextJobs' = <<>> /\ activeJobs' = <<>>
    /\ con' = NoHost /\ wire' = <<>> /\ inBuf' = <<>> /\ lastFile' = NoHost
    /\ blacklist' = {} /\ stopReq' = FALSE /\ expClose' = FALSE
    /\ tolerance' = 0 /\ pipeDisable' = 0 /\ proxyTot' = FALSE
    /\ wakeup' = FALSE /\ lastMark' = -2
    /\ pc' = "returned" /\ loopRes' = {}

\* An ordered stop: an unused connection is given back.
TopStop ==
    /\ pc = "top"
    /\ ctrl < 0
    /\ activeJobs = <<>>
    /\ Return
    /\ idle' = IF con # NoHost THEN Recycled(con) ELSE idle
    /\ UNCHANGED <<ctrl, got, taint>>

\* next_jobs.splice(next_jobs.begin(), m_new_jobs): new jobs go first.
TakenOver == IF ctrl # lastMark THEN newJobs \o nextJobs ELSE nextJobs

TopSplice ==
    /\ pc = "top"
    /\ ~(ctrl < 0 /\ activeJobs = <<>>)
    /\ lastMark' = ctrl
    /\ nextJobs' = TakenOver
    /\ newJobs' = IF ctrl # lastMark THEN <<>> ELSE newJobs
    /\ pc' = IF nextJobs' = <<>> /\ activeJobs = <<>> THEN "select"
             ELSE IF con = NoHost THEN "connect" ELSE "fill"
    /\ UNCHANGED <<ctrl, wakeup, activeJobs, job, stat, conVars, modeVars,
                   loopRes, fate, got, taint>>

Usable(h) == h # NoHost /\ h \notin blacklist

\* SetupJobConfig: is there a mirror for the job, and which one.
HasMirror(jb) ==
    IF jb.backend THEN \E k \in DOMAIN Backends : Usable(Backends[k])
    ELSE Usable(PeerHost(jb))

FirstUsable ==
    Backends[CHOOSE k \in DOMAIN Backends :
               /\ Usable(Backends[k])
               /\ \A m \in 1..(k - 1) : ~Usable(Backends[m])]

Configured(jb) ==
    IF jb.backend /\ ~Usable(jb.cur) THEN [jb EXCEPT !.cur = FirstUsable] ELSE jb

ResetStreamState(jb) == [jb EXCEPT !.st = "header", !.rest = 0]

\* prefProxy
PrefProxy == IF proxyTot THEN NoHost ELSE Proxy

\* The jobs that are erased, and those that are left with their mirror chosen
\* and their stream state reset.
NoMirror == {j \in Elems(nextJobs) : ~HasMirror(job[j])}

ReadyJobs ==
    [j \in Jobs |-> IF j \in Elems(nextJobs) \ NoMirror
                    THEN ResetStreamState(Configured(job[j])) ELSE NewJob(j)]

\* No connection: what is left of the last one goes, active_jobs included.
ConnectPrepare ==
    /\ pc = "connect"
    /\ nextJobs' \in Without(nextJobs, NoMirror)
    /\ activeJobs' = <<>>
    /\ Dropped(Elems(activeJobs) \cup NoMirror)
    /\ job' = ReadyJobs
    /\ stopReq' = FALSE
    /\ inBuf' = <<>>
    /\ pc' = IF nextJobs' = <<>> THEN "select" ELSE "dial"
    /\ UNCHANGED <<ctrl, lastMark, wakeup, newJobs, con, wire, lastFile, idle,
                   blacklist, expClose, tolerance, pipeDisable, proxyTot,
                   loopRes, got, taint>>

\* Where doconnect() may end up, with the new value of m_bProxyTot: at the
\* proxy, or at the mirror if there is none or an optional one has failed.
Routes ==
    LET peer == PeerHost(job[nextJobs[1]]) IN
    IF PrefProxy = NoHost THEN {<<peer, proxyTot>>}
    ELSE {<<PrefProxy, proxyTot>>} \cup
         (IF OptProxy THEN {<<peer, TRUE>>} ELSE {})

\* The pool has no connection for this host, or somebody else has taken it,
\* or it had expired: nobody else's use of the pool is seen before.
DialFresh ==
    /\ pc = "dial"
    /\ \E r \in Routes :
         /\ idle' = [idle EXCEPT ![r[1]] = NoConn]
         /\ con' = r[1]
         /\ proxyTot' = r[2]
    /\ wire' = <<>> /\ lastFile' = NoHost
    /\ expClose' = FALSE
    /\ pc' = "fill"
    /\ UNCHANGED <<ctrl, lastMark, wakeup, queues, job, stat, inBuf, blacklist,
                   stopReq, tolerance, pipeDisable, loopRes, fate, got, taint>>

\* A connection from the pool.  It is dropped again if it is readable: closed
\* by the peer, or data has arrived that nobody waits for.
DialReuse ==
    /\ pc = "dial"
    /\ \E r \in Routes :
         /\ idle[r[1]] # NoConn
         /\ idle' = [idle EXCEPT ![r[1]] = NoConn]
         /\ proxyTot' = r[2]
         /\ \/ /\ con' = r[1]
               /\ wire' = idle[r[1]].out /\ lastFile' = idle[r[1]].last
               /\ pc' = "fill"
            \/ /\ UNCHANGED <<con, wire, lastFile>>
               /\ pc' = "top"
    /\ expClose' = FALSE
    /\ UNCHANGED <<ctrl, lastMark, wakeup, queues, job, stat, inBuf, blacklist,
                   stopReq, tolerance, pipeDisable, loopRes, fate, got, taint>>

DialFails ==
    /\ pc = "dial"
    /\ idle' = [h \in Hosts |-> IF \E r \in Routes : r[1] = h THEN NoConn
                                ELSE idle[h]]
    /\ blacklist' = blacklist \cup {PeerHost(job[nextJobs[1]])}
    /\ proxyTot' = (proxyTot \/ (PrefProxy # NoHost /\ OptProxy))
    /\ expClose' = FALSE
    /\ pc' = "top"
    /\ UNCHANGED <<ctrl, lastMark, wakeup, queues, job, stat, con, wire, inBuf,
                   lastFile, stopReq, tolerance, pipeDisable, loopRes, fate, got,
                   taint>>

\* The loop that moves jobs into the pipeline.
MayRequest ==
    /\ ~stopReq
    /\ nextJobs # <<>>
    /\ Len(activeJobs) <= PipelineLen

FillDone ==
    /\ pc = "fill"
    /\ ~MayRequest
    /\ pc' = "select"
    /\ UNCHANGED <<ctrl, lastMark, wakeup, queues, job, stat, conVars, modeVars,
                   loopRes, fate, got, taint>>

\* "something weird happened to it, drop it and let the client care"
FillDrop ==
    /\ pc = "fill"
    /\ MayRequest
    /\ ~HasMirror(job[nextJobs[1]])
    /\ nextJobs' = Tail(nextJobs)
    /\ Dropped({nextJobs[1]})
    /\ job' = Gone(job, {nextJobs[1]})
    /\ UNCHANGED <<ctrl, lastMark, wakeup, newJobs, activeJobs, conVars, modeVars,
                   pc, loopRes, got, taint>>

\* The connection leads to the job's host, or to the proxy it would use.
Matches(jb) == con = PeerHost(jb) \/ (PrefProxy # NoHost /\ con = PrefProxy)

FillMismatch ==
    /\ pc = "fill"
    /\ MayRequest
    /\ HasMirror(job[nextJobs[1]])
    /\ ~Matches(Configured(job[nextJobs[1]]))
    /\ job' = [job EXCEPT ![nextJobs[1]] = Configured(@)]
    /\ stopReq' = TRUE
    /\ pc' = "select"
    /\ UNCHANGED <<ctrl, lastMark, wakeup, queues, stat, conVars, blacklist,
                   expClose, tolerance, pipeDisable, proxyTot, loopRes, fate,
                   got, taint>>

\* AppendRequest
Requested(jb) == [jb EXCEPT !.store = TRUE]

\* Bug for the mutation check: the requested job goes to the wrong end.
PipelinedFirst(j) == <<j>> \o activeJobs

\* active_jobs.splice(active_jobs.end(), next_jobs, next_jobs.begin())
Pipelined(j) == Append(activeJobs, j)

FillRequest ==
    LET j == nextJobs[1] IN
    /\ pc = "fill"
    /\ MayRequest
    /\ HasMirror(job[j])
    /\ Matches(Configured(job[j]))
    /\ job' = [job EXCEPT ![j] = Requested(Configured(@))]
    /\ wire' = Append(wire, Request(job[j].file))
    /\ nextJobs' = Tail(nextJobs)
    /\ activeJobs' = Pipelined(j)
    /\ IF pipeDisable > 0
       THEN stopReq' = TRUE /\ pipeDisable' = pipeDisable - 1 /\ pc' = "select"
       ELSE UNCHANGED <<stopReq, pipeDisable, pc>>
    /\ UNCHANGED <<ctrl, lastMark, wakeup, newJobs, stat, con, inBuf, lastFile,
                   idle, blacklist, expClose, tolerance, proxyTot, loopRes,
                   fate, got, taint>>

-----------------------------------------------------------------------------
(* ExchangeData: select                                                    *)

\* What a server may answer to a request for the file f: the file with a
\* length or in chunks, an error with a page, a missing key file, a
\* redirection to another host or path with or without a page, one without a
\* location, a file without a length, a damaged chunk, a header that is not
\* one of a response, or no HTTP at all.
Answers(f) ==
    {<<Header("ok", f, 1, NoHost), Data(f)>>,
     <<Header("chunked", f, 0, NoHost), Data(f), LastChunk(f)>>,
     <<Header("chunked", f, 0, NoHost), Junk>>,
     <<Header("error", f, 1, NoHost), Data(f)>>,
     <<Header("nokey", f, 0, NoHost)>>,
     <<Header("noloc", f, 0, NoHost)>>,
     <<Header("nolen", f, 0, NoHost)>>,
     <<Header("odd", f, 0, NoHost)>>,
     <<Junk>>}
    \cup {<<Header("redirect", f, 0, d)>> : d \in Locations}
    \cup {<<Header("redirect", f, 1, d), Data(f)>> : d \in Locations}

\* The same after a hint, or a hint with the answer still to come.
Replies(f) ==
    Answers(f) \cup
    (IF f \in Hinted
     THEN {<<Hint(f)>> \o a : a \in Answers(f) \cup {<<Request(f)>>}} ELSE {})

\* The thread is in select(): all data in the buffer was processed, or it
\* went there from a hint, whatever was left in the buffer.
InSelect ==
    \/ pc = "select" /\ (inBuf = <<>> \/ activeJobs = <<>>)
    \/ pc = "wait"

\* ExchangeData clears the buffer if nobody waits for an answer.
Kept == IF activeJobs = <<>> THEN <<>> ELSE inBuf

Returned(res) == loopRes' = res /\ pc' = "result"

\* The wake event, or any other when the downloader was told to stop.
SelectWake ==
    /\ InSelect
    /\ wakeup
    /\ wakeup' = FALSE
    /\ inBuf' = Kept
    /\ Returned(IF ctrl < 0 THEN {"NOW"} ELSE {"SWITCH"})
    /\ UNCHANGED <<ctrl, lastMark, queues, job, stat, con, wire, lastFile, idle,
                   modeVars, fate, got, taint>>

SelectTimeout ==
    /\ InSelect
    /\ ~wakeup
    /\ inBuf' = Kept
    /\ Returned(IF activeJobs = <<>> THEN {"SWITCH"} ELSE {"NOW", "JOB_BROKEN"})
    /\ UNCHANGED <<ctrl, lastMark, wakeup, queues, job, stat, con, wire,
                   lastFile, idle, modeVars, fate, got, taint>>

\* The peer has closed the connection, or sending or receiving failed.
SelectLost ==
    /\ InSelect
    /\ ~wakeup
    /\ con # NoHost
    /\ inBuf' = Kept
    /\ Returned({"LOST"})
    /\ UNCHANGED <<ctrl, lastMark, wakeup, queues, job, stat, con, wire,
                   lastFile, idle, modeVars, fate, got, taint>>

\* Data: the first tokens of an answer, or the next one of its rest.
SelectRead ==
    /\ InSelect /\ pc = "select"
    /\ ~wakeup
    /\ con # NoHost
    /\ wire # <<>>
    /\ \E a \in IF wire[1].k = "request" THEN Replies(wire[1].of)
                ELSE {<<wire[1]>>} :
         \E n \in {m \in DOMAIN a : a[m].k # "request"} :
           /\ inBuf' = SubSeq(a, 1, n)
           /\ wire' = SubSeq(a, n + 1, Len(a)) \o Tail(wire)
    /\ IF activeJobs = <<>> THEN Returned({"LOST"}) ELSE UNCHANGED <<loopRes, pc>>
    /\ UNCHANGED <<ctrl, lastMark, wakeup, queues, job, stat, con, lastFile,
                   idle, modeVars, fate, got, taint>>

\* Data while the buffer is not empty: it goes to the buffer's end, which the
\* model leaves for the time when all before it was processed.
SelectMore ==
    /\ pc = "wait"
    /\ ~wakeup
    /\ wire # <<>>
    /\ pc' = "select"
    /\ UNCHANGED <<ctrl, lastMark, wakeup, queues, job, stat, conVars, modeVars,
                   loopRes, fate, got, taint>>

-----------------------------------------------------------------------------
(* ProcessIncomming, for the first job of the pipeline                     *)

Front == activeJobs[1]
Token == inBuf[1]

Processing(st) ==
    /\ pc = "select"
    /\ activeJobs # <<>> /\ inBuf # <<>>
    /\ job[Front].st = st

IsHeader(kinds) == Token.k = "head" /\ Token.kind \in kinds

\* "Connection: close" is noted when the header's branch returns at once.  It
\* makes no difference where the connection is reset anyway.
Soon == SUBSET {"SOON"}

\* Not a header: "can be followed by any junk... drop that mirror, previous
\* file could also contain bad data"
ProcJunk ==
    /\ Processing("header")
    /\ Token.k # "head"
    /\ stat' = IF lastFile \in Jobs
               THEN [stat EXCEPT ![lastFile] = FIST_DLERROR] ELSE stat
    /\ Returned({"MIRROR_BROKEN", "NOW", "KILL"})
    /\ UNCHANGED <<ctrl, lastMark, wakeup, queues, job, conVars, modeVars, fate,
                   got, taint>>

\* "processing hint 102, or something like 103 which we can ignore".
\* ExchangeData looks for HINT_MORE as the only flag, and selects; with "close"
\* it returns, and processes the rest of the buffer when it is called next.
ProcHint ==
    /\ Processing("header")
    /\ IsHeader({"hint"})
    /\ inBuf' = Tail(inBuf)
    /\ \/ /\ pc' = IF inBuf' = <<>> THEN "select" ELSE "wait"
          /\ UNCHANGED loopRes
       \/ Returned({"SOON", "MORE"})
    /\ UNCHANGED <<ctrl, lastMark, wakeup, queues, job, stat, con, wire, lastFile,
                   idle, modeVars, fate, got, taint>>

\* RewriteSource
Redirects(jb) == jb.redir - 1 > 0

Rewritten(jb, t) ==
    IF t.dest # NoHost
    THEN [jb EXCEPT !.redir = @ - 1, !.file = t.of, !.backend = FALSE,
                    !.cur = NoHost, !.host = t.dest]
    ELSE [jb EXCEPT !.redir = @ - 1, !.file = t.of, !.backend = FALSE,
                    !.host = PeerHost(jb)]

\* inBuf.drop(contLen) while the header is still in the buffer: it cuts the
\* header's beginning instead of the page off.  With a page that is empty or
\* longer than the buffer all stays; the buffer can also be as long as a page
\* that is yet to come.
Leftovers ==
    IF Token.len = 0 THEN {inBuf}
    ELSE IF Len(inBuf) > 1 THEN {<<Junk>>}
    ELSE {inBuf, <<Junk>>, <<>>}

\* The other jobs of the pipeline, applied to what is left in the buffer: a
\* header that was left there redirects them, too, up to the first that has
\* no redirections left.
Redirected(buf) ==
    IF buf # inBuf THEN {}
    ELSE {activeJobs[k] : k \in {k \in 2..Len(activeJobs) :
            \A m \in 2..k : Redirects(job[activeJobs[m]])}}

ProcRedirect ==
    /\ Processing("header")
    /\ IsHeader({"redirect"})
    /\ Redirects(job[Front])
    /\ \E buf \in Leftovers, soon \in Soon :
         LET others == Redirected(buf)
             failed == Cardinality(others) < Len(activeJobs) - 1
                         \/ (soon # {} /\ Len(activeJobs) > 1)
         IN /\ inBuf' = buf
            /\ job' = [j \in Jobs |-> IF j \in others \cup {Front}
                                      THEN Rewritten(job[j], Token) ELSE job[j]]
            /\ taint' = IF others = {} THEN taint ELSE taint \cup {"redirected"}
            /\ pipeDisable' = IF failed THEN PipeDisable ELSE pipeDisable
            /\ IF failed THEN Returned({"TGT", "NOW"})
               ELSE Returned({"TGT"} \cup (IF buf = <<>> THEN {} ELSE {"NOW"}))
    /\ UNCHANGED <<ctrl, lastMark, wakeup, queues, stat, con, wire, lastFile,
                   idle, blacklist, stopReq, expClose, tolerance, proxyTot,
                   fate, got>>

\* "Redirection loop", "Bad redirection": the header stays in the buffer and
\* the connection stays in use.
ProcRedirectFails ==
    /\ Processing("header")
    /\ IsHeader({"redirect", "noloc"})
    /\ ~Redirects(job[Front]) \/ Token.kind = "noloc"
    /\ \E soon \in Soon : Returned(soon \cup {"JOB_BROKEN"})
    /\ UNCHANGED <<ctrl, lastMark, wakeup, queues, job, stat, conVars, modeVars,
                   fate, got, taint>>

\* A key file that is missing, a response without a length, or a header that
\* is not one of a response.
ProcRefused ==
    /\ Processing("header")
    /\ \/ IsHeader({"nokey"}) /\ Returned({"NOW", "MIRROR_BROKEN"})
       \/ IsHeader({"nolen"}) /\ Returned({"NOW", "JOB_BROKEN"})
       \/ IsHeader({"odd"}) /\ Returned({"NOW", "LOST", "MIRROR_BROKEN"})
    /\ UNCHANGED <<ctrl, lastMark, wakeup, queues, job, stat, conVars, modeVars,
                   fate, got, taint>>

\* CheckAndSaveHeader: the item is complete, failed, or somebody else's.
ItemBusy(j) ==
    \/ stat[j] >= FIST_COMPLETE
    \/ ~job[j].assigned /\ stat[j] > FIST_DLPENDING

ProcBusy ==
    /\ Processing("header")
    /\ IsHeader({"ok", "chunked", "error"})
    /\ \/ ItemBusy(Front) /\ UNCHANGED <<stat, job>>
       \/ /\ ~ItemBusy(Front)
          /\ stat' = [stat EXCEPT ![Front] = FIST_DLERROR]
          /\ job' = [job EXCEPT ![Front].assigned = TRUE]
    /\ Returned({"NOW", "JOB_BROKEN", "COLLISION"})
    /\ UNCHANGED <<ctrl, lastMark, wakeup, queues, conVars, modeVars, fate, got,
                   taint>>

\* 416 for a file that nobody has begun to send: once more from the start, and
\* as often as the server answers so.
ProcRestart ==
    /\ Processing("header")
    /\ IsHeader({"error"})
    /\ ~ItemBusy(Front)
    /\ ~job[Front].assigned
    /\ \E soon \in Soon : Returned(soon \cup {"LOST", "NOW"})
    /\ UNCHANGED <<ctrl, lastMark, wakeup, queues, job, stat, conVars, modeVars,
                   fate, got, taint>>

\* The body of an error is not stored, and the item ends with its header.
Accepted(jb, t) ==
    [jb EXCEPT !.assigned = TRUE, !.store = (t.kind # "error"),
               !.st = IF t.kind = "chunked" THEN "chunk" ELSE "data",
               !.rest = t.len]

ProcHeader ==
    /\ Processing("header")
    /\ IsHeader({"ok", "chunked", "error"})
    /\ ~ItemBusy(Front)
    /\ Token.kind = "error" => ~job[Front].assigned
    /\ job' = [job EXCEPT ![Front] = Accepted(@, Token)]
    /\ stat' = [stat EXCEPT ![Front] =
                  IF Token.kind = "error" THEN FIST_COMPLETE ELSE FIST_DLGOTHEAD]
    /\ inBuf' = Tail(inBuf)
    /\ UNCHANGED <<ctrl, lastMark, wakeup, queues, con, wire, lastFile, idle,
                   modeVars, pc, loopRes, fate, got, taint>>

\* STATE_FINISHJOB, and what ExchangeData does with a job that is done.
Finish(buf) ==
    /\ activeJobs' = Tail(activeJobs)
    /\ fate' = [fate EXCEPT ![Front] = "done"]
    /\ lastFile' = Front
    /\ inBuf' = buf
    /\ IF activeJobs' = <<>> THEN Returned({"SWITCH"})
       ELSE IF buf = <<>> THEN Returned({"DONE"}) ELSE UNCHANGED <<pc, loopRes>>

Stored(j, t) ==
    IF job[j].store
    THEN [got EXCEPT ![j] = @ \cup {IF t.k = "junk" THEN NoHost ELSE t.of}]
    ELSE got

\* NewDataHandler.  With a known length whatever comes is the body.
ProcData ==
    /\ \/ Processing("data")
       \/ Processing("chunk") /\ Token.k = "data"
    /\ got' = Stored(Front, Token)
    /\ IF job[Front].st = "data" /\ job[Front].rest = 1
       THEN /\ Finish(Tail(inBuf))
            /\ job' = Gone(job, {Front})
            /\ stat' = [stat EXCEPT ![Front] = IF @ < FIST_COMPLETE
                                               THEN FIST_COMPLETE ELSE @]
       ELSE /\ job' = [job EXCEPT ![Front].rest =
                         IF job[Front].st = "data" THEN @ - 1 ELSE @]
            /\ stat' = [stat EXCEPT ![Front] = IF @ < FIST_COMPLETE
                                               THEN FIST_DLRECEIVING ELSE @]
            /\ inBuf' = Tail(inBuf)
            /\ UNCHANGED <<activeJobs, fate, lastFile, pc, loopRes>>
    /\ UNCHANGED <<ctrl, lastMark, wakeup, newJobs, nextJobs, con, wire, idle,
                   modeVars, taint>>

\* "Cannot store"
ProcStoreFails ==
    /\ \/ Processing("data")
       \/ Processing("chunk") /\ Token.k = "data"
    /\ job[Front].store
    /\ stat' = [stat EXCEPT ![Front] = FIST_DLERROR]
    /\ Returned({"NOW", "JOB_BROKEN"})
    /\ UNCHANGED <<ctrl, lastMark, wakeup, queues, job, conVars, modeVars, fate,
                   got, taint>>

\* The empty chunk and the trailer.
ProcLastChunk ==
    /\ Processing("chunk")
    /\ Token.k = "last"
    /\ Finish(Tail(inBuf))
    /\ job' = Gone(job, {Front})
    /\ stat' = [stat EXCEPT ![Front] = IF @ < FIST_COMPLETE
                                       THEN FIST_COMPLETE ELSE @]
    /\ UNCHANGED <<ctrl, lastMark, wakeup, newJobs, nextJobs, con, wire, idle,
                   modeVars, got, taint>>

\* "Invalid stream": the connection stays in use.
ProcBadChunk ==
    /\ Processing("chunk")
    /\ Token.k \in {"head", "junk"}
    /\ Returned({"JOB_BROKEN"})
    /\ UNCHANGED <<ctrl, lastMark, wakeup, queues, job, stat, conVars, modeVars,
                   fate, got, taint>>

-----------------------------------------------------------------------------
(* WorkLoop after ExchangeData                                             *)

Has(flag) == flag \in loopRes

ErrorBits == {"NOW", "SOON", "JOB_BROKEN", "LOST", "MIRROR_BROKEN"}

ResultStop ==
    /\ pc = "result"
    /\ ctrl < 0
    /\ Return
    /\ UNCHANGED <<ctrl, idle, got, taint>>

\* Bug for the mutation check: a connection is pooled while it is in use.
GoodForPoolBusy == con # NoHost /\ loopRes \cap ErrorBits = {}

\* "no error bits set, not busy -> this connection is still good"
GoodForPool == activeJobs = <<>> /\ con # NoHost /\ loopRes \cap ErrorBits = {}

ResultRecycle ==
    /\ pc = "result"
    /\ ctrl >= 0
    /\ GoodForPool
    /\ idle' = Recycled(con)
    /\ con' = NoHost /\ wire' = <<>> /\ lastFile' = NoHost
    /\ stopReq' = FALSE
    /\ pc' = "top" /\ loopRes' = {}
    /\ UNCHANGED <<ctrl, lastMark, wakeup, queues, job, stat, inBuf, blacklist,
                   expClose, tolerance, pipeDisable, proxyTot, fate, got, taint>>

ResultContinue ==
    /\ pc = "result"
    /\ ctrl >= 0
    /\ ~GoodForPool
    /\ Has("DONE") \/ Has("SWITCH") \/ Has("MORE")
    /\ expClose' = (expClose \/ Has("SOON"))
    /\ stopReq' = (stopReq /\ activeJobs # <<>>)
    /\ pc' = "top" /\ loopRes' = {}
    /\ UNCHANGED <<ctrl, lastMark, wakeup, queues, job, stat, conVars, blacklist,
                   tolerance, pipeDisable, proxyTot, fate, got, taint>>

\* HINT_TGTCHANGE: all jobs of the pipeline are requested anew.
ResultRedirect ==
    /\ pc = "result"
    /\ ctrl >= 0
    /\ Has("TGT")
    /\ idle' = IF Has("NOW") THEN idle ELSE Recycled(con)
    /\ taint' = IF ~Has("NOW") /\ wire # <<>> THEN taint \cup {"unframed"} ELSE taint
    /\ con' = NoHost /\ wire' = <<>> /\ inBuf' = <<>> /\ lastFile' = NoHost
    /\ nextJobs' = activeJobs \o nextJobs
    /\ activeJobs' = <<>>
    /\ pc' = "top" /\ loopRes' = {}
    /\ UNCHANGED <<ctrl, lastMark, wakeup, newJobs, job, stat, modeVars, fate,
                   got>>

\* The connection was lost under a job, and nobody had announced it.
LostUnexpected == Has("LOST") /\ activeJobs # <<>> /\ ~expClose /\ ~Has("SOON")
GivesUp == LostUnexpected /\ tolerance - 1 <= 0

\* The first job of the pipeline fails.
FrontBroken ==
    /\ activeJobs # <<>>
    /\ Has("JOB_BROKEN") \/ (Has("LOST") /\ Front \in NoResume)

\* "someone else is doing it -> drop"
Collides(j) ==
    FrontBroken /\ Has("COLLISION") /\ stat[j] >= FIST_DLRECEIVING

\* The jobs that end with this failure.
FailedJobs ==
    {j \in Elems(activeJobs) \cup Elems(nextJobs) :
       Collides(j) \/ (FrontBroken /\ j = Front)}

\* Bug for the mutation check: the rest of the pipeline goes with its first job.
PipelineRestNone == {<<>>}

\* The jobs of the pipeline that go back to the queue.
PipelineRest == Without(activeJobs, FailedJobs)

ResultFailed ==
    /\ pc = "result"
    /\ ctrl >= 0
    /\ ~GoodForPool
    /\ loopRes \cap {"DONE", "SWITCH", "TGT", "MORE"} = {}
    /\ \E p \in PipelineRest, n \in Without(nextJobs, FailedJobs) : nextJobs' = p \o n
    /\ activeJobs' = <<>>
    /\ Dropped(FailedJobs)
    /\ job' = Gone(IF Has("LOST") /\ activeJobs # <<>>
                   THEN [job EXCEPT ![Front].st = "header"] ELSE job, FailedJobs)
    /\ blacklist' = IF activeJobs # <<>> /\ (GivesUp \/ Has("MIRROR_BROKEN"))
                    THEN blacklist \cup {PeerHost(job[Front])} ELSE blacklist
    /\ tolerance' = IF GivesUp THEN MaxRetry
                    ELSE IF LostUnexpected THEN tolerance - 1 ELSE tolerance
    /\ expClose' = (expClose \/ Has("SOON"))
    /\ stopReq' = (stopReq /\ activeJobs # <<>>)
    /\ IF Has("NOW") \/ Has("LOST")
       THEN /\ con' = NoHost /\ wire' = <<>> /\ inBuf' = <<>> /\ lastFile' = NoHost
            /\ UNCHANGED taint
       ELSE /\ UNCHANGED <<con, wire, inBuf, lastFile>>
            /\ taint' = taint \cup {"unframed"}
    /\ pc' = "top" /\ loopRes' = {}
    /\ UNCHANGED <<ctrl, lastMark, wakeup, newJobs, idle, pipeDisable, proxyTot,
                   got>>

-----------------------------------------------------------------------------
Exchange ==
    SelectWake \/ SelectTimeout \/ SelectLost \/ SelectRead \/ SelectMore

Process ==
    \/ ProcJunk \/ ProcHint \/ ProcRedirect \/ ProcRedirectFails \/ ProcRefused
    \/ ProcBusy \/ ProcRestart \/ ProcHeader \/ ProcData \/ ProcStoreFails
    \/ ProcLastChunk \/ ProcBadChunk

WorkLoop ==
    \/ TopStop \/ TopSplice \/ ConnectPrepare \/ DialFresh \/ DialReuse
    \/ DialFails \/ FillDone \/ FillDrop \/ FillMismatch \/ FillRequest
    \/ Exchange \/ Process
    \/ ResultStop \/ ResultRecycle \/ ResultContinue \/ ResultRedirect
    \/ ResultFailed

Next ==
    \/ \E j \in Jobs : AddJob(j) \/ OthersTake(j)
    \/ SignalStop
    \/ WorkLoop

\* The thread runs, and select() returns at the latest when it times out.
Spec == Init /\ [][Next]_vars /\ WF_vars(WorkLoop)

-----------------------------------------------------------------------------
(* Properties                                                              *)

\* A job's item gets data of its own file only, although responses are told
\* apart by nothing but their order, in every interleaving of lost
\* connections, redirections, collisions and requests that are sent again;
\* unless the framing was lost in one of the two known ways.
OwnAnswer == taint = {} => \A j \in Jobs : got[j] \subseteq {j}

\* An idle connection in the pool has nothing to deliver any more: its next
\* user would take it for the answer to his own request.
IdleClean == taint = {} => \A h \in Hosts : idle[h] # NoConn => idle[h].out = <<>>

\* The server puts the client off: with a hint, or with a 416 that closes the
\* connection, so that its loss is an expected one.
Stalls ==
    \/ inBuf # <<>> /\ Token.k = "head" /\ Token.kind = "hint"
    \/ {"SOON", "LOST"} \subseteq loopRes

\* Every job ends, whatever the servers do: WorkLoop neither forgets one nor
\* retries it for ever.  The one exception are servers that put the client off
\* again and again: neither answer uses up nLostConTolerance.
JobsEnd == (\A j \in Jobs : fate[j] = "open" ~> fate[j] # "open") \/ []<>Stalls
=============================================================================
