---------------------------- MODULE ItemTransfer ----------------------------
(***************************************************************************)
(* How one package file gets from an upstream server through the cache to  *)
(* several clients at once.  A client connection (conn.cc, job.cc) shares  *)
(* the item of the path, reads what the item has on disk, and adds a job   *)
(* to its own downloader (dlcon.cc) if the item needs one; the job whose   *)
(* response header is accepted first writes the item (fileitem.cc), resumes *)
(* after a lost connection, and every reader follows.  The data file and   *)
(* its .head file outlive the program.                                     *)
(*                                                                         *)
(* The path is that of a solid file, whose items Create always shares, and *)
(* the clients want all of it.  The upstream server obeys HTTP and sends   *)
(* Last-Modified.  A file is a sequence of blocks, each marked with the    *)
(* version of the upstream file it belongs to; a version's number is also  *)
(* its date.  User and download counts are those of the references here:   *)
(* ItemRegistry shows that the user count is.                              *)
(***************************************************************************)
EXTENDS FileItemStates, Sequences, FiniteSets

CONSTANTS
    Readers,   \* client connections, each with its downloader
    Items,     \* item objects that can exist at the same time
    Inodes,    \* data files that can exist at the same time
    NoItem,
    NoInode,
    Lengths,   \* the blocks of each version of the upstream file
    Interrupts \* the file system lets signals interrupt a write

ASSUME TransferAssumption ==
    /\ NoItem \notin Items
    /\ NoInode \notin Inodes
    /\ Lengths \in Seq(Nat \ {0}) /\ Lengths # <<>>
    /\ Interrupts \in BOOLEAN

Versions == 1..Len(Lengths)

\* The content of a version.
Whole(v) == [k \in 1..Lengths[v] |-> v]

VARIABLES
    upstream,  \* the version that the server has
    path,      \* the data file in the cache directory
    data,      \* the contents of the data files
    head,      \* the .head file: Content-Length and Last-Modified
    item,      \* the item objects
    reg,       \* the item that is registered for the path
    reader,    \* the clients' jobs
    job,       \* the downloaders' jobs
    ahead,     \* the items whose file was written one block further than checked
    suspect    \* history: one of the known ways to damage a file was taken

diskvars == <<upstream, path, data, head>>

vars == <<diskvars, item, reg, reader, job, ahead, suspect>>

-----------------------------------------------------------------------------
(* State *)

Unknown == -1   \* no size, no length, no range
NoDate == 0     \* tHttpDate is not set

\* ParseHeadFromStorage takes a missing file for a header without fields.
NoHead == [good |-> TRUE, len |-> Unknown, date |-> NoDate]

DamagedHead == [good |-> FALSE, len |-> Unknown, date |-> NoDate]

FreeItem == [status |-> FIST_FRESH, cached |-> Unknown, checked |-> Unknown,
             clen |-> Unknown, date |-> NoDate, good |-> FALSE, vol |-> FALSE,
             replace |-> FALSE, fd |-> NoInode]

IdleReader == [pc |-> "idle", it |-> NoItem, mode |-> "none", ann |-> Unknown,
               lim |-> 0, final |-> FALSE, fd |-> NoInode, got |-> <<>>]

NoJob == [pc |-> "none", it |-> NoItem, assigned |-> FALSE, store |-> TRUE,
          used |-> Unknown, ifRange |-> NoDate, ver |-> 0, left |-> 0,
          chunked |-> FALSE]

\* ResetStreamState, and a broken job's: what is left of a job without its
\* connection.
Unplugged(j, pc) == [NoJob EXCEPT !.pc = pc, !.it = j.it, !.assigned = j.assigned]

\* The downloads of an item, m_nDlRefsCount of them, among the jobs jb.
Downloads(i, jb) == {r \in Readers : jb[r].it = i}

\* The users of an item, usercount of them, among the readers rd.
Users(i, rd) == {r \in Readers : rd[r].it = i}

\* Somebody has a shared_ptr of the item.
Referenced(i, rg, rd, jb) ==
    rg = i \/ Users(i, rd) # {} \/ Downloads(i, jb) # {}

OpenFiles == {path} \cup {item[i].fd : i \in Items} \cup {reader[r].fd : r \in Readers}

\* The contents after the files that nobody can reach any more are gone.
Reachable == LET open == OpenFiles' IN [n \in Inodes |-> IF n \in open THEN data[n] ELSE <<>>]

\* An item that is gone has closed its file.
StillOpen == {i \in ahead : item'[i].fd # NoInode}

SizeOnDisk == IF path = NoInode THEN Unknown ELSE Len(data[path])

Init ==
    /\ upstream = 1
    /\ \/ path = NoInode /\ head = NoHead
       \/ path \in Inodes /\ head = DamagedHead
    /\ data = [n \in Inodes |-> IF n = path THEN <<1>> ELSE <<>>]
    /\ item = [i \in Items |-> FreeItem]
    /\ reg = NoItem
    /\ reader = [r \in Readers |-> IdleReader]
    /\ job = [r \in Readers |-> NoJob]
    /\ ahead = {}
    /\ suspect = FALSE

-----------------------------------------------------------------------------
(* job::Prepare: Create, Setup, AddJob                                     *)

\* error_clean(): nothing of the cached data is used.
SetupClean(it) ==
    [it EXCEPT !.status = FIST_INITED, !.cached = Unknown, !.checked = Unknown,
               !.clen = Unknown, !.replace = TRUE]

\* Bug for the mutation check: any cached file with a header is complete.
SetupLoadedTrusting(it) ==
    [it EXCEPT !.status = FIST_COMPLETE, !.cached = SizeOnDisk, !.clen = SizeOnDisk,
               !.checked = SizeOnDisk, !.date = head.date, !.good = TRUE]

\* What the header says is taken over; complete if the size agrees, else
\* the remote has to confirm it.
SetupLoaded(it) ==
    LET complete == SizeOnDisk = head.len /\ head.len >= 0 IN
    [it EXCEPT !.status = IF complete THEN FIST_COMPLETE ELSE FIST_INITED,
               !.cached = SizeOnDisk,
               !.checked = IF complete THEN SizeOnDisk ELSE Unknown,
               !.clen = head.len, !.date = head.date, !.good = TRUE,
               !.vol = ~complete]

\* fileitem_with_storage::Setup
AfterSetup(it) ==
    IF it.status > FIST_FRESH THEN it
    ELSE IF ~head.good THEN SetupClean(it)
    ELSE IF head.len >= 0 /\ head.len < SizeOnDisk
    THEN SetupClean([it EXCEPT !.date = head.date, !.good = TRUE])
    ELSE SetupLoaded(it)

\* Create shares the registered item or registers a new one, and Setup
\* follows; what happens between the two could as well happen before.  The
\* connection's downloader has one job at a time.
Prepare(r, i) ==
    LET it == AfterSetup(item[i]) IN
    /\ reader[r].pc = "idle"
    /\ job[r].pc = "none"
    /\ reg = i \/ (reg = NoItem /\ ~Referenced(i, reg, reader, job))
    /\ reg' = i
    /\ item' = [item EXCEPT ![i] = it]
    /\ reader' = [reader EXCEPT ![r] =
         [IdleReader EXCEPT !.it = i,
            !.pc = IF it.status < FIST_DLGOTHEAD THEN "add" ELSE "await"]]
    /\ UNCHANGED <<diskvars, job, ahead, suspect>>

\* CDlConn::AddJob, with DlRefCountAdd.
AddJob(r) ==
    /\ reader[r].pc = "add"
    /\ job' = [job EXCEPT ![r] = [NoJob EXCEPT !.pc = "queued", !.it = reader[r].it]]
    /\ reader' = [reader EXCEPT ![r].pc = "await"]
    /\ UNCHANGED <<diskvars, item, reg, ahead, suspect>>

\* No downloader can be had: report_overload.
AddJobFail(r) ==
    /\ reader[r].pc = "add"
    /\ reader' = [reader EXCEPT ![r].pc = "err"]
    /\ UNCHANGED <<diskvars, item, reg, job, ahead, suspect>>

-----------------------------------------------------------------------------
(* tDlJob: the request                                                     *)

\* Where the download shall start; a volatile item needs a date for that,
\* and the last byte again if it has them all.
UsedRangeStartPos(it) ==
    LET start == IF it.checked >= 0 THEN it.checked ELSE it.cached IN
    IF it.vol /\ it.date = NoDate THEN Unknown
    ELSE IF it.vol /\ start = it.clen /\ start > 1 THEN start - 1
    ELSE start

\* Bug for the mutation check: the request has no If-Range.
AppendRequestUnconditional(r) ==
    /\ job[r].pc = "queued"
    /\ job' = [job EXCEPT ![r].pc = "sent", ![r].store = TRUE,
                          ![r].used = UsedRangeStartPos(item[job[r].it])]
    /\ UNCHANGED <<diskvars, item, reg, reader, ahead, suspect>>

AppendRequest(r) ==
    LET it == item[job[r].it] IN
    /\ job[r].pc = "queued"
    /\ job' = [job EXCEPT ![r].pc = "sent", ![r].store = TRUE,
                          ![r].used = UsedRangeStartPos(it),
                          ![r].ifRange = it.date]
    /\ UNCHANGED <<diskvars, item, reg, reader, ahead, suspect>>

\* The server's choice: it may ignore the range, and honours it only if the
\* client has the present version.
RangeApplies(j) == j.used > 0 /\ j.ifRange \in {NoDate, upstream}

-----------------------------------------------------------------------------
(* tDlJob::CheckAndSaveHeader                                              *)

\* Bug for the mutation check: a job takes over an item others write.
BusyOnlyWhenDone(j, it) == it.status >= FIST_COMPLETE

\* The item is done, or is active and not served by us.
Busy(j, it) ==
    \/ it.status >= FIST_COMPLETE
    \/ ~j.assigned /\ it.status > FIST_DLPENDING

HeaderBusy(r) ==
    /\ job[r].pc = "sent"
    /\ Busy(job[r], item[job[r].it])
    /\ job' = [job EXCEPT ![r] = Unplugged(@, "broken")]
    /\ UNCHANGED <<diskvars, item, reg, reader, ahead, suspect>>

\* fileitem::DlSetError, whose destroy mode has no effect.
DlSetError(it) == [it EXCEPT !.status = FIST_DLERROR, !.good = FALSE]

\* DlStarted on an item that was started before: does the state fit?
HotMismatch(it, date, seek, len) ==
    /\ it.status >= FIST_DLGOTHEAD
    /\ \/ it.clen # len /\ it.clen # Unknown
       \/ date # it.date
       \/ seek > it.checked

\* Bug for the mutation check: the position may go back.
SeekBackAllowed(it, seek) == FALSE

SeekBack(it, seek) == it.checked >= 0 /\ seek >= 0 /\ seek < it.checked

Accepts(it, date, seek, len) ==
    ~HotMismatch(it, date, seek, len) /\ ~SeekBack(it, seek)

\* Bug for the mutation check: the new length is taken before the checks.
DlStartedEager(it, good, date, seek, len) ==
    [it EXCEPT !.status = FIST_DLGOTHEAD, !.good = good, !.date = date, !.clen = len,
               !.checked = IF seek >= @ THEN seek ELSE @]

\* fileitem::DlStarted; the status goes back before the position is refused.
DlStarted(it, good, date, seek, len) ==
    IF HotMismatch(it, date, seek, len) THEN it
    ELSE IF SeekBack(it, seek)
    THEN [it EXCEPT !.status = FIST_DLGOTHEAD,
                    !.clen = IF it.status < FIST_DLGOTHEAD THEN Unknown ELSE @]
    ELSE [it EXCEPT !.status = FIST_DLGOTHEAD,
                    !.checked = IF seek >= 0 THEN seek ELSE @,
                    !.good = good, !.date = date, !.clen = len]

\* The job after mark_assigned(): if DlStarted accepted the header, blocks of
\* the version that the server has now follow.
Started(j, ok, left, chunked) ==
    IF ok THEN [NoJob EXCEPT !.pc = "body", !.it = j.it, !.assigned = TRUE,
                             !.ver = upstream, !.left = left, !.chunked = chunked]
    ELSE [Unplugged(j, "broken") EXCEPT !.assigned = TRUE]

\* Code 200: "forget the offset!!"
Header200(r, chunked) ==
    LET i == job[r].it
        len == IF chunked THEN Unknown ELSE Lengths[upstream] IN
    /\ job[r].pc = "sent"
    /\ ~Busy(job[r], item[i])
    /\ item' = [item EXCEPT ![i] = DlStarted(@, TRUE, upstream, 0, len)]
    /\ job' = [job EXCEPT ![r] = Started(@, Accepts(item[i], upstream, 0, len),
                                         Lengths[upstream], chunked)]
    /\ UNCHANGED <<diskvars, reg, reader, ahead, suspect>>

\* "identify the special probe request which reports what we already knew":
\* the position is the cached file's last block, by request or by chance.
IsProbe(j, it) ==
    it.vol /\ it.cached = Lengths[upstream] /\ it.cached - 1 = j.used /\ it.date = upstream

\* Code 206, from the position that was asked for.
Header206(r) ==
    LET i == job[r].it
        start == job[r].used
        len == Lengths[upstream] IN
    /\ job[r].pc = "sent"
    /\ ~Busy(job[r], item[i])
    /\ RangeApplies(job[r]) /\ start < len
    /\ ~IsProbe(job[r], item[i]) /\ start >= item[i].cached
    /\ item' = [item EXCEPT ![i] = DlStarted(@, TRUE, upstream, start, len)]
    /\ job' = [job EXCEPT ![r] = Started(@, Accepts(item[i], upstream, start, len),
                                         len - start, FALSE)]
    /\ UNCHANGED <<diskvars, reg, reader, ahead, suspect>>

\* withError(): the item is in error, the job is dropped.
HeaderFails(r) ==
    /\ item' = [item EXCEPT ![job[r].it] = DlSetError(@)]
    /\ job' = [job EXCEPT ![r] = [Unplugged(@, "broken") EXCEPT !.assigned = TRUE]]
    /\ UNCHANGED <<diskvars, reg, reader, ahead, suspect>>

\* "Server reports unexpected range", after a restart from zero was lost
\* before it had what the cache had at first.
Header206Unexpected(r) ==
    LET it == item[job[r].it] IN
    /\ job[r].pc = "sent"
    /\ ~Busy(job[r], it)
    /\ RangeApplies(job[r]) /\ job[r].used < Lengths[upstream]
    /\ ~IsProbe(job[r], it) /\ job[r].used < it.cached
    /\ HeaderFails(r)

\* "Disagreement on file size, cleaning up"
Header416(r) ==
    /\ job[r].pc = "sent"
    /\ ~Busy(job[r], item[job[r].it])
    /\ RangeApplies(job[r]) /\ job[r].used >= Lengths[upstream]
    /\ item[job[r].it].checked >= 0
    /\ HeaderFails(r)

\* "Peer denied to resume previous download": once more, from zero.
Header416Restart(r) ==
    LET i == job[r].it IN
    /\ job[r].pc = "sent"
    /\ ~Busy(job[r], item[i])
    /\ RangeApplies(job[r]) /\ job[r].used >= Lengths[upstream]
    /\ item[i].checked < 0
    /\ item' = [item EXCEPT ![i].cached = 0, ![i].replace = TRUE]
    /\ job' = [job EXCEPT ![r] = Unplugged(@, "queued")]
    /\ UNCHANGED <<diskvars, reg, reader, ahead, suspect>>

\* An error code when the item is ours already: "cannot handle it properly
\* because some job might already have started returning the data".
HeaderErrorResuming(r) ==
    /\ job[r].pc = "sent"
    /\ ~Busy(job[r], item[job[r].it])
    /\ job[r].assigned
    /\ HeaderFails(r)

\* fileitem::DlFinish
DlFinish(it) ==
    IF it.status > FIST_COMPLETE THEN it
    ELSE [it EXCEPT !.status = FIST_COMPLETE,
                    !.clen = IF @ < 0 THEN it.checked ELSE @]

\* The body that follows is not stored.
Skipping(j) == [Started(j, TRUE, 1, FALSE) EXCEPT !.store = FALSE]

HeadOf(it) == [good |-> TRUE, len |-> it.clen, date |-> it.date]

\* An error code for a new download: DlStarted with the position that was
\* asked for and DlFinish, which stores the header with that position as
\* the length.
HeaderError(r) ==
    LET i == job[r].it
        ended == DlFinish(DlStarted(item[i], FALSE, NoDate, job[r].used, Unknown)) IN
    /\ job[r].pc = "sent"
    /\ ~Busy(job[r], item[i])
    /\ ~job[r].assigned
    /\ item' = [item EXCEPT ![i] = ended]
    /\ head' = HeadOf(ended)
    /\ job' = [job EXCEPT ![r] = Skipping(@)]
    /\ suspect' = (suspect \/ ended.clen >= 0)
    /\ UNCHANGED <<upstream, path, data, reg, reader, ahead>>

\* The probe: the cached file is the server's, the item is complete; without
\* a look at the file, which may have been replaced since.
HeaderProbe(r) ==
    LET i == job[r].it
        known == item[i].cached
        ended == DlFinish([item[i] EXCEPT !.checked = known, !.clen = known]) IN
    /\ job[r].pc = "sent"
    /\ ~Busy(job[r], item[i])
    /\ RangeApplies(job[r]) /\ IsProbe(job[r], item[i])
    /\ item' = [item EXCEPT ![i] = ended]
    /\ head' = HeadOf(ended)
    /\ job' = [job EXCEPT ![r] = Skipping(@)]
    /\ suspect' = (suspect \/ SizeOnDisk < known)
    /\ UNCHANGED <<upstream, path, data, reg, reader, ahead>>

-----------------------------------------------------------------------------
(* tDlJob: the body, fileitem_with_storage::DlAddData                      *)

Receiving(r) == job[r].pc = "body" /\ job[r].store /\ job[r].left > 0

\* A block written at a position, over what is there.
Written(blocks, pos, v) == [k \in 1..(IF pos = Len(blocks) THEN pos + 1 ELSE Len(blocks))
                              |-> IF k = pos + 1 THEN v ELSE blocks[k]]

OneBlockLess(r) == [job EXCEPT ![r].left = @ - 1]

\* SafeOpenOutFile: the file is replaced if that was ordered, when acting on
\* chunked transfers, and when the remote file has become smaller.
NeedsNewFile(it) ==
    it.replace \/ it.clen < 0 \/ path = NoInode \/ SizeOnDisk > it.clen

\* The position of the first write: "confirm start at zero".
StartOfWrite(it) == IF it.checked < 0 THEN 0 ELSE it.checked

\* Bug for the mutation check: the announced blocks count as checked.
OpenedAhead(it, n) ==
    [it EXCEPT !.status = FIST_DLRECEIVING, !.replace = FALSE, !.fd = n,
               !.checked = IF it.clen < 0 THEN 1 ELSE it.clen]

\* The stream is open, whatever the status was, and has its first block.
Opened(it, n) ==
    [it EXCEPT !.status = FIST_DLRECEIVING, !.replace = FALSE, !.fd = n,
               !.checked = StartOfWrite(it) + 1]

\* The first block goes into a new file.  The item may have been stopped
\* since its header came; it is revived.
OpenNew(r, n) ==
    LET i == job[r].it IN
    /\ Receiving(r)
    /\ item[i].fd = NoInode
    /\ NeedsNewFile(item[i])
    /\ StartOfWrite(item[i]) = 0
    /\ n \notin OpenFiles
    /\ path' = n
    /\ head' = HeadOf(item[i])
    /\ item' = [item EXCEPT ![i] = Opened(@, n)]
    /\ job' = OneBlockLess(r)
    /\ ahead' = ahead \ {i}
    /\ suspect' = (suspect \/ item[i].status > FIST_COMPLETE)
    /\ UNCHANGED <<upstream, reg, reader>>
    /\ data' = [Reachable EXCEPT ![n] = <<job[r].ver>>]

\* The first block goes into the file that is there, which keeps what it
\* has after that block, of whatever version.
OpenInPlace(r) ==
    LET i == job[r].it
        pos == StartOfWrite(item[i]) IN
    /\ Receiving(r)
    /\ item[i].fd = NoInode
    /\ ~NeedsNewFile(item[i])
    /\ pos <= SizeOnDisk
    /\ head' = HeadOf(item[i])
    /\ item' = [item EXCEPT ![i] = Opened(@, path)]
    /\ data' = [data EXCEPT ![path] = Written(@, pos, job[r].ver)]
    /\ job' = OneBlockLess(r)
    /\ ahead' = ahead \ {i}
    /\ suspect' = (suspect \/ item[i].status > FIST_COMPLETE
                     \/ \E k \in (pos + 2)..SizeOnDisk : data[path][k] # job[r].ver)
    /\ UNCHANGED <<upstream, path, reg, reader>>

\* withError() in SafeOpenOutFile: the file stays or is gone half-way through
\* replace_file; "Cannot store header" and "Checked size beyond EOF" come
\* after the file was opened or replaced.
OpenError(r) ==
    LET i == job[r].it IN
    /\ Receiving(r)
    /\ item[i].fd = NoInode
    /\ \/ path' \in {path, NoInode} /\ item' = [item EXCEPT ![i] = DlSetError(@)]
       \/ \E n \in Inodes :
            /\ path' = n
            /\ IF NeedsNewFile(item[i]) THEN n \notin OpenFiles ELSE n = path
            /\ item' = [item EXCEPT ![i] = [DlSetError(@) EXCEPT !.fd = n]]
    /\ path' = NoInode => path = NoInode \/ NeedsNewFile(item[i])
    /\ job' = [job EXCEPT ![r] = Unplugged(@, "broken")]
    /\ suspect' = (suspect \/ item[i].status > FIST_COMPLETE)
    /\ UNCHANGED <<upstream, head, reg, reader, ahead>>
    /\ data' = Reachable

\* What SafeOpenOutFile has done when it returns true.
OpensFile(r, n) ==
    LET i == job[r].it IN
    /\ Receiving(r)
    /\ item[i].fd = NoInode
    /\ IF NeedsNewFile(item[i]) THEN n \notin OpenFiles /\ StartOfWrite(item[i]) = 0
       ELSE n = path /\ StartOfWrite(item[i]) <= SizeOnDisk
    /\ path' = n
    /\ head' = HeadOf(item[i])
    /\ UNCHANGED <<upstream, reg, reader>>

OpenedData(i, n) == IF NeedsNewFile(item[i]) THEN [Reachable EXCEPT ![n] = <<>>] ELSE data

\* A write that is interrupted returns -1, which is taken for a count: the
\* checked size and the start of the chunk go back by one, and the next write
\* begins with what is before the chunk in memory.  In the end the size is
\* right, but the file is one further.  The bound: once for an open file.
Slipped(blocks, pos, w, v) == Written(Written(blocks, pos, w), pos + 1, v)

\* The checked size when a write fails, maybe one that was interrupted first.
AfterFailure(checked) == IF Interrupts THEN {checked, checked - 1} ELSE {checked}

\* "Write error" at the first block, or the program is killed before it: the
\* header is stored, and the file has what it had, of whatever version.
FirstWriteFails(r, n) ==
    LET i == job[r].it
        pos == StartOfWrite(item[i]) IN
    /\ OpensFile(r, n)
    /\ \E checked \in AfterFailure(pos) :
         /\ item' = [item EXCEPT ![i] =
              [DlSetError(@) EXCEPT !.replace = FALSE, !.fd = n, !.checked = checked]]
         /\ suspect' = (suspect \/ item[i].status > FIST_COMPLETE \/ checked # pos
                          \/ /\ ~NeedsNewFile(item[i])
                             /\ \E k \in (pos + 1)..SizeOnDisk : data[path][k] # job[r].ver)
    /\ job' = [job EXCEPT ![r] = Unplugged(@, "broken")]
    /\ ahead' = ahead \ {i}
    /\ data' = OpenedData(i, n)

FirstWriteInterrupted(r, n) ==
    LET i == job[r].it IN
    /\ Interrupts
    /\ OpensFile(r, n)
    /\ item' = [item EXCEPT ![i] = Opened(@, n)]
    /\ job' = OneBlockLess(r)
    /\ ahead' = ahead \cup {i}
    /\ suspect' = TRUE
    /\ \E w \in Versions :
         data' = [OpenedData(i, n) EXCEPT
                    ![n] = Slipped(@, StartOfWrite(item[i]), w, job[r].ver)]

\* The next block has an open file, and the item was not stopped.
Adding(r) ==
    /\ Receiving(r)
    /\ item[job[r].it].fd # NoInode
    /\ item[job[r].it].status <= FIST_COMPLETE

\* "Write error"
WriteError(r) ==
    LET i == job[r].it IN
    /\ Adding(r)
    /\ \E checked \in AfterFailure(item[i].checked) :
         /\ item' = [item EXCEPT ![i] = [DlSetError(@) EXCEPT !.checked = checked]]
         /\ suspect' = (suspect \/ checked # item[i].checked)
    /\ job' = [job EXCEPT ![r] = Unplugged(@, "broken")]
    /\ UNCHANGED <<diskvars, reg, reader, ahead>>

\* The position of the open file.
Offset(i) == IF i \in ahead THEN item[i].checked + 1 ELSE item[i].checked

AddData(r) ==
    LET i == job[r].it IN
    /\ Adding(r)
    /\ data' = [data EXCEPT ![item[i].fd] = Written(@, Offset(i), job[r].ver)]
    /\ item' = [item EXCEPT ![i].checked = @ + 1]
    /\ job' = OneBlockLess(r)
    /\ UNCHANGED <<upstream, path, head, reg, reader, ahead, suspect>>

AddDataInterrupted(r) ==
    LET i == job[r].it IN
    /\ Interrupts
    /\ Adding(r)
    /\ i \notin ahead
    /\ \E w \in Versions :
         data' = [data EXCEPT ![item[i].fd] = Slipped(@, item[i].checked, w, job[r].ver)]
    /\ item' = [item EXCEPT ![i].checked = @ + 1]
    /\ job' = OneBlockLess(r)
    /\ ahead' = ahead \cup {i}
    /\ suspect' = TRUE
    /\ UNCHANGED <<upstream, path, head, reg, reader>>

AddDataStopped(r) ==
    /\ Receiving(r)
    /\ item[job[r].it].fd # NoInode
    /\ item[job[r].it].status > FIST_COMPLETE
    /\ job' = [job EXCEPT ![r] = Unplugged(@, "broken")]
    /\ UNCHANGED <<diskvars, item, reg, reader, ahead, suspect>>

-----------------------------------------------------------------------------
(* The end of a download job                                               *)

\* Bug for the mutation check: observers are not told.
DlRefCountDecSilent(it, last) == it

\* ~tDlJob: the reference is dropped; the last one leaves an unfinished item
\* in error.  An item without any reference is gone.
DlRefCountDec(it, last) ==
    IF last /\ it.status < FIST_COMPLETE THEN DlSetError(it) ELSE it

Dropped(i, it) ==
    [item EXCEPT ![i] =
        IF ~Referenced(i, reg', reader', job') THEN FreeItem
        ELSE DlRefCountDec(it, Downloads(i, job') = {})]

\* STATE_FINISHJOB; the header is stored if the length was not known.
FinishJob(r) ==
    LET i == job[r].it
        it == item[i] IN
    /\ job[r].pc = "body"
    /\ job[r].left = 0 \/ ~job[r].store
    /\ head' = IF it.status <= FIST_COMPLETE /\ it.clen < 0
               THEN HeadOf(DlFinish(it)) ELSE head
    /\ job' = [job EXCEPT ![r] = NoJob]
    /\ UNCHANGED <<upstream, path, reg, reader, suspect>>
    /\ item' = Dropped(i, DlFinish(it))
    /\ ahead' = StillOpen
    /\ data' = Reachable

\* The connection is lost or the target is redirected: the job is tried
\* again, its item stays assigned.  The last block of a body of known length
\* and the end of the job are one call.
Requeue(r) ==
    /\ \/ job[r].pc = "sent"
       \/ job[r].pc = "body" /\ (job[r].left > 0 \/ job[r].chunked)
    /\ job' = [job EXCEPT ![r] = Unplugged(@, "queued")]
    /\ UNCHANGED <<diskvars, item, reg, reader, ahead, suspect>>

\* The job is broken, its mirrors are all blacklisted, the server is silent;
\* a job that loses its connection for that is requeued and dies.
JobDies(r) ==
    LET i == job[r].it IN
    /\ job[r].pc \in {"queued", "broken"}
    /\ job' = [job EXCEPT ![r] = NoJob]
    /\ UNCHANGED <<upstream, path, head, reg, reader, suspect>>
    /\ item' = Dropped(i, item[i])
    /\ ahead' = StillOpen
    /\ data' = Reachable

\* KillLastFile: the response after this one was no HTTP.
MarkFaulty(i) ==
    /\ item[i].status = FIST_COMPLETE
    /\ item[i].fd # NoInode
    /\ item' = [item EXCEPT ![i] = DlSetError(@)]
    /\ UNCHANGED <<diskvars, reg, reader, job, ahead, suspect>>

-----------------------------------------------------------------------------
(* job::SendData                                                           *)

Pos(r) == Len(reader[r].got)

\* AwaitSendableState ends with the item's status or with enough data...
Sendable(it, pos) == it.status >= FIST_COMPLETE \/ it.checked > pos

\* ...it reports failure if the item is in error, or after a timeout.
AwaitFails(it, pos) == it.status > FIST_COMPLETE \/ ~Sendable(it, pos)

\* Nothing was sent yet: HandleSuddenError tells the client.
AwaitError(r) ==
    /\ reader[r].pc = "await"
    /\ AwaitFails(item[reader[r].it], 0)
    /\ reader' = [reader EXCEPT ![r].pc = "err"]
    /\ UNCHANGED <<diskvars, item, reg, job, ahead, suspect>>

\* CookResponseHeader: an error page, a chunked or a plain response.
Response(rd, it) ==
    IF ~it.good THEN [rd EXCEPT !.pc = "err"]
    ELSE IF it.clen < 0 /\ it.status = FIST_DLRECEIVING
    THEN [rd EXCEPT !.pc = "chunk", !.mode = "chunked"]
    ELSE [rd EXCEPT !.pc = "send", !.mode = "plain", !.ann = it.clen]

\* The item's lock is given up between AwaitSendableState and this; as the
\* checked size only grows, the wait could as well have ended now.
CookResponseHeader(r) ==
    LET it == item[reader[r].it] IN
    /\ reader[r].pc = "await"
    /\ Sendable(it, 0) /\ it.status <= FIST_COMPLETE
    /\ reader' = [reader EXCEPT ![r] = Response(@, it)]
    /\ UNCHANGED <<diskvars, item, reg, job, ahead, suspect>>

\* STATE_SEND_DATA: what can be sent is read under the item's lock and used
\* after it.
SendCheck(r) ==
    LET it == item[reader[r].it] IN
    /\ reader[r].pc = "send"
    /\ Sendable(it, Pos(r)) /\ it.status <= FIST_COMPLETE
    /\ it.checked > Pos(r)
    /\ reader' = [reader EXCEPT ![r].pc = "sendfile", ![r].lim = it.checked,
                                ![r].final = (it.status = FIST_COMPLETE)]
    /\ UNCHANGED <<diskvars, item, reg, job, ahead, suspect>>

\* The file a plain response is read from: opened once, at the first block.
SourceFile(r) == IF reader[r].fd = NoInode THEN path ELSE reader[r].fd

Available(r, n) ==
    (IF reader[r].lim < Len(data[n]) THEN reader[r].lim ELSE Len(data[n])) - Pos(r)

\* sendfile(): some of the blocks, none at the end of the file.
Sent(r, n, count) ==
    [reader[r] EXCEPT !.fd = n, !.got = @ \o SubSeq(data[n], Len(@) + 1, Len(@) + count)]

Counts(r, n) == IF Available(r, n) > 0 THEN 1..Available(r, n) ELSE {0}

SendFile(r) ==
    LET n == SourceFile(r) IN
    /\ reader[r].pc = "sendfile"
    /\ n # NoInode
    /\ \E count \in Counts(r, n) :
         reader' = [reader EXCEPT ![r] =
            [Sent(r, n, count) EXCEPT
               !.pc = IF reader[r].final /\ Pos(r) + count = reader[r].lim
                      THEN "ok" ELSE "send",
               !.lim = 0, !.final = FALSE]]
    /\ UNCHANGED <<diskvars, item, reg, job, ahead, suspect>>

\* STATE_SEND_CHUNK_HEADER: the end, or the next chunk from a file that is
\* opened again.
ChunkEnd(r) ==
    LET it == item[reader[r].it] IN
    /\ reader[r].pc = "chunk"
    /\ it.status = FIST_COMPLETE
    /\ it.checked = Pos(r)
    /\ reader' = [reader EXCEPT ![r].pc = "ok"]
    /\ UNCHANGED <<diskvars, item, reg, job, ahead, suspect>>

ChunkHeader(r) ==
    LET it == item[reader[r].it] IN
    /\ reader[r].pc = "chunk"
    /\ Sendable(it, Pos(r)) /\ it.status <= FIST_COMPLETE
    /\ it.checked # Pos(r)
    /\ path # NoInode
    /\ reader' = [reader EXCEPT ![r].pc = "chunkdata", ![r].lim = it.checked,
                                ![r].fd = path]
    /\ UNCHANGED <<upstream, path, head, item, reg, job, ahead, suspect>>
    /\ data' = Reachable

\* STATE_SEND_CHUNK_DATA
ChunkData(r) ==
    LET n == reader[r].fd IN
    /\ reader[r].pc = "chunkdata"
    /\ \E count \in Counts(r, n) :
         reader' = [reader EXCEPT ![r] =
            [Sent(r, n, count) EXCEPT
               !.pc = IF Pos(r) + count = reader[r].lim THEN "chunk" ELSE "chunkdata",
               !.lim = IF Pos(r) + count = reader[r].lim THEN 0 ELSE @]]
    /\ UNCHANGED <<diskvars, item, reg, job, ahead, suspect>>

-----------------------------------------------------------------------------
(* The end of a client's job                                               *)

\* ~TFileItemHolder of the last user: see ItemRegistry.
Stopped(it) ==
    [it EXCEPT !.status = IF @ < FIST_COMPLETE THEN FIST_DLSTOP ELSE @, !.good = FALSE]

\* The job and its holder are destroyed.  A connection that is closed has to
\* stop its downloader yet, if that has work.
Leave(r, closed) ==
    LET i == reader[r].it
        last == Users(i, reader) = {r} IN
    /\ reader' = [reader EXCEPT ![r] =
                    [IdleReader EXCEPT !.pc =
                       IF closed /\ job[r].pc # "none" THEN "closing" ELSE "idle"]]
    /\ reg' = IF last /\ reg = i THEN NoItem ELSE reg
    /\ UNCHANGED <<upstream, path, head, job, suspect>>
    /\ item' = [item EXCEPT ![i] =
                  IF ~Referenced(i, reg', reader', job') THEN FreeItem
                  ELSE IF last THEN Stopped(@) ELSE @]
    /\ ahead' = StillOpen
    /\ data' = Reachable

\* The response was sent; the connection may be kept for the next request.
StreamOk(r) ==
    /\ reader[r].pc \in {"ok", "err"}
    /\ \E closed \in BOOLEAN : Leave(r, closed)

\* The response under way is given up, and the connection with it: the item
\* is in error or too slow, there is nothing left to send (the item became
\* complete after its last block was sent), or the client is gone.
Disconnect(r) ==
    /\ reader[r].pc \in {"await", "send", "sendfile", "chunk", "chunkdata"}
    /\ Leave(r, TRUE)

\* ~Impl of the connection: SignalStop, and the downloader's thread drops
\* its job and ends; then the connection is a new one.
Close(r) ==
    LET i == job[r].it IN
    /\ reader[r].pc = "closing"
    /\ reader' = [reader EXCEPT ![r].pc = "idle"]
    /\ job' = [job EXCEPT ![r] = NoJob]
    /\ UNCHANGED <<upstream, path, head, reg, suspect>>
    /\ item' = IF i = NoItem THEN item ELSE Dropped(i, item[i])
    /\ ahead' = StillOpen
    /\ data' = Reachable

-----------------------------------------------------------------------------
(* The environment                                                         *)

UpstreamChange ==
    /\ upstream < Len(Lengths)
    /\ upstream' = upstream + 1
    /\ UNCHANGED <<path, data, head, item, reg, reader, job, ahead, suspect>>

\* The program is killed in the middle of a transfer and started again; at
\* other times the disk is as if all had left.
Crash ==
    /\ \E r \in Readers : job[r].pc = "body"
    /\ item' = [i \in Items |-> FreeItem]
    /\ reg' = NoItem
    /\ reader' = [r \in Readers |-> IdleReader]
    /\ job' = [r \in Readers |-> NoJob]
    /\ ahead' = {}
    /\ UNCHANGED <<upstream, path, head, suspect>>
    /\ data' = [n \in Inodes |-> IF n = path THEN data[n] ELSE <<>>]

Next ==
    \/ \E r \in Readers :
         \/ \E i \in Items : Prepare(r, i)
         \/ AddJob(r)
         \/ AddJobFail(r)
         \/ AppendRequest(r)
         \/ HeaderBusy(r)
         \/ \E chunked \in BOOLEAN : Header200(r, chunked)
         \/ Header206(r)
         \/ Header206Unexpected(r)
         \/ Header416(r)
         \/ Header416Restart(r)
         \/ HeaderErrorResuming(r)
         \/ HeaderError(r)
         \/ HeaderProbe(r)
         \/ \E n \in Inodes : OpenNew(r, n)
         \/ OpenInPlace(r)
         \/ \E n \in Inodes : FirstWriteFails(r, n)
         \/ \E n \in Inodes : FirstWriteInterrupted(r, n)
         \/ OpenError(r)
         \/ WriteError(r)
         \/ AddData(r)
         \/ AddDataInterrupted(r)
         \/ AddDataStopped(r)
         \/ FinishJob(r)
         \/ Requeue(r)
         \/ JobDies(r)
    \/ \E r \in Readers :
         \/ AwaitError(r)
         \/ CookResponseHeader(r)
         \/ SendCheck(r)
         \/ SendFile(r)
         \/ ChunkEnd(r)
         \/ ChunkHeader(r)
         \/ ChunkData(r)
         \/ Disconnect(r)
         \/ StreamOk(r)
         \/ Close(r)
    \/ \E i \in Items : MarkFaulty(i)
    \/ UpstreamChange
    \/ Crash

Spec == Init /\ [][Next]_vars

-----------------------------------------------------------------------------
(* Properties *)

HeadType == [good : BOOLEAN, len : Int, date : Versions \cup {NoDate}]

ItemType ==
    [status : FiStatus, cached : Int, checked : Int, clen : Int,
     date : Versions \cup {NoDate}, good : BOOLEAN, vol : BOOLEAN,
     replace : BOOLEAN, fd : Inodes \cup {NoInode}]

ReaderType ==
    [pc : {"idle", "add", "await", "send", "sendfile", "chunk", "chunkdata",
           "ok", "err", "closing"},
     it : Items \cup {NoItem}, mode : {"none", "plain", "chunked"}, ann : Int,
     lim : Nat, final : BOOLEAN, fd : Inodes \cup {NoInode}, got : Seq(Versions)]

JobType ==
    [pc : {"none", "queued", "sent", "body", "broken"}, it : Items \cup {NoItem},
     assigned : BOOLEAN, store : BOOLEAN, used : Int,
     ifRange : Versions \cup {NoDate}, ver : Versions \cup {0}, left : Nat,
     chunked : BOOLEAN]

TypeOK ==
    /\ upstream \in Versions
    /\ path \in Inodes \cup {NoInode}
    /\ data \in [Inodes -> Seq(Versions)]
    /\ head \in HeadType
    /\ item \in [Items -> ItemType]
    /\ reg \in Items \cup {NoItem}
    /\ reader \in [Readers -> ReaderType]
    /\ job \in [Readers -> JobType]
    /\ ahead \subseteq Items
    /\ suspect \in BOOLEAN

\* Several downloaders may have jobs for an item, and reconnect and resume
\* in any order, but one of them only is the item's writer.
OneWriter ==
    \A r, s \in Readers :
        job[r].assigned /\ job[s].assigned /\ job[r].it = job[s].it => r = s

\* A client waits for an unfinished item only while some downloader has a
\* job for it: "the last downloader disappeared, needing to tell observers".
WaitingHasDownloader ==
    \A r \in Readers :
        /\ reader[r].pc \in {"await", "send", "sendfile", "chunk", "chunkdata"}
        /\ item[reader[r].it].status < FIST_COMPLETE
        => Downloads(reader[r].it, job) # {}

\* The verified size that readers go by never shrinks, whatever the server
\* answers to a resumed request and whatever happens to a write, unless the
\* item ends in error, where it may be one short.
SizeCheckedGrows ==
    [][\A i \in Items :
         /\ item[i].status # FIST_FRESH
         /\ item'[i].status # FIST_FRESH /\ item'[i].status <= FIST_COMPLETE
         => item'[i].checked >= item[i].checked]_vars

\* The length that was announced to a client stays that of the item while
\* the item is not in error.
AnnouncedLengthStays ==
    \A r \in Readers :
        /\ reader[r].mode = "plain"
        /\ item[reader[r].it].status <= FIST_COMPLETE
        => item[reader[r].it].clen = reader[r].ann

\* Whenever the program is killed, the next one may trust what it finds: a
\* data file as long as its header says is the version of the header's date.
DiskSound ==
    ~suspect /\ path # NoInode /\ head.len = Len(data[path])
        => head.date # NoDate /\ data[path] = Whole(head.date)

\* What the item reports as checked is in the file a reader opens.
CheckedIsReadable ==
    ~suspect => \A r \in Readers :
        /\ reader[r].pc = "sendfile" =>
             SourceFile(r) # NoInode /\ Available(r, SourceFile(r)) > 0
        /\ reader[r].pc = "chunkdata" => Available(r, reader[r].fd) > 0

\* The client has all that the response header promised.
Served(rd) ==
    \/ rd.mode = "plain" /\ Len(rd.got) = rd.ann
    \/ rd.mode = "chunked" /\ rd.pc = "ok"

\* What a client receives is a part of one version from its start, and a
\* response that looks complete is the whole version, unless the file was
\* damaged in one of the ways that suspect stands for.
DeliveredWhole ==
    ~suspect => \A r \in Readers : \E v \in Versions :
        /\ Len(reader[r].got) <= Lengths[v]
        /\ reader[r].got = SubSeq(Whole(v), 1, Len(reader[r].got))
        /\ Served(reader[r]) => reader[r].got = Whole(v)
=============================================================================
