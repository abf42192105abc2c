------------------------ MODULE ItemTransferProofs --------------------------
(***************************************************************************)
(* Every safety property of ItemTransfer, for any number of clients, item  *)
(* objects and files and any lengths of the versions.  The invariant has   *)
(* two parts.  Structure is what items, jobs and readers know of each      *)
(* other, and is preserved by every step; the properties that do not speak *)
(* of contents follow from it.  Content relates all that is known of the   *)
(* data file (the .head file, the item's sizes and date, the position of a *)
(* request, what readers have sent) to the blocks in it; it is preserved,  *)
(* given Structure, by every step but those that suspect records.  AheadInv *)
(* says that only those put the position of a file ahead of its item's size. *)
(***************************************************************************)
EXTENDS ItemTransfer, SequenceTheorems, FiniteSetTheorems, TLAPS

USE DEF FIST_FRESH, FIST_INITED, FIST_DLPENDING, FIST_DLGOTHEAD, FIST_DLRECEIVING,
        FIST_COMPLETE, FIST_DLERROR, FIST_DLSTOP, Unknown, NoDate

-----------------------------------------------------------------------------
(* The inductive invariant: structure *)

\* The types of all variables but ahead, of which AheadInv speaks.
Typed ==
    /\ upstream \in Versions
    /\ path \in Inodes \cup {NoInode}
    /\ data \in [Inodes -> Seq(Versions)]
    /\ head \in HeadType
    /\ item \in [Items -> ItemType]
    /\ reg \in Items \cup {NoItem}
    /\ reader \in [Readers -> ReaderType]
    /\ job \in [Readers -> JobType]
    /\ suspect \in BOOLEAN

\* A file was written further than was checked only after an interruption.
AheadInv == ahead \subseteq Items /\ (ahead # {} => suspect)

\* What the fields of an item say about each other.
ItemInv(it) ==
    /\ it.cached >= -1 /\ it.checked >= -1 /\ it.clen >= -1
    /\ it.status < FIST_DLGOTHEAD => it.checked = -1 /\ it.fd = NoInode
    /\ it.status < FIST_DLGOTHEAD /\ it.cached > 0 => it.vol /\ ~it.replace
    /\ it.status <= FIST_COMPLETE /\ it.fd # NoInode => it.checked > 0
    /\ it.status = FIST_COMPLETE => it.checked = it.clen
    /\ it.status = FIST_COMPLETE /\ it.clen < 0 => it.date = NoDate /\ ~it.good
    /\ it.date # NoDate => it.clen = -1 \/ it.clen = Lengths[it.date]

\* The .head file: a dated length is that of the version.
HeadInv == head.len >= -1 /\ (head.date # NoDate => head.len = -1 \/ head.len = Lengths[head.date])

JobShape(j) ==
    /\ j.pc = "none" => j = NoJob
    /\ j.pc # "none" => j.it \in Items
    /\ j.pc = "body" => j.assigned /\ j.ver \in Versions
    /\ j.used >= -1

ReaderShape(r) ==
    /\ reader[r].it = NoItem <=> reader[r].pc \in {"idle", "closing"}
    /\ reader[r].it = NoItem => reader[r].mode = "none"
    /\ reader[r].it # NoItem => reader[r].it = reg
    /\ reader[r].pc = "add" => job[r].pc = "none"
    /\ reader[r].pc \in {"send", "sendfile", "chunk", "chunkdata"} => reader[r].mode # "none"
    /\ reader[r].pc = "chunkdata" => reader[r].fd # NoInode

ItemShape(i) ==
    /\ Referenced(i, reg, reader, job) => item[i].status # FIST_FRESH
    /\ ~Referenced(i, reg, reader, job) => item[i] = FreeItem

\* What a job and the item it is for know of each other.
Writes(j, it) ==
    /\ j.assigned => it.status >= FIST_DLGOTHEAD
    /\ j.pc = "body" /\ j.store =>
         /\ it.date = j.ver /\ it.checked >= 0 /\ it.checked + j.left = Lengths[j.ver]
         /\ it.status # FIST_COMPLETE
         /\ it.fd = NoInode => j.left > 0
    /\ j.pc = "body" /\ ~j.store => it.status >= FIST_COMPLETE
    /\ j.pc = "sent" /\ j.assigned /\ it.status < FIST_COMPLETE =>
         j.used = UsedRangeStartPos(it) /\ j.ifRange = it.date
    /\ j.assigned /\ it.status = FIST_DLGOTHEAD /\ it.clen < 0 /\ it.checked > 0
         => j.pc = "broken"

Follows(r) ==
    /\ reader[r].mode # "none" =>
         /\ item[reader[r].it].status >= FIST_DLGOTHEAD
         /\ item[reader[r].it].status <= FIST_COMPLETE => item[reader[r].it].checked >= 0
    /\ reader[r].mode = "plain" => item[reader[r].it].clen = reader[r].ann
    /\ reader[r].mode = "plain" /\ reader[r].ann < 0 =>
         \A s \in Readers : job[s].it = reader[r].it /\ job[s].assigned => job[s].pc = "broken"

Waiting(r) ==
    /\ reader[r].pc \in {"await", "send", "sendfile", "chunk", "chunkdata"}
    /\ item[reader[r].it].status < FIST_COMPLETE
    => Downloads(reader[r].it, job) # {}

Active(i) ==
    item[i].status \in {FIST_DLGOTHEAD, FIST_DLRECEIVING} => Downloads(i, job) # {}

Structure ==
    /\ Typed
    /\ HeadInv
    /\ \A i \in Items : ItemInv(item[i]) /\ ItemShape(i) /\ Active(i)
    /\ \A r \in Readers : JobShape(job[r]) /\ ReaderShape(r) /\ Follows(r) /\ Waiting(r)
    /\ \A r \in Readers : job[r].it \in Items => Writes(job[r], item[job[r].it])
    /\ OneWriter

-----------------------------------------------------------------------------
\* Every version has blocks, and its number is a date.
LEMMA LengthsType ==
    ASSUME NEW v \in Versions
    PROVE  Lengths[v] \in Nat /\ Lengths[v] > 0 /\ v \in Nat /\ v # NoDate
BY TransferAssumption DEF Versions

\* The states of FiStatus.
LEMMA StatusType == {0, 1, 2, 3, 4, 5, 6, 7} \subseteq FiStatus
BY DEF FiStatus

\* There is a first version.
LEMMA OneIsVersion == 1 \in Versions
BY TransferAssumption DEF Versions

\* A new item object.
LEMMA FreeItemType ==
    /\ FreeItem \in ItemType
    /\ FreeItem.status = FIST_FRESH /\ FreeItem.cached = -1 /\ FreeItem.checked = -1
    /\ FreeItem.clen = -1 /\ FreeItem.date = NoDate /\ FreeItem.fd = NoInode
BY DEF FreeItem, ItemType, FiStatus

\* A client without a job.
LEMMA IdleReaderType ==
    /\ IdleReader \in ReaderType
    /\ IdleReader.pc = "idle" /\ IdleReader.it = NoItem /\ IdleReader.mode = "none"
    /\ IdleReader.ann = -1 /\ IdleReader.lim = 0 /\ IdleReader.fd = NoInode
    /\ IdleReader.got = << >>
BY DEF IdleReader, ReaderType

\* A downloader without a job.
LEMMA NoJobType ==
    /\ NoJob \in JobType
    /\ NoJob.pc = "none" /\ NoJob.it = NoItem /\ NoJob.used = -1 /\ NoJob.ifRange = NoDate
    /\ NoJob.ver = 0 /\ NoJob.left = 0
BY DEF NoJob, JobType

\* The flags of no job.
LEMMA NoJobFlags == ~NoJob.assigned /\ NoJob.store /\ ~NoJob.chunked
<1>1. NoJob.assigned = FALSE
  BY Zenon DEF NoJob
<1>2. NoJob.store = TRUE
  BY Zenon DEF NoJob
<1>3. NoJob.chunked = FALSE
  BY Zenon DEF NoJob
<1> QED
  BY <1>1, <1>2, <1>3

\* The flags of a new item.
LEMMA FreeItemFlags == ~FreeItem.good /\ ~FreeItem.vol /\ ~FreeItem.replace
<1>1. FreeItem.good = FALSE
  BY Zenon DEF FreeItem
<1>2. FreeItem.vol = FALSE
  BY Zenon DEF FreeItem
<1>3. FreeItem.replace = FALSE
  BY Zenon DEF FreeItem
<1> QED
  BY <1>1, <1>2, <1>3

\* A new item agrees with itself.
LEMMA FreeItemInv == ItemInv(FreeItem)
BY FreeItemType DEF ItemInv

\* No job has the shape of a job.
LEMMA NoJobShape == JobShape(NoJob)
BY NoJobType DEF JobShape

\* The program starts with a structure.
LEMMA StructureInit == Init => Structure
<1> SUFFICES ASSUME Init PROVE Structure
  OBVIOUS
<1> USE TransferAssumption
<1>1. Typed
  <2>1. upstream \in Versions
    BY OneIsVersion DEF Init
  <2>2. path \in Inodes \cup {NoInode}
    BY DEF Init
  <2>3. data \in [Inodes -> Seq(Versions)]
    BY OneIsVersion DEF Init
  <2>4. NoHead \in HeadType /\ DamagedHead \in HeadType
    BY DEF NoHead, DamagedHead, HeadType
  <2>5. head \in HeadType
    BY <2>4 DEF Init
  <2> QED
    BY <2>1, <2>2, <2>3, <2>5, FreeItemType, IdleReaderType, NoJobType DEF Init, Typed
<1>2. HeadInv
  BY DEF Init, HeadInv, NoHead, DamagedHead
<1>3. \A i \in Items : ItemInv(item[i]) /\ ItemShape(i) /\ Active(i)
  BY FreeItemType, FreeItemInv, IdleReaderType, NoJobType
  DEF Init, ItemShape, Active, Referenced, Users, Downloads
<1>4. \A r \in Readers : JobShape(job[r]) /\ ReaderShape(r) /\ Follows(r) /\ Waiting(r)
  BY FreeItemType, NoJobShape, IdleReaderType, NoJobType
  DEF Init, ReaderShape, Follows, Waiting
<1>5. \A r \in Readers : job[r].it \notin Items
  BY NoJobType DEF Init
<1>6. OneWriter
  BY NoJobFlags DEF Init, OneWriter
<1> QED
  BY <1>1, <1>2, <1>3, <1>4, <1>5, <1>6 DEF Structure

-----------------------------------------------------------------------------
\* A file that somebody can reach keeps its content.
LEMMA ReachableContent ==
    ASSUME Typed, data' = Reachable
    PROVE  /\ data' \in [Inodes -> Seq(Versions)]
           /\ \A n \in Inodes : n \in OpenFiles' => data'[n] = data[n]
           /\ \A n \in Inodes : n \notin OpenFiles' => data'[n] = << >>
<1> DEFINE open == OpenFiles'
<1>1. data' = [n \in Inodes |-> IF n \in open THEN data[n] ELSE << >>]
  BY DEF Reachable
<1> HIDE DEF open
<1>2. << >> \in Seq(Versions)
  OBVIOUS
<1>3. /\ data' \in [Inodes -> Seq(Versions)]
      /\ \A n \in Inodes : n \in open => data'[n] = data[n]
      /\ \A n \in Inodes : n \notin open => data'[n] = << >>
  BY <1>1, <1>2 DEF Typed
<1> QED
  BY <1>3 DEF open

\* A step of a reader that keeps its item.
ReaderMoves(r, rd) ==
    /\ r \in Readers /\ rd \in ReaderType
    /\ reader' = [reader EXCEPT ![r] = rd]
    /\ reader[r].it # NoItem /\ rd.it = reader[r].it
    /\ rd.pc \notin {"idle", "closing", "add"}
    /\ rd.pc \in {"send", "sendfile", "chunk", "chunkdata"} => rd.mode # "none"
    /\ rd.pc = "chunkdata" => rd.fd # NoInode
    /\ data' \in [Inodes -> Seq(Versions)]
    /\ UNCHANGED <<upstream, path, head, item, reg, job, suspect>>

\* Such a step preserves the structure if the reader still fits its item.
LEMMA ReaderMovesStructure ==
    ASSUME Structure, NEW r, NEW rd, ReaderMoves(r, rd),
           rd.pc = "err" \/ rd.pc = "ok" \/
             reader[r].pc \in {"await", "send", "sendfile", "chunk", "chunkdata"},
           rd.mode # "none" =>
             /\ item[rd.it].status >= FIST_DLGOTHEAD
             /\ item[rd.it].status <= FIST_COMPLETE => item[rd.it].checked >= 0,
           rd.mode = "plain" => item[rd.it].clen = rd.ann,
           rd.mode = "plain" /\ rd.ann < 0 =>
             \A s \in Readers : job[s].it = rd.it /\ job[s].assigned => job[s].pc = "broken"
    PROVE  Structure'
<1> USE DEF ReaderMoves
<1>1. /\ \A s \in Readers : s # r => reader'[s] = reader[s]
      /\ reader'[r] = rd
      /\ \A s \in Readers : reader'[s].it = reader[s].it
  BY DEF Structure, Typed
<1>2. Typed'
  BY DEF Structure, Typed
<1>3. \A i \in Items : Users(i, reader') = Users(i, reader)
  BY <1>1 DEF Users
<1>4. \A i \in Items : ItemInv(item[i])' /\ ItemShape(i)' /\ Active(i)'
  BY <1>3 DEF Structure, ItemInv, ItemShape, Active, Referenced
<1>5. ASSUME NEW s \in Readers
      PROVE  JobShape(job[s])' /\ ReaderShape(s)' /\ Follows(s)' /\ Waiting(s)'
  <2>1. JobShape(job[s])'
    BY DEF Structure, JobShape
  <2>2. ReaderShape(s)'
    BY <1>1 DEF Structure, ReaderShape
  <2>3. Follows(s)'
    BY <1>1 DEF Structure, Follows
  <2>4. Waiting(s)'
    BY <1>1 DEF Structure, Waiting, Downloads
  <2> QED
    BY <2>1, <2>2, <2>3, <2>4
<1> QED
  BY <1>2, <1>4, <1>5 DEF Structure, HeadInv, OneWriter, Writes, UsedRangeStartPos

\* The steps of SendData are such steps.
LEMMA ReaderActions ==
    ASSUME Structure, NEW r \in Readers,
           \/ AddJobFail(r) \/ AwaitError(r) \/ CookResponseHeader(r) \/ SendCheck(r)
           \/ SendFile(r) \/ ChunkEnd(r) \/ ChunkHeader(r) \/ ChunkData(r)
    PROVE  ReaderMoves(r, reader'[r]) /\ Structure'
<1> DEFINE rd == reader[r]
           it == item[rd.it]
<1>0. rd \in ReaderType /\ reader \in [Readers -> ReaderType] /\ data \in [Inodes -> Seq(Versions)]
  BY DEF Structure, Typed
<1>1. /\ rd.it = NoItem <=> rd.pc \in {"idle", "closing"}
      /\ rd.mode # "none" => it.status >= FIST_DLGOTHEAD /\ (it.status <= FIST_COMPLETE => it.checked >= 0)
      /\ rd.pc \in {"send", "sendfile", "chunk", "chunkdata"} => rd.mode # "none"
      /\ rd.pc = "chunkdata" => rd.fd # NoInode
      /\ rd.mode = "plain" => it.clen = rd.ann
      /\ rd.mode = "plain" /\ rd.ann < 0 =>
           \A s \in Readers : job[s].it = rd.it /\ job[s].assigned => job[s].pc = "broken"
  BY DEF Structure, ReaderShape, Follows
<1> DEFINE Keeps(new) ==
             /\ new \in ReaderType /\ new.it = rd.it /\ new.mode = rd.mode /\ new.ann = rd.ann
<1>2. ASSUME NEW new, Keeps(new), reader' = [reader EXCEPT ![r] = new],
             new.pc \notin {"idle", "closing", "add"}, rd.it # NoItem,
             new.pc = "err" \/ new.pc = "ok" \/
               rd.pc \in {"send", "sendfile", "chunk", "chunkdata"},
             new.pc = "chunkdata" => new.fd # NoInode,
             data' \in [Inodes -> Seq(Versions)],
             UNCHANGED <<upstream, path, head, item, reg, job, suspect>>
      PROVE  ReaderMoves(r, reader'[r]) /\ Structure'
  <2>1. reader'[r] = new
    BY <1>0, <1>2
  <2>2. ReaderMoves(r, new)
    BY <1>0, <1>1, <1>2 DEF ReaderMoves
  <2>3. Structure'
    BY <1>1, <1>2, <2>2, ReaderMovesStructure
  <2> QED
    BY <2>1, <2>2, <2>3
<1>3. CASE AddJobFail(r)
  <2> DEFINE new == [rd EXCEPT !.pc = "err"]
  <2>1. Keeps(new) /\ new.pc = "err"
    BY <1>0 DEF ReaderType
  <2>2. reader' = [reader EXCEPT ![r] = new]
    BY <1>3 DEF AddJobFail
  <2> HIDE DEF new
  <2> QED
    BY <1>0, <1>1, <1>2, <1>3, <2>1, <2>2 DEF AddJobFail, diskvars
<1>4. CASE AwaitError(r)
  <2> DEFINE new == [rd EXCEPT !.pc = "err"]
  <2>1. Keeps(new) /\ new.pc = "err"
    BY <1>0 DEF ReaderType
  <2>2. reader' = [reader EXCEPT ![r] = new]
    BY <1>4 DEF AwaitError
  <2> HIDE DEF new
  <2> QED
    BY <1>0, <1>1, <1>2, <1>4, <2>1, <2>2 DEF AwaitError, diskvars
<1>5. CASE CookResponseHeader(r)
  <2> DEFINE new == Response(rd, it)
  <2>0. rd.pc = "await" /\ rd.it \in Items /\ it \in ItemType
    BY <1>0, <1>1, <1>5 DEF CookResponseHeader, Structure, Typed, ReaderType
  <2>1. /\ new \in ReaderType /\ new.it = rd.it
        /\ new.pc = "err" \/ (new.pc \in {"chunk", "send"} /\ new.mode # "none")
    <3>1. CASE ~it.good
      <4>1. new = [rd EXCEPT !.pc = "err"]
        BY <3>1 DEF Response
      <4> QED
        BY <1>0, <4>1 DEF ReaderType
    <3>2. CASE it.good /\ it.clen < 0 /\ it.status = FIST_DLRECEIVING
      <4>1. new = [rd EXCEPT !.pc = "chunk", !.mode = "chunked"]
        BY <3>2 DEF Response
      <4> QED
        BY <1>0, <4>1 DEF ReaderType
    <3>3. CASE it.good /\ ~(it.clen < 0 /\ it.status = FIST_DLRECEIVING)
      <4>1. new = [rd EXCEPT !.pc = "send", !.mode = "plain", !.ann = it.clen]
        BY <3>3 DEF Response
      <4> QED
        BY <1>0, <2>0, <4>1 DEF ReaderType, ItemType
    <3> QED
      BY <3>1, <3>2, <3>3
  <2>2. reader' = [reader EXCEPT ![r] = new]
    BY <1>5 DEF CookResponseHeader
  <2>3. ItemInv(it) /\ it.status <= FIST_COMPLETE /\ Sendable(it, 0)
    BY <1>5, <2>0 DEF CookResponseHeader, Structure
  <2>4. it.status >= FIST_DLGOTHEAD /\ (it.good => it.checked >= 0)
    BY <2>0, <2>3 DEF ItemInv, Sendable, ItemType, FiStatus
  <2>5. new.mode = "plain" => (new.ann = rd.ann /\ new.mode = rd.mode) \/ new.ann = it.clen
    BY <1>0, <2>0 DEF ReaderType, Response, ItemType
  <2>6. ASSUME new.mode = "plain", new.ann < 0,
               NEW s \in Readers, job[s].it = rd.it, job[s].assigned
        PROVE  job[s].pc = "broken"
    <3>1. CASE ~it.good
      <4>1. new = [rd EXCEPT !.pc = "err"]
        BY <3>1 DEF Response
      <4>2. new.mode = rd.mode /\ new.ann = rd.ann
        BY <4>1, <1>0 DEF ReaderType
      <4> QED
        BY <1>1, <2>6, <4>2
    <3>2. CASE it.good
      <4>1. it.clen < 0 /\ it.status # FIST_DLRECEIVING /\ new.ann = it.clen
        BY <1>0, <2>0, <2>6, <3>2 DEF ReaderType, Response, ItemType
      <4>2. it.status = FIST_DLGOTHEAD
        BY <2>0, <2>3, <2>4, <3>2, <4>1 DEF ItemInv, ItemType, FiStatus
      <4>3. it.checked > 0
        BY <2>3, <4>2 DEF Sendable
      <4>4. Writes(job[s], it)
        BY <2>0, <2>6 DEF Structure
      <4> QED
        BY <2>6, <4>1, <4>2, <4>3, <4>4 DEF Writes
    <3> QED
      BY <2>0, <3>1, <3>2 DEF ItemType
  <2>7. ReaderMoves(r, new)
    BY <1>0, <1>1, <2>0, <2>1, <2>2, <1>5 DEF ReaderMoves, CookResponseHeader, diskvars
  <2>8. new.mode = "plain" => it.clen = new.ann
    BY <2>5, <1>1
  <2>9. reader'[r] = new
    BY <1>0, <2>2
  <2>10. new.mode # "none" => it.checked >= 0
    <3>1. CASE ~it.good
      <4>1. new = [rd EXCEPT !.pc = "err"]
        BY <3>1 DEF Response
      <4>2. new.mode = rd.mode
        BY <4>1, <1>0 DEF ReaderType
      <4> QED
        BY <1>1, <2>3, <4>2
    <3>2. CASE it.good
      BY <2>4, <3>2
    <3> QED
      BY <3>1, <3>2
  <2> HIDE DEF new
  <2> QED
    BY <2>0, <2>1, <2>4, <2>6, <2>7, <2>8, <2>9, <2>10, ReaderMovesStructure
<1>6. CASE SendCheck(r)
  <2> DEFINE new == [rd EXCEPT !.pc = "sendfile", !.lim = it.checked,
                               !.final = (it.status = FIST_COMPLETE)]
  <2>0. rd.pc = "send" /\ it.checked > Len(rd.got) /\ it.checked \in Nat
    <3>1. rd.pc = "send" /\ it.checked > Len(rd.got) /\ rd.it \in Items
      BY <1>0, <1>1, <1>6 DEF SendCheck, Pos, ReaderType
    <3> QED
      BY <1>0, <3>1, LenProperties DEF Structure, Typed, ItemType, ReaderType
  <2>1. Keeps(new) /\ new.pc = "sendfile"
    BY <1>0, <2>0 DEF ReaderType
  <2>2. reader' = [reader EXCEPT ![r] = new]
    BY <1>6 DEF SendCheck
  <2> HIDE DEF new
  <2> QED
    BY <1>0, <1>1, <1>2, <1>6, <2>0, <2>1, <2>2 DEF SendCheck, diskvars
<1>7. ASSUME NEW n \in Inodes, NEW count \in Nat, count \in Counts(r, n), rd.lim \in Nat
      PROVE  /\ Sent(r, n, count) \in ReaderType
             /\ Sent(r, n, count).it = rd.it /\ Sent(r, n, count).mode = rd.mode
             /\ Sent(r, n, count).ann = rd.ann /\ Sent(r, n, count).fd # NoInode
  <2> DEFINE got == rd.got \o SubSeq(data[n], Len(rd.got) + 1, Len(rd.got) + count)
  <2>1. data[n] \in Seq(Versions) /\ rd.got \in Seq(Versions)
    BY <1>0 DEF ReaderType
  <2>2. count = 0 \/ Len(rd.got) + count <= Len(data[n])
    BY <1>7, <2>1, LenProperties DEF Counts, Available, Pos
  <2>3. SubSeq(data[n], Len(rd.got) + 1, Len(rd.got) + count) \in Seq(Versions)
    BY <2>1, <2>2, SubSeqProperties, LenProperties
  <2>4. got \in Seq(Versions)
    BY <2>1, <2>3, ConcatProperties
  <2>5. Sent(r, n, count) = [rd EXCEPT !.fd = n, !.got = got]
    BY DEF Sent
  <2> HIDE DEF got
  <2> QED
    BY <1>0, <2>4, <2>5, TransferAssumption DEF ReaderType
<1>8. CASE SendFile(r)
  <2> DEFINE n == SourceFile(r)
  <2>1. n \in Inodes /\ rd.pc = "sendfile" /\ rd.lim \in Nat
    BY <1>0, <1>8 DEF SendFile, SourceFile, ReaderType, Structure, Typed
  <2>2. PICK count \in Counts(r, n) :
          reader' = [reader EXCEPT ![r] =
            [Sent(r, n, count) EXCEPT
               !.pc = IF reader[r].final /\ Pos(r) + count = reader[r].lim
                      THEN "ok" ELSE "send",
               !.lim = 0, !.final = FALSE]]
    BY <1>8 DEF SendFile
  <2>3. count \in Nat
    BY <1>0, <2>1, LenProperties DEF Counts, Available, Pos, ReaderType
  <2> DEFINE sent == Sent(r, n, count)
             new == [sent EXCEPT
               !.pc = IF reader[r].final /\ Pos(r) + count = reader[r].lim
                      THEN "ok" ELSE "send",
               !.lim = 0, !.final = FALSE]
  <2>4. Keeps(sent)
    BY <1>7, <2>1, <2>2, <2>3
  <2>5. reader' = [reader EXCEPT ![r] = new]
    BY <2>2
  <2> HIDE DEF sent
  <2>6. Keeps(new) /\ new.pc \in {"ok", "send"}
    BY <2>4 DEF ReaderType
  <2> HIDE DEF new
  <2> QED
    BY <1>0, <1>1, <1>2, <1>8, <2>1, <2>5, <2>6 DEF SendFile, diskvars
<1>9. CASE ChunkEnd(r)
  <2> DEFINE new == [rd EXCEPT !.pc = "ok"]
  <2>1. Keeps(new) /\ new.pc = "ok"
    BY <1>0 DEF ReaderType
  <2>2. reader' = [reader EXCEPT ![r] = new]
    BY <1>9 DEF ChunkEnd
  <2> HIDE DEF new
  <2> QED
    BY <1>0, <1>1, <1>2, <1>9, <2>1, <2>2 DEF ChunkEnd, diskvars
<1>10. CASE ChunkHeader(r)
  <2> DEFINE new == [rd EXCEPT !.pc = "chunkdata", !.lim = it.checked, !.fd = path]
  <2>0. rd.pc = "chunk" /\ it.checked \in Nat /\ path \in Inodes \cup {NoInode}
    <3>1. rd.pc = "chunk" /\ rd.it \in Items /\ it \in ItemType
      BY <1>0, <1>1, <1>10 DEF ChunkHeader, ReaderType, Structure, Typed
    <3> QED
      BY <1>1, <1>10, <3>1 DEF ChunkHeader, ItemType, Structure, Typed
  <2>1. Keeps(new) /\ new.pc = "chunkdata" /\ new.fd # NoInode
    BY <1>0, <1>10, <2>0 DEF ReaderType, ChunkHeader
  <2>2. reader' = [reader EXCEPT ![r] = new]
    BY <1>10 DEF ChunkHeader
  <2>3. data' \in [Inodes -> Seq(Versions)]
    BY <1>10, ReachableContent DEF ChunkHeader, Structure
  <2> HIDE DEF new
  <2> QED
    BY <1>0, <1>1, <1>2, <1>10, <2>0, <2>1, <2>2, <2>3 DEF ChunkHeader
<1>11. CASE ChunkData(r)
  <2> DEFINE n == rd.fd
  <2>1. n \in Inodes /\ rd.pc = "chunkdata" /\ rd.lim \in Nat
    BY <1>0, <1>1, <1>11 DEF ChunkData, ReaderType
  <2>2. PICK count \in Counts(r, n) :
          reader' = [reader EXCEPT ![r] =
            [Sent(r, n, count) EXCEPT
               !.pc = IF Pos(r) + count = reader[r].lim THEN "chunk" ELSE "chunkdata",
               !.lim = IF Pos(r) + count = reader[r].lim THEN 0 ELSE @]]
    BY <1>11 DEF ChunkData
  <2>3. count \in Nat
    BY <1>0, <2>1, LenProperties DEF Counts, Available, Pos, ReaderType
  <2> DEFINE sent == Sent(r, n, count)
             new == [sent EXCEPT
               !.pc = IF Pos(r) + count = reader[r].lim THEN "chunk" ELSE "chunkdata",
               !.lim = IF Pos(r) + count = reader[r].lim THEN 0 ELSE @]
  <2>4. Keeps(sent) /\ sent.fd # NoInode
    BY <1>7, <2>1, <2>2, <2>3
  <2>5. reader' = [reader EXCEPT ![r] = new]
    BY <2>2
  <2> HIDE DEF sent
  <2>6. Keeps(new) /\ new.pc \in {"chunk", "chunkdata"} /\ new.fd # NoInode
    BY <2>4 DEF ReaderType
  <2> HIDE DEF new
  <2> QED
    BY <1>0, <1>1, <1>2, <1>11, <2>1, <2>5, <2>6 DEF ChunkData, diskvars
<1> QED
  BY <1>3, <1>4, <1>5, <1>6, <1>8, <1>9, <1>10, <1>11

-----------------------------------------------------------------------------
\* A step of a job for its item.
JobMoves(r, j, it) ==
    /\ r \in Readers /\ j \in JobType /\ it \in ItemType
    /\ job[r].it \in Items /\ job[r].pc \notin {"none", "broken"}
    /\ j.it = job[r].it /\ j.pc # "none"
    /\ job' = [job EXCEPT ![r] = j]
    /\ item' = [item EXCEPT ![job[r].it] = it]
    /\ UNCHANGED <<reg, reader>>

DiskTypes ==
    /\ upstream' \in Versions /\ path' \in Inodes \cup {NoInode}
    /\ data' \in [Inodes -> Seq(Versions)] /\ head' \in HeadType /\ suspect' \in BOOLEAN
    /\ HeadInv'

\* Such a step preserves the structure if the job still fits its item.
LEMMA JobMovesStructure ==
    ASSUME Structure, NEW r, NEW j, NEW it, JobMoves(r, j, it), DiskTypes,
           JobShape(j), ItemInv(it), Writes(j, it), it.status # FIST_FRESH,
           job[r].assigned => j.assigned,
           j.assigned => job[r].assigned \/ item[job[r].it].status < FIST_DLGOTHEAD,
           it = item[job[r].it] \/ job[r].assigned \/ item[job[r].it].status < FIST_DLGOTHEAD,
           item[job[r].it].status >= FIST_DLGOTHEAD =>
             /\ it.status >= FIST_DLGOTHEAD
             /\ item[job[r].it].clen >= 0 => it.clen = item[job[r].it].clen,
           it.status <= FIST_COMPLETE =>
             /\ it.checked >= item[job[r].it].checked
             /\ item[job[r].it].status <= FIST_COMPLETE \/ it.checked >= 0
    PROVE  /\ Structure'
           /\ \A k \in Items :
                item'[k].status <= FIST_COMPLETE => item'[k].checked >= item[k].checked
<1> DEFINE i == job[r].it
<1> USE DEF JobMoves
<1>0. /\ i \in Items /\ r \in Readers
      /\ item \in [Items -> ItemType] /\ job \in [Readers -> JobType]
      /\ reader \in [Readers -> ReaderType] /\ reg \in Items \cup {NoItem}
  BY DEF Structure, Typed
<1>1. /\ \A s \in Readers : s # r => job'[s] = job[s]
      /\ job'[r] = j
      /\ \A s \in Readers : job'[s].it = job[s].it
      /\ \A k \in Items : k # i => item'[k] = item[k]
      /\ item'[i] = it
  BY <1>0
<1>2. Typed'
  BY <1>0 DEF Typed, DiskTypes
<1>3. \A k \in Items : Downloads(k, job') = Downloads(k, job)
  BY <1>1 DEF Downloads
<1>4. r \in Downloads(i, job)
  BY <1>0 DEF Downloads
<1>5. ASSUME NEW k \in Items
      PROVE  (ItemInv(item[k]) /\ ItemShape(k) /\ Active(k))'
  <2>1. ItemInv(item'[k])
    BY <1>1 DEF Structure
  <2>2. ItemShape(k)'
    BY <1>1, <1>3, <1>4 DEF Structure, ItemShape, Referenced
  <2>3. Active(k)'
    BY <1>1, <1>3, <1>4 DEF Structure, Active
  <2> QED
    BY <2>1, <2>2, <2>3
<1>6. ASSUME NEW s \in Readers
      PROVE  (JobShape(job[s]) /\ ReaderShape(s) /\ Follows(s) /\ Waiting(s))'
  <2>1. JobShape(job'[s])
    BY <1>1 DEF Structure
  <2>2. ReaderShape(s)'
    BY <1>1 DEF Structure, ReaderShape, JobShape
  <2>3. Follows(s)'
    <3>1. CASE reader[s].it # i
      <4>1. reader[s].mode # "none" => reader[s].it \in Items
        BY <1>0 DEF Structure, ReaderShape, ReaderType
      <4>2. reader[s].mode # "none" => item'[reader[s].it] = item[reader[s].it]
        BY <1>1, <3>1, <4>1
      <4> QED
        BY <1>1, <3>1, <4>1, <4>2 DEF Structure, Follows
    <3>2. CASE reader[s].it = i
      <4>1. reader[s].mode # "none" => item[i].status >= FIST_DLGOTHEAD /\ (item[i].status <= FIST_COMPLETE => item[i].checked >= 0)
        BY <3>2 DEF Structure, Follows
      <4>2. reader[s].mode # "none" => it.status >= FIST_DLGOTHEAD /\ (it.status <= FIST_COMPLETE => it.checked >= 0)
        BY <1>0, <4>1 DEF ItemType
      <4>3. ASSUME reader[s].mode = "plain", reader[s].ann < 0
            PROVE  ~job[r].assigned /\ it = item[i] /\ ~j.assigned
        <5>1. job[r].assigned => job[r].pc = "broken"
          BY <1>0, <3>2, <4>3 DEF Structure, Follows
        <5>2. item[i].status \in FiStatus
          BY <1>0 DEF ItemType
        <5> QED
          BY <5>1, <5>2, <4>1, <4>3 DEF FiStatus
      <4>4. reader[s].mode = "plain" => it.clen = reader[s].ann
        <5>1. item[i].clen \in Int /\ reader[s].ann \in Int
          BY <1>0 DEF ItemType, ReaderType
        <5> QED
          BY <3>2, <4>1, <4>3, <5>1 DEF Structure, Follows
      <4>5. reader[s].mode = "plain" /\ reader[s].ann < 0 =>
              \A q \in Readers : job'[q].it = i /\ job'[q].assigned => job'[q].pc = "broken"
        BY <1>1, <3>2, <4>3 DEF Structure, Follows
      <4> QED
        BY <1>1, <3>2, <4>2, <4>4, <4>5 DEF Follows
    <3> QED
      BY <3>1, <3>2
  <2>4. Waiting(s)'
    <3>1. CASE reader[s].it # i
      <4>1. Waiting(s) /\ ReaderShape(s) /\ reader[s] \in ReaderType
        BY <1>0 DEF Structure
      <4>2. reader[s].pc \notin {"idle", "closing"} => reader[s].it \in Items
        BY <4>1 DEF ReaderShape, ReaderType
      <4>3. reader[s].it \in Items => item'[reader[s].it] = item[reader[s].it]
        BY <1>1, <3>1
      <4> QED
        BY <1>3, <4>1, <4>2, <4>3 DEF Waiting
    <3>2. CASE reader[s].it = i
      BY <1>3, <1>4, <3>2, <1>0 DEF Waiting
    <3> QED
      BY <3>1, <3>2
  <2> QED
    BY <2>1, <2>2, <2>3, <2>4
<1>7. ASSUME NEW s \in Readers, s # r, job[s].it = i
      PROVE  it = item[i] \/ (~job[s].assigned /\ job[s].pc # "body")
  <2>1. job[s].assigned => item[i].status >= FIST_DLGOTHEAD
    BY <1>0, <1>7 DEF Structure, Writes
  <2>2. ~(job[r].assigned /\ job[s].assigned)
    BY <1>0, <1>7 DEF Structure, OneWriter
  <2>3. job[s].pc = "body" => job[s].assigned
    BY <1>7 DEF Structure, JobShape
  <2>4. item[i].status \in FiStatus
    BY <1>0 DEF ItemType
  <2> QED
    BY <2>1, <2>2, <2>3, <2>4 DEF FiStatus
<1>8. ASSUME NEW s \in Readers, job'[s].it \in Items
      PROVE  Writes(job'[s], item'[job'[s].it])
  <2>1. CASE s = r
    BY <1>0, <1>1, <2>1
  <2>2. CASE s # r /\ job[s].it = i /\ it # item[i]
    <3>1. ~job[s].assigned /\ job[s].pc # "body"
      BY <1>7, <2>2
    <3> QED
      BY <1>1, <2>2, <3>1 DEF Writes
  <2>3. CASE s # r /\ (job[s].it # i \/ it = item[i])
    <3>1. job'[s] = job[s] /\ item'[job[s].it] = item[job[s].it]
      BY <1>1, <1>8, <2>3
    <3> QED
      BY <1>1, <1>8, <3>1 DEF Structure
  <2> QED
    BY <2>1, <2>2, <2>3
<1>9. OneWriter'
  <2> SUFFICES ASSUME NEW s \in Readers, job'[s].assigned, job'[s].it = i, j.assigned, s # r
               PROVE  FALSE
    BY <1>1 DEF Structure, OneWriter
  <2>1. job[s].assigned /\ job[s].it = i
    BY <1>1
  <2>2. item[i].status >= FIST_DLGOTHEAD
    BY <1>0, <2>1 DEF Structure, Writes
  <2>3. job[r].assigned
    BY <2>2, <1>0 DEF ItemType, FiStatus
  <2> QED
    BY <1>0, <2>1, <2>3 DEF Structure, OneWriter
<1>10. HeadInv'
  BY DEF DiskTypes
<1>11. \A k \in Items :
         item'[k].status <= FIST_COMPLETE => item'[k].checked >= item[k].checked
  BY <1>0, <1>1 DEF ItemType
<1> QED
  BY <1>2, <1>5, <1>6, <1>8, <1>9, <1>10, <1>11 DEF Structure

-----------------------------------------------------------------------------
(* The operators on jobs and items *)

\* A job that lost its connection.
LEMMA UnpluggedFields ==
    ASSUME NEW j \in JobType, NEW pc \in {"queued", "broken"}
    PROVE  /\ Unplugged(j, pc) \in JobType
           /\ Unplugged(j, pc).pc = pc /\ Unplugged(j, pc).it = j.it
           /\ Unplugged(j, pc).assigned = j.assigned
           /\ Unplugged(j, pc).used = -1
<1> DEFINE c == NoJob
<1>1. c \in JobType /\ c.used = -1
  BY NoJobType
<1>2. Unplugged(j, pc) = [c EXCEPT !.pc = pc, !.it = j.it, !.assigned = j.assigned]
  BY DEF Unplugged
<1> HIDE DEF c
<1> QED
  BY <1>1, <1>2 DEF JobType

\* The job that HeaderFails leaves, and the one whose header was refused.
LEMMA RefusedFields ==
    ASSUME NEW j \in JobType
    PROVE  LET u == [Unplugged(j, "broken") EXCEPT !.assigned = TRUE] IN
           /\ u \in JobType
           /\ u.pc = "broken" /\ u.it = j.it /\ u.assigned = TRUE /\ u.used = -1
<1> DEFINE c == Unplugged(j, "broken")
<1>1. c \in JobType /\ c.pc = "broken" /\ c.it = j.it /\ c.used = -1
  BY UnpluggedFields
<1> HIDE DEF c
<1>2. LET u == [c EXCEPT !.assigned = TRUE] IN
      /\ u \in JobType
      /\ u.pc = "broken" /\ u.it = j.it /\ u.assigned = TRUE /\ u.used = -1
  BY <1>1 DEF JobType
<1> QED
  BY <1>2 DEF c

\* A job whose header was accepted.
LEMMA StartedFields ==
    ASSUME NEW j \in JobType, upstream \in Versions, NEW left \in Nat, NEW chunked \in BOOLEAN
    PROVE  LET s == Started(j, TRUE, left, chunked) IN
           /\ s \in JobType
           /\ s.pc = "body" /\ s.it = j.it /\ s.assigned = TRUE /\ s.ver = upstream
           /\ s.left = left /\ s.used = -1 /\ s.store = TRUE /\ s.chunked = chunked
<1> DEFINE c == NoJob
<1>1. c \in JobType /\ c.used = -1 /\ c.store = TRUE
  BY NoJobType, NoJobFlags DEF JobType
<1>2. Started(j, TRUE, left, chunked) =
        [c EXCEPT !.pc = "body", !.it = j.it, !.assigned = TRUE, !.ver = upstream,
                  !.left = left, !.chunked = chunked]
  BY DEF Started
<1> HIDE DEF c
<1>3. LET s == [c EXCEPT !.pc = "body", !.it = j.it, !.assigned = TRUE, !.ver = upstream,
                  !.left = left, !.chunked = chunked] IN
           /\ s \in JobType
           /\ s.pc = "body" /\ s.it = j.it /\ s.assigned = TRUE /\ s.ver = upstream
           /\ s.left = left /\ s.used = -1 /\ s.store = TRUE /\ s.chunked = chunked
  BY <1>1 DEF JobType
<1> QED
  BY <1>2, <1>3

\* A job whose header was refused.
LEMMA StartedRefused ==
    ASSUME NEW j, NEW left, NEW chunked
    PROVE  Started(j, FALSE, left, chunked) = [Unplugged(j, "broken") EXCEPT !.assigned = TRUE]
BY DEF Started

\* A job that reads and drops its body.
LEMMA SkippingFields ==
    ASSUME NEW j \in JobType, upstream \in Versions
    PROVE  /\ Skipping(j) \in JobType
           /\ Skipping(j).pc = "body" /\ Skipping(j).it = j.it /\ Skipping(j).assigned = TRUE
           /\ Skipping(j).ver = upstream /\ Skipping(j).used = -1 /\ Skipping(j).store = FALSE
<1> DEFINE c == Started(j, TRUE, 1, FALSE)
<1>1. c \in JobType /\ c.pc = "body" /\ c.it = j.it /\ c.assigned = TRUE
      /\ c.ver = upstream /\ c.used = -1
  BY StartedFields
<1>2. Skipping(j) = [c EXCEPT !.store = FALSE]
  BY DEF Skipping
<1> HIDE DEF c
<1> QED
  BY <1>1, <1>2 DEF JobType

\* fileitem::DlSetError.
LEMMA DlSetErrorFields ==
    ASSUME NEW it \in ItemType, ItemInv(it)
    PROVE  LET e == DlSetError(it) IN
           /\ e \in ItemType /\ ItemInv(e)
           /\ e.status = FIST_DLERROR /\ e.clen = it.clen /\ e.checked = it.checked
           /\ e.date = it.date /\ e.fd = it.fd /\ e.cached = it.cached
           /\ e.vol = it.vol /\ e.replace = it.replace
<1> DEFINE e == DlSetError(it)
<1>1. e \in ItemType
  BY StatusType DEF DlSetError, ItemType
<1>2. /\ e.status = FIST_DLERROR /\ e.clen = it.clen /\ e.checked = it.checked
      /\ e.date = it.date /\ e.fd = it.fd /\ e.cached = it.cached
  BY DEF DlSetError, ItemType
<1>3. e.vol = it.vol /\ e.replace = it.replace
  BY DEF DlSetError, ItemType
<1> HIDE DEF e
<1>4. ItemInv(e)
  BY <1>1, <1>2, <1>3 DEF ItemInv, ItemType
<1> QED
  BY <1>1, <1>2, <1>3, <1>4 DEF e

\* DlStarted for a response with a body, and the two records that an error
\* code and a denied range leave.
StartedItem(it, date, seek, len) == DlStarted(it, TRUE, date, seek, len)

FailedItem(it, seek) == DlStarted(it, FALSE, NoDate, seek, Unknown)

RestartedItem(it) == [it EXCEPT !.cached = 0, !.replace = TRUE]

\* The item that the probe found to be what the server has.
ProbedItem(it) == [it EXCEPT !.checked = it.cached, !.clen = it.cached]

\* fileitem::DlStarted, where the state fits.
LEMMA DlStartedAccepted ==
    ASSUME NEW it \in ItemType, ItemInv(it),
           NEW date \in Versions \cup {NoDate}, NEW seek \in Int, NEW len \in Int,
           Accepts(it, date, seek, len), it.status < FIST_COMPLETE, seek >= -1
    PROVE  LET s == StartedItem(it, date, seek, len) IN
           /\ s \in ItemType
           /\ s.status = FIST_DLGOTHEAD /\ s.date = date /\ s.clen = len
           /\ s.checked = (IF seek >= 0 THEN seek ELSE it.checked)
           /\ s.checked >= it.checked
           /\ it.status >= FIST_DLGOTHEAD =>
                date = it.date /\ (it.clen = -1 \/ it.clen = len) /\ seek <= it.checked
           /\ s.cached = it.cached /\ s.fd = it.fd /\ s.vol = it.vol /\ s.replace = it.replace
<1>1. StartedItem(it, date, seek, len) =
        [it EXCEPT !.status = FIST_DLGOTHEAD,
                   !.checked = IF seek >= 0 THEN seek ELSE @,
                   !.good = TRUE, !.date = date, !.clen = len]
  BY DEF StartedItem, DlStarted, Accepts
<1>2. ~HotMismatch(it, date, seek, len) /\ ~SeekBack(it, seek)
  BY DEF Accepts
<1> DEFINE s == StartedItem(it, date, seek, len)
<1>3. s \in ItemType
  BY <1>1, StatusType DEF ItemType
<1>4. /\ s.status = FIST_DLGOTHEAD /\ s.date = date /\ s.clen = len
      /\ s.checked = (IF seek >= 0 THEN seek ELSE it.checked)
      /\ s.cached = it.cached /\ s.fd = it.fd
  BY <1>1 DEF ItemType
<1>5. s.vol = it.vol /\ s.replace = it.replace
  BY <1>1 DEF ItemType
<1> HIDE DEF s
<1>6. /\ s.checked >= it.checked
      /\ it.status >= FIST_DLGOTHEAD =>
           date = it.date /\ (it.clen = -1 \/ it.clen = len) /\ seek <= it.checked
  BY <1>2, <1>4 DEF ItemType, ItemInv, HotMismatch, SeekBack, FiStatus
<1> QED
  BY <1>3, <1>4, <1>5, <1>6 DEF s

\* fileitem::DlStarted, where it does not.
LEMMA DlStartedRefused ==
    ASSUME NEW it \in ItemType, ItemInv(it),
           NEW date \in Versions \cup {NoDate}, NEW seek \in Int, NEW len \in Int,
           ~Accepts(it, date, seek, len), it.status < FIST_COMPLETE, it.status # FIST_FRESH
    PROVE  LET s == StartedItem(it, date, seek, len) IN
           /\ s \in ItemType /\ ItemInv(s)
           /\ it.status >= FIST_DLGOTHEAD
           /\ s.status \in {it.status, FIST_DLGOTHEAD}
           /\ s.clen = it.clen /\ s.checked = it.checked /\ s.date = it.date /\ s.fd = it.fd
           /\ s.cached = it.cached /\ s.good = it.good /\ s.replace = it.replace
           /\ s.vol = it.vol
<1>1. it.status >= FIST_DLGOTHEAD
  BY DEF Accepts, HotMismatch, SeekBack, ItemInv, ItemType, FiStatus
<1>2. CASE HotMismatch(it, date, seek, len)
  BY <1>1, <1>2 DEF StartedItem, DlStarted
<1>3. CASE ~HotMismatch(it, date, seek, len)
  <2>1. SeekBack(it, seek)
    BY <1>3 DEF Accepts
  <2>2. StartedItem(it, date, seek, len) =
          [it EXCEPT !.status = FIST_DLGOTHEAD, !.clen = it.clen]
    <3>1. ~(it.status < FIST_DLGOTHEAD)
      BY <1>1 DEF ItemType, FiStatus
    <3> QED
      BY <1>3, <2>1, <3>1, Zenon DEF StartedItem, DlStarted
  <2> DEFINE s == StartedItem(it, date, seek, len)
  <2>3. s \in ItemType
    BY <2>2, StatusType DEF ItemType
  <2>4. /\ s.status = FIST_DLGOTHEAD /\ s.date = it.date /\ s.clen = it.clen
        /\ s.checked = it.checked /\ s.cached = it.cached /\ s.fd = it.fd
    BY <1>1, <2>2 DEF ItemType, FiStatus
  <2>5. s.good = it.good /\ s.replace = it.replace /\ s.vol = it.vol
    BY <2>2 DEF ItemType
  <2> HIDE DEF s
  <2>6. ItemInv(s)
    BY <1>1, <2>3, <2>4, <2>5 DEF ItemInv, ItemType, FiStatus
  <2> QED
    BY <1>1, <2>3, <2>4, <2>5, <2>6 DEF s
<1> QED
  BY <1>2, <1>3

\* The item after an error code.
LEMMA FailedItemFields ==
    ASSUME NEW it \in ItemType, ItemInv(it), NEW u \in Int, u >= -1, it.status < FIST_DLGOTHEAD
    PROVE  LET s == FailedItem(it, u) IN
           /\ s \in ItemType
           /\ s.status = FIST_DLGOTHEAD /\ s.date = NoDate /\ s.clen = -1 /\ s.good = FALSE
           /\ s.checked = u /\ s.cached = it.cached /\ s.fd = NoInode
           /\ s.checked >= it.checked
<1> DEFINE s == FailedItem(it, u)
<1>1. it.checked = -1 /\ it.fd = NoInode
  BY DEF ItemInv
<1>2. ~HotMismatch(it, NoDate, u, Unknown) /\ ~SeekBack(it, u)
  BY <1>1 DEF HotMismatch, SeekBack, ItemType, FiStatus
<1>3. s = [it EXCEPT !.status = FIST_DLGOTHEAD, !.checked = IF u >= 0 THEN u ELSE @,
                     !.good = FALSE, !.date = NoDate, !.clen = Unknown]
  BY <1>2 DEF FailedItem, DlStarted
<1>4. s \in ItemType
  <2> DEFINE st == FIST_DLGOTHEAD
             ck == IF u >= 0 THEN u ELSE it.checked
             dt == NoDate
             cl == Unknown
  <2>1. /\ st \in FiStatus /\ ck \in Int /\ dt \in Versions \cup {NoDate} /\ cl \in Int
        /\ s = [it EXCEPT !.status = st, !.checked = ck, !.good = FALSE, !.date = dt,
                          !.clen = cl]
    BY <1>3, StatusType DEF ItemType
  <2> HIDE DEF st, ck, dt, cl, s
  <2> QED
    BY <2>1 DEF ItemType
<1>5. /\ s.status = FIST_DLGOTHEAD /\ s.date = NoDate /\ s.clen = -1
      /\ s.checked = u /\ s.cached = it.cached /\ s.fd = it.fd
  BY <1>1, <1>3 DEF ItemType
<1>6. s.good = FALSE
  BY <1>3 DEF ItemType
<1> HIDE DEF s
<1>7. s.checked >= it.checked
  BY <1>1, <1>5
<1> QED
  BY <1>1, <1>4, <1>5, <1>6, <1>7 DEF s

\* The item after a denied range.
LEMMA RestartedItemFields ==
    ASSUME NEW it \in ItemType
    PROVE  LET n == RestartedItem(it) IN
           /\ n \in ItemType /\ n.status = it.status /\ n.checked = it.checked
           /\ n.clen = it.clen /\ n.date = it.date /\ n.fd = it.fd /\ n.cached = 0
           /\ n.good = it.good /\ n.vol = it.vol /\ n.replace = TRUE
<1> DEFINE n == RestartedItem(it)
<1>1. n \in ItemType
  <2> DEFINE z == 0
  <2>1. z \in Int /\ n = [it EXCEPT !.cached = z, !.replace = TRUE]
    BY DEF RestartedItem
  <2> HIDE DEF z, n
  <2> QED
    BY <2>1 DEF ItemType
<1>2. /\ n.status = it.status /\ n.checked = it.checked
      /\ n.clen = it.clen /\ n.date = it.date /\ n.fd = it.fd /\ n.cached = 0
  BY DEF ItemType, RestartedItem
<1>3. n.good = it.good /\ n.vol = it.vol /\ n.replace = TRUE
  BY DEF ItemType, RestartedItem
<1> QED
  BY <1>1, <1>2, <1>3

\* fileitem::DlFinish.
LEMMA DlFinishFields ==
    ASSUME NEW it \in ItemType, it.status <= FIST_COMPLETE
    PROVE  LET f == DlFinish(it) IN
           /\ f \in ItemType
           /\ f.status = FIST_COMPLETE /\ f.clen = (IF it.clen < 0 THEN it.checked ELSE it.clen)
           /\ f.checked = it.checked /\ f.date = it.date /\ f.fd = it.fd /\ f.cached = it.cached
           /\ f.good = it.good /\ f.vol = it.vol /\ f.replace = it.replace
<1>1. DlFinish(it) = [it EXCEPT !.status = FIST_COMPLETE,
                                !.clen = IF @ < 0 THEN it.checked ELSE @]
  BY DEF DlFinish, ItemType, FiStatus
<1> DEFINE f == DlFinish(it)
<1>2. f \in ItemType
  BY <1>1, StatusType DEF ItemType
<1>3. /\ f.status = FIST_COMPLETE /\ f.clen = (IF it.clen < 0 THEN it.checked ELSE it.clen)
      /\ f.checked = it.checked /\ f.date = it.date /\ f.fd = it.fd /\ f.cached = it.cached
  BY <1>1 DEF ItemType
<1>4. f.good = it.good /\ f.vol = it.vol /\ f.replace = it.replace
  BY <1>1 DEF ItemType
<1> QED
  BY <1>2, <1>3, <1>4

\* The position that a request asks for.
LEMMA UsedRangeType ==
    ASSUME NEW it \in ItemType, ItemInv(it)
    PROVE  /\ UsedRangeStartPos(it) \in Int /\ UsedRangeStartPos(it) >= -1
           /\ it.checked >= 0 /\ UsedRangeStartPos(it) >= 0 =>
                /\ UsedRangeStartPos(it) \in {it.checked, it.checked - 1}
                /\ UsedRangeStartPos(it) = it.checked - 1 => it.vol /\ it.checked = it.clen
BY DEF UsedRangeStartPos, ItemType, ItemInv

\* What holds when a job does something.
LEMMA JobContext ==
    ASSUME Structure, NEW r \in Readers, job[r].pc # "none"
    PROVE  /\ job[r] \in JobType /\ job[r].it \in Items /\ item[job[r].it] \in ItemType
           /\ ItemInv(item[job[r].it]) /\ Writes(job[r], item[job[r].it]) /\ JobShape(job[r])
           /\ item[job[r].it].status # FIST_FRESH
           /\ job \in [Readers -> JobType] /\ item \in [Items -> ItemType]
           /\ upstream \in Versions /\ path \in Inodes \cup {NoInode}
           /\ data \in [Inodes -> Seq(Versions)] /\ head \in HeadType /\ suspect \in BOOLEAN
           /\ HeadInv
<1>1. job[r].it \in Items
  BY DEF Structure, JobShape
<1>2. r \in Downloads(job[r].it, job)
  BY DEF Downloads
<1>3. item[job[r].it].status # FIST_FRESH
  BY <1>1, <1>2 DEF Structure, ItemShape, Referenced
<1> QED
  BY <1>1, <1>3 DEF Structure, Typed

-----------------------------------------------------------------------------
(* The steps of jobs preserve the structure *)

Grows ==
    \A k \in Items :
        /\ item[k].status # FIST_FRESH
        /\ item'[k].status # FIST_FRESH /\ item'[k].status <= FIST_COMPLETE
        => item'[k].checked >= item[k].checked

\* The steps of a job that leave its item alone.
LEMMA QuietJobSteps ==
    ASSUME Structure, NEW r \in Readers,
           AppendRequest(r) \/ HeaderBusy(r) \/ AddDataStopped(r) \/ Requeue(r)
    PROVE  /\ JobMoves(r, job'[r], item[job[r].it])
           /\ Structure' /\ Grows
<1> DEFINE i == job[r].it
<1>0. job[r].pc \in {"queued", "sent", "body"}
  BY DEF AppendRequest, HeaderBusy, AddDataStopped, Requeue, Receiving
<1>1. /\ job[r] \in JobType /\ i \in Items /\ item[i] \in ItemType
      /\ ItemInv(item[i]) /\ Writes(job[r], item[i]) /\ JobShape(job[r])
      /\ item[i].status # FIST_FRESH
      /\ job \in [Readers -> JobType] /\ item \in [Items -> ItemType]
  BY <1>0, JobContext
<1>2. UNCHANGED <<upstream, path, data, head, item, reg, reader, suspect>>
  BY DEF AppendRequest, HeaderBusy, AddDataStopped, Requeue, diskvars
<1>3. DiskTypes
  BY <1>2 DEF DiskTypes, Structure, Typed, HeadInv
<1>4. item' = [item EXCEPT ![i] = item[i]]
  BY <1>1, <1>2
<1>5. ASSUME NEW j \in JobType, job' = [job EXCEPT ![r] = j], j.it = i, j.pc # "none",
             JobShape(j), Writes(j, item[i]), j.assigned = job[r].assigned
      PROVE  /\ JobMoves(r, job'[r], item[i])
             /\ Structure' /\ Grows
  <2>1. job'[r] = j
    BY <1>1, <1>5
  <2>2. JobMoves(r, j, item[i])
    BY <1>0, <1>1, <1>2, <1>4, <1>5 DEF JobMoves
  <2>3. item[i].checked >= item[i].checked /\ item[i].status \in Int
    BY <1>1 DEF ItemType, FiStatus
  <2> QED
    BY <1>1, <1>3, <1>5, <2>1, <2>2, <2>3, JobMovesStructure DEF Grows
<1>6. CASE AppendRequest(r)
  <2> DEFINE u == UsedRangeStartPos(item[i])
             d == item[i].date
             j == [job[r] EXCEPT !.pc = "sent", !.store = TRUE, !.used = u, !.ifRange = d]
  <2>1. u \in Int /\ u >= -1 /\ d \in Versions \cup {NoDate}
    BY <1>1, UsedRangeType DEF ItemType
  <2>2. job' = [job EXCEPT ![r] = j]
    BY <1>1, <1>6 DEF AppendRequest
  <2>3. u = UsedRangeStartPos(item[i]) /\ d = item[i].date
    OBVIOUS
  <2> HIDE DEF u, d
  <2>4. /\ j \in JobType /\ j.it = i /\ j.pc = "sent" /\ j.used = u /\ j.ifRange = d
        /\ j.assigned = job[r].assigned
    BY <1>1, <2>1 DEF JobType
  <2> HIDE DEF j
  <2>5. JobShape(j)
    BY <1>1, <2>1, <2>4 DEF JobShape
  <2>6. Writes(j, item[i])
    BY <1>0, <1>1, <1>6, <2>3, <2>4 DEF Writes, AppendRequest
  <2> QED
    BY <1>5, <2>2, <2>4, <2>5, <2>6
<1>7. ASSUME NEW pc \in {"queued", "broken"}, job' = [job EXCEPT ![r] = Unplugged(@, pc)],
             pc = "queued" => ~(item[i].status = FIST_DLGOTHEAD /\ item[i].clen < 0
                                  /\ item[i].checked > 0 /\ job[r].assigned)
      PROVE  /\ JobMoves(r, job'[r], item[i])
             /\ Structure' /\ Grows
  <2> DEFINE j == Unplugged(job[r], pc)
  <2>1. /\ j \in JobType /\ j.it = i /\ j.pc = pc /\ j.used = -1
        /\ j.assigned = job[r].assigned
    BY <1>1, UnpluggedFields
  <2>2. job' = [job EXCEPT ![r] = j]
    BY <1>7
  <2> HIDE DEF j
  <2>3. JobShape(j)
    BY <1>1, <2>1 DEF JobShape
  <2>4. Writes(j, item[i])
    BY <1>1, <1>7, <2>1 DEF Writes
  <2>5. j.pc # "none"
    BY <2>1
  <2> QED
    BY <1>5, <2>1, <2>2, <2>3, <2>4, <2>5
<1>8. CASE HeaderBusy(r)
  BY <1>7, <1>8 DEF HeaderBusy
<1>9. CASE AddDataStopped(r)
  BY <1>7, <1>9 DEF AddDataStopped
<1>10. CASE Requeue(r)
  BY <1>0, <1>1, <1>7, <1>10 DEF Requeue, Writes
<1> QED
  BY <1>6, <1>8, <1>9, <1>10

\* A refused or failed header: the item is in error or as before, the job broken.
LEMMA HeaderFailsStep ==
    ASSUME Structure, NEW r \in Readers, job[r].pc = "sent", ~Busy(job[r], item[job[r].it]),
           HeaderFails(r)
    PROVE  /\ JobMoves(r, job'[r], DlSetError(item[job[r].it]))
           /\ Structure' /\ Grows
<1> DEFINE i == job[r].it
           j == [Unplugged(job[r], "broken") EXCEPT !.assigned = TRUE]
           e == DlSetError(item[i])
<1>1. /\ job[r] \in JobType /\ i \in Items /\ item[i] \in ItemType
      /\ ItemInv(item[i]) /\ Writes(job[r], item[i]) /\ JobShape(job[r])
      /\ job \in [Readers -> JobType] /\ item \in [Items -> ItemType]
  BY JobContext
<1>2. job[r].assigned \/ item[i].status < FIST_DLGOTHEAD
  BY <1>1 DEF Busy, ItemType, FiStatus
<1>3. /\ j \in JobType /\ j.pc = "broken" /\ j.it = i /\ j.assigned = TRUE /\ j.used = -1
  BY <1>1, RefusedFields
<1>4. /\ e \in ItemType /\ ItemInv(e) /\ e.status = FIST_DLERROR
      /\ e.clen = item[i].clen /\ e.checked = item[i].checked
  BY <1>1, DlSetErrorFields
<1>5. job' = [job EXCEPT ![r] = j] /\ item' = [item EXCEPT ![i] = e]
  BY DEF HeaderFails
<1>6. UNCHANGED <<upstream, path, data, head, reg, reader, suspect>>
  BY DEF HeaderFails, diskvars
<1> HIDE DEF j, e
<1>7. DiskTypes
  BY <1>6 DEF DiskTypes, Structure, Typed, HeadInv
<1>8. JobMoves(r, j, e)
  BY <1>1, <1>3, <1>4, <1>5, <1>6 DEF JobMoves
<1>9. JobShape(j) /\ Writes(j, e)
  BY <1>1, <1>3, <1>4 DEF JobShape, Writes
<1>10. e.checked >= item[i].checked /\ e.status # FIST_FRESH /\ e.status >= FIST_DLGOTHEAD
  BY <1>1, <1>4 DEF ItemType
<1>11. job'[r] = j
  BY <1>1, <1>5
<1>12. Structure' /\ Grows
  BY <1>2, <1>3, <1>4, <1>7, <1>8, <1>9, <1>10, JobMovesStructure DEF Grows
<1> QED
  BY <1>8, <1>11, <1>12 DEF e

\* A response header with a body: the next writer, or a refused one.
LEMMA HeaderStep ==
    ASSUME Structure, NEW r \in Readers, job[r].pc = "sent", ~Busy(job[r], item[job[r].it]),
           NEW seek \in Nat, NEW len \in Int, NEW left \in Nat, NEW next \in JobType,
           next.pc = "body", next.it = job[r].it, next.assigned = TRUE, next.ver = upstream,
           next.left = left, next.used = -1, next.store = TRUE,
           item' = [item EXCEPT ![job[r].it] = StartedItem(@, upstream, seek, len)],
           job' = [job EXCEPT ![r] =
                     IF Accepts(item[job[r].it], upstream, seek, len) THEN next
                     ELSE [Unplugged(@, "broken") EXCEPT !.assigned = TRUE]],
           len = -1 \/ len = Lengths[upstream], len = -1 => seek = 0,
           left > 0, seek + left = Lengths[upstream],
           UNCHANGED <<diskvars, reg, reader, suspect>>
    PROVE  /\ JobMoves(r, job'[r], StartedItem(item[job[r].it], upstream, seek, len))
           /\ Structure' /\ Grows
<1> DEFINE i == job[r].it
           it == item[i]
           s == StartedItem(it, upstream, seek, len)
           j == IF Accepts(it, upstream, seek, len) THEN next
                ELSE [Unplugged(job[r], "broken") EXCEPT !.assigned = TRUE]
<1>1. /\ job[r] \in JobType /\ i \in Items /\ it \in ItemType
      /\ ItemInv(it) /\ Writes(job[r], it) /\ JobShape(job[r])
      /\ it.status # FIST_FRESH /\ upstream \in Versions
      /\ job \in [Readers -> JobType] /\ item \in [Items -> ItemType]
  BY JobContext
<1>2. /\ job[r].assigned \/ it.status < FIST_DLGOTHEAD
      /\ it.status < FIST_COMPLETE
  BY <1>1 DEF Busy, ItemType, FiStatus
<1>3. job' = [job EXCEPT ![r] = j] /\ item' = [item EXCEPT ![i] = s]
  OBVIOUS
<1>4. UNCHANGED <<upstream, path, data, head, reg, reader, suspect>>
  BY DEF diskvars
<1>5. DiskTypes
  BY <1>4 DEF DiskTypes, Structure, Typed, HeadInv
<1>6. Lengths[upstream] \in Nat /\ upstream # NoDate /\ upstream \in Versions \cup {NoDate}
  BY <1>1, LengthsType
<1>9. it = item[job[r].it] /\ i = job[r].it
  OBVIOUS
<1> HIDE DEF it, i
<1>7. CASE Accepts(it, upstream, seek, len)
  <2>1. /\ s \in ItemType
        /\ s.status = FIST_DLGOTHEAD /\ s.date = upstream /\ s.clen = len
        /\ s.checked = seek
        /\ s.checked >= it.checked /\ s.cached = it.cached /\ s.fd = it.fd
        /\ it.status >= FIST_DLGOTHEAD =>
             upstream = it.date /\ (it.clen = -1 \/ it.clen = len) /\ seek <= it.checked
    <3>1. seek \in Int /\ seek >= -1
      OBVIOUS
    <3>2. LET t == StartedItem(it, upstream, seek, len) IN
          /\ t \in ItemType
          /\ t.status = FIST_DLGOTHEAD /\ t.date = upstream /\ t.clen = len
          /\ t.checked = (IF seek >= 0 THEN seek ELSE it.checked)
          /\ t.checked >= it.checked /\ t.cached = it.cached /\ t.fd = it.fd
          /\ it.status >= FIST_DLGOTHEAD =>
                upstream = it.date /\ (it.clen = -1 \/ it.clen = len) /\ seek <= it.checked
      BY <1>1, <1>2, <1>6, <1>7, <3>1, DlStartedAccepted
    <3> HIDE DEF s
    <3> QED
      BY <3>2 DEF s
  <2>2. /\ j \in JobType /\ j.pc = "body" /\ j.it = i /\ j.assigned = TRUE
        /\ j.ver = upstream /\ j.left = left /\ j.used = -1 /\ j.store = TRUE
    BY <1>7, <1>9
  <2> HIDE DEF s, j
  <2>3. ItemInv(s)
    <3>1. it.fd # NoInode => it.checked > 0
      BY <1>1, <1>2 DEF ItemInv, ItemType, FiStatus
    <3>2. s.fd # NoInode => s.checked > 0
      BY <1>1, <2>1, <3>1 DEF ItemType
    <3> QED
      BY <1>1, <1>6, <2>1, <3>2 DEF ItemInv, ItemType
  <2>4. JobShape(j) /\ Writes(j, s)
    BY <1>1, <1>6, <2>1, <2>2 DEF JobShape, Writes
  <2>5. JobMoves(r, j, s)
    BY <1>1, <1>3, <1>4, <1>9, <2>1, <2>2 DEF JobMoves
  <2>8. it.status <= FIST_COMPLETE
    BY <1>1, <1>2 DEF ItemType, FiStatus
  <2>6. Structure' /\ Grows
    BY <1>1, <1>2, <1>5, <2>1, <2>2, <2>3, <2>4, <2>5, <2>8, <1>9, JobMovesStructure DEF Grows
  <2>7. job'[r] = j
    BY <1>1, <1>3
  <2> QED
    BY <1>9, <2>5, <2>6, <2>7 DEF s
<1>8. CASE ~Accepts(it, upstream, seek, len)
  <2>1. /\ s \in ItemType /\ ItemInv(s)
        /\ it.status >= FIST_DLGOTHEAD
        /\ s.status \in {it.status, FIST_DLGOTHEAD}
        /\ s.clen = it.clen /\ s.checked = it.checked
    <3>1. seek \in Int
      OBVIOUS
    <3> QED
      BY <1>1, <1>2, <1>6, <1>8, <3>1, DlStartedRefused
  <2>2. /\ j \in JobType /\ j.pc = "broken" /\ j.it = i /\ j.assigned = TRUE /\ j.used = -1
    <3>1. j = [Unplugged(job[r], "broken") EXCEPT !.assigned = TRUE]
      BY <1>8, <1>9
    <3> QED
      BY <1>1, <1>9, <3>1, RefusedFields
  <2> HIDE DEF s, j
  <2>3. s.status >= FIST_DLGOTHEAD /\ s.status # FIST_FRESH /\ s.checked >= it.checked
    BY <1>1, <2>1 DEF ItemType
  <2>4. JobShape(j) /\ Writes(j, s)
    BY <1>1, <2>1, <2>2, <2>3 DEF JobShape, Writes
  <2>5. JobMoves(r, j, s)
    BY <1>1, <1>3, <1>4, <1>9, <2>1, <2>2 DEF JobMoves
  <2>8. it.status <= FIST_COMPLETE
    BY <1>1, <1>2 DEF ItemType, FiStatus
  <2>6. Structure' /\ Grows
    BY <1>1, <1>2, <1>5, <2>1, <2>2, <2>3, <2>4, <2>5, <2>8, <1>9, JobMovesStructure DEF Grows
  <2>7. job'[r] = j
    BY <1>1, <1>3
  <2> QED
    BY <1>9, <2>5, <2>6, <2>7 DEF s
<1> QED
  BY <1>7, <1>8

\* Code 200.
LEMMA Header200Step ==
    ASSUME Structure, NEW r \in Readers, NEW chunked \in BOOLEAN, Header200(r, chunked)
    PROVE  /\ \E len \in Int :
                /\ len = -1 \/ len = Lengths[upstream]
                /\ JobMoves(r, job'[r], StartedItem(item[job[r].it], upstream, 0, len))
           /\ Structure' /\ Grows
<1> DEFINE len == IF chunked THEN Unknown ELSE Lengths[upstream]
           next == Started(job[r], TRUE, Lengths[upstream], chunked)
           ok == Accepts(item[job[r].it], upstream, 0, len)
<1>1. upstream \in Versions /\ job[r] \in JobType
  BY DEF Structure, Typed
<1>2. Lengths[upstream] \in Nat /\ Lengths[upstream] > 0
  BY <1>1, LengthsType
<1>3. len \in Int /\ (len = -1 \/ len = Lengths[upstream])
  BY <1>2
<1>4. /\ next \in JobType /\ next.pc = "body" /\ next.it = job[r].it /\ next.assigned = TRUE
      /\ next.ver = upstream /\ next.left = Lengths[upstream] /\ next.used = -1
      /\ next.store = TRUE
  <2> DEFINE c == NoJob
             len1 == Lengths[upstream]
  <2>1. c \in JobType /\ c.used = -1 /\ c.store = TRUE
    BY NoJobType, NoJobFlags DEF JobType
  <2>2. next = [c EXCEPT !.pc = "body", !.it = job[r].it, !.assigned = TRUE,
                         !.ver = upstream, !.left = len1, !.chunked = chunked]
    BY DEF Started
  <2>3. job[r].it \in Items \cup {NoItem} /\ len1 \in Nat
    BY <1>1, <1>2 DEF JobType
  <2> HIDE DEF c, next, len1
  <2>4. next \in JobType
    BY <1>1, <2>1, <2>2, <2>3 DEF JobType
  <2>5. /\ next.pc = "body" /\ next.it = job[r].it /\ next.ver = upstream
        /\ next.left = len1 /\ next.used = -1
    BY <2>1, <2>2 DEF JobType
  <2>6. next.assigned = TRUE /\ next.store = TRUE
    BY <2>1, <2>2 DEF JobType
  <2> QED
    BY <2>4, <2>5, <2>6 DEF len1
<1>5. job' = [job EXCEPT ![r] = Started(@, ok, Lengths[upstream], chunked)]
  BY DEF Header200
<1>6. Started(job[r], ok, Lengths[upstream], chunked) =
        IF ok THEN next ELSE [Unplugged(job[r], "broken") EXCEPT !.assigned = TRUE]
  BY DEF Started
<1> HIDE DEF next
<1>7. /\ job[r].pc = "sent" /\ ~Busy(job[r], item[job[r].it])
      /\ item' = [item EXCEPT ![job[r].it] = StartedItem(@, upstream, 0, len)]
      /\ UNCHANGED <<diskvars, reg, reader, suspect>>
  BY DEF Header200, StartedItem
<1> HIDE DEF len, ok
<1>8. job' = [job EXCEPT ![r] =
        IF ok THEN next ELSE [Unplugged(@, "broken") EXCEPT !.assigned = TRUE]]
  BY <1>5, <1>6
<1> DEFINE z == 0
           left == Lengths[upstream]
<1>9. /\ z \in Nat /\ left \in Nat /\ left > 0 /\ z + left = Lengths[upstream]
      /\ len = -1 => z = 0
      /\ item' = [item EXCEPT ![job[r].it] = StartedItem(@, upstream, z, len)]
      /\ job' = [job EXCEPT ![r] =
            IF Accepts(item[job[r].it], upstream, z, len) THEN next
            ELSE [Unplugged(@, "broken") EXCEPT !.assigned = TRUE]]
      /\ next.left = left
  BY <1>2, <1>4, <1>7, <1>8 DEF ok
<1> HIDE DEF z, left
<1>10. /\ JobMoves(r, job'[r], StartedItem(item[job[r].it], upstream, z, len))
       /\ Structure' /\ Grows
  BY <1>3, <1>4, <1>7, <1>9, HeaderStep
<1> QED
  BY <1>3, <1>10 DEF z

\* Code 206.
LEMMA Header206Step ==
    ASSUME Structure, NEW r \in Readers, Header206(r)
    PROVE  /\ JobMoves(r, job'[r],
                       StartedItem(item[job[r].it], upstream, job[r].used, Lengths[upstream]))
           /\ Structure' /\ Grows
<1> DEFINE len == Lengths[upstream]
           start == job[r].used
           next == Started(job[r], TRUE, len - start, FALSE)
           ok == Accepts(item[job[r].it], upstream, start, len)
<1>1. upstream \in Versions /\ start \in Int /\ job[r] \in JobType
  BY DEF Structure, Typed, JobType
<1>2. len \in Nat /\ len > 0
  BY <1>1, LengthsType
<1>3. start > 0 /\ start < len
  BY DEF Header206, RangeApplies
<1>4. start \in Nat /\ len - start \in Nat /\ len - start > 0 /\ start + (len - start) = len
      /\ len # -1 /\ len \in Int
  BY <1>1, <1>2, <1>3
<1>5. /\ next \in JobType /\ next.pc = "body" /\ next.it = job[r].it /\ next.assigned = TRUE
      /\ next.ver = upstream /\ next.left = len - start /\ next.used = -1
      /\ next.store = TRUE
  BY <1>1, <1>4, StartedFields
<1>6. job' = [job EXCEPT ![r] = Started(@, ok, len - start, FALSE)]
  BY DEF Header206
<1>7. Started(job[r], ok, len - start, FALSE) =
        IF ok THEN next ELSE [Unplugged(job[r], "broken") EXCEPT !.assigned = TRUE]
  BY DEF Started
<1> HIDE DEF next
<1>8. /\ job[r].pc = "sent" /\ ~Busy(job[r], item[job[r].it])
      /\ item' = [item EXCEPT ![job[r].it] = StartedItem(@, upstream, start, len)]
      /\ UNCHANGED <<diskvars, reg, reader, suspect>>
  BY DEF Header206, StartedItem
<1> HIDE DEF ok
<1>9. job' = [job EXCEPT ![r] =
        IF ok THEN next ELSE [Unplugged(@, "broken") EXCEPT !.assigned = TRUE]]
  BY <1>6, <1>7
<1> QED
  BY <1>4, <1>5, <1>8, <1>9, HeaderStep DEF ok

\* Code 416, before anything was taken: once more from zero.
LEMMA Header416RestartStep ==
    ASSUME Structure, NEW r \in Readers, Header416Restart(r)
    PROVE  /\ JobMoves(r, job'[r], RestartedItem(item[job[r].it]))
           /\ job'[r].pc = "queued"
           /\ Structure' /\ Grows
<1> DEFINE i == job[r].it
           it == item[i]
           n == RestartedItem(it)
           j == Unplugged(job[r], "queued")
<1>1. /\ job[r] \in JobType /\ i \in Items /\ it \in ItemType
      /\ ItemInv(it) /\ Writes(job[r], it) /\ JobShape(job[r])
      /\ it.status # FIST_FRESH /\ upstream \in Versions
      /\ job \in [Readers -> JobType] /\ item \in [Items -> ItemType]
  BY JobContext DEF Header416Restart
<1>2. /\ job[r].assigned \/ it.status < FIST_DLGOTHEAD
      /\ it.status < FIST_COMPLETE /\ job[r].pc = "sent"
  BY <1>1 DEF Header416Restart, Busy, ItemType, FiStatus
<1>3. job' = [job EXCEPT ![r] = j] /\ item' = [item EXCEPT ![i] = n]
  BY <1>1 DEF Header416Restart, RestartedItem
<1>4. UNCHANGED <<upstream, path, data, head, reg, reader, suspect>>
  BY DEF diskvars, Header416Restart
<1>5. DiskTypes
  BY <1>4 DEF DiskTypes, Structure, Typed, HeadInv
<1>6. /\ n \in ItemType /\ n.status = it.status /\ n.checked = it.checked
      /\ n.clen = it.clen /\ n.date = it.date /\ n.fd = it.fd /\ n.cached = 0
      /\ n.good = it.good
  BY <1>1, RestartedItemFields
<1>8. /\ j \in JobType /\ j.pc = "queued" /\ j.it = i /\ j.assigned = job[r].assigned
      /\ j.used = -1
  BY <1>1, UnpluggedFields
<1> HIDE DEF n, j
<1>9. ItemInv(n)
  BY <1>1, <1>6 DEF ItemInv, ItemType
<1>10. JobShape(j)
  BY <1>1, <1>8 DEF JobShape
<1>11. Writes(j, n)
  BY <1>1, <1>2, <1>6, <1>8 DEF Writes
<1>12. JobMoves(r, j, n)
  BY <1>1, <1>2, <1>3, <1>4, <1>6, <1>8 DEF JobMoves
<1>13. n.checked >= it.checked
  BY <1>1, <1>6 DEF ItemType
<1>14. job'[r] = j
  BY <1>1, <1>3
<1>15. Structure' /\ Grows
  BY <1>1, <1>2, <1>5, <1>6, <1>8, <1>9, <1>10, <1>11, <1>12, <1>13, JobMovesStructure
  DEF Grows
<1> QED
  BY <1>8, <1>12, <1>14, <1>15 DEF n

\* The .head file of an item.
LEMMA HeadOfFields ==
    ASSUME NEW it \in ItemType, it.clen >= -1,
           it.date # NoDate => it.clen = -1 \/ it.clen = Lengths[it.date], head' = HeadOf(it)
    PROVE  head' \in HeadType /\ HeadInv' /\ head'.len = it.clen /\ head'.date = it.date
<1>1. head' \in HeadType /\ head'.len = it.clen /\ head'.date = it.date
  BY DEF HeadOf, HeadType, ItemType
<1> QED
  BY <1>1 DEF HeadInv

\* An error code before anything was taken.
LEMMA HeaderErrorStep ==
    ASSUME Structure, NEW r \in Readers, HeaderError(r)
    PROVE  /\ JobMoves(r, job'[r], DlFinish(FailedItem(item[job[r].it], job[r].used)))
           /\ Structure' /\ Grows
<1> DEFINE i == job[r].it
           it == item[i]
           u == job[r].used
           s == FailedItem(it, u)
           n == DlFinish(s)
           j == Skipping(job[r])
<1>1. /\ job[r] \in JobType /\ i \in Items /\ it \in ItemType
      /\ ItemInv(it) /\ Writes(job[r], it) /\ JobShape(job[r])
      /\ it.status # FIST_FRESH /\ upstream \in Versions
      /\ job \in [Readers -> JobType] /\ item \in [Items -> ItemType]
  BY JobContext DEF HeaderError
<1>2. /\ it.status < FIST_DLGOTHEAD /\ ~job[r].assigned
      /\ it.status < FIST_COMPLETE /\ job[r].pc = "sent"
  BY <1>1 DEF HeaderError, Busy, ItemType, FiStatus
<1>3. job' = [job EXCEPT ![r] = j] /\ item' = [item EXCEPT ![i] = n] /\ head' = HeadOf(n)
  BY <1>1 DEF HeaderError, FailedItem
<1>4. UNCHANGED <<upstream, path, data, reg, reader>> /\ suspect' \in BOOLEAN
  BY DEF HeaderError
<1>5. u \in Int /\ u >= -1
  BY <1>1 DEF JobShape, JobType
<1>7. /\ s \in ItemType /\ s.status = FIST_DLGOTHEAD /\ s.good = FALSE /\ s.date = NoDate
      /\ s.clen = -1 /\ s.checked = u /\ s.checked >= it.checked /\ s.cached = it.cached
      /\ s.fd = NoInode
  BY <1>1, <1>2, <1>5, FailedItemFields
<1>8. /\ j \in JobType /\ j.pc = "body" /\ j.it = i /\ j.assigned = TRUE
      /\ j.ver = upstream /\ j.used = -1 /\ j.store = FALSE
  BY <1>1, SkippingFields
<1> HIDE DEF s, j
<1>9. /\ n \in ItemType /\ n.status = FIST_COMPLETE /\ n.clen = s.checked
      /\ n.checked = s.checked /\ n.date = NoDate /\ n.cached = it.cached /\ n.good = FALSE
      /\ n.fd = NoInode
  BY <1>7, DlFinishFields
<1> HIDE DEF n
<1>10. ItemInv(n)
  BY <1>1, <1>5, <1>7, <1>9 DEF ItemInv, ItemType
<1>11. JobShape(j) /\ Writes(j, n)
  BY <1>1, <1>8, <1>9 DEF JobShape, Writes
<1>12. DiskTypes
  BY <1>3, <1>4, <1>9, <1>10, HeadOfFields DEF DiskTypes, Structure, Typed, ItemInv
<1>13. JobMoves(r, j, n)
  BY <1>1, <1>2, <1>3, <1>4, <1>9, <1>8 DEF JobMoves
<1>14. n.checked >= it.checked
  BY <1>7, <1>9
<1>15. /\ n.status # FIST_FRESH /\ ~(it.status >= FIST_DLGOTHEAD)
       /\ it.status <= FIST_COMPLETE
  BY <1>1, <1>2, <1>9 DEF ItemType, FiStatus
<1>16. job'[r] = j
  BY <1>1, <1>3
<1>17. Structure' /\ Grows
  BY <1>1, <1>2, <1>8, <1>10, <1>11, <1>12, <1>13, <1>14, <1>15, JobMovesStructure
  DEF Grows
<1> QED
  BY <1>13, <1>16, <1>17 DEF n, s

\* The answer to the probe request.
LEMMA HeaderProbeStep ==
    ASSUME Structure, NEW r \in Readers, HeaderProbe(r)
    PROVE  /\ JobMoves(r, job'[r], DlFinish(ProbedItem(item[job[r].it])))
           /\ Structure' /\ Grows
<1> DEFINE i == job[r].it
           it == item[i]
           c == it.cached
           s == ProbedItem(it)
           n == DlFinish(s)
           j == Skipping(job[r])
<1>1. /\ job[r] \in JobType /\ i \in Items /\ it \in ItemType
      /\ ItemInv(it) /\ Writes(job[r], it) /\ JobShape(job[r])
      /\ it.status # FIST_FRESH /\ upstream \in Versions
      /\ job \in [Readers -> JobType] /\ item \in [Items -> ItemType]
  BY JobContext DEF HeaderProbe
<1>2. /\ job[r].assigned \/ it.status < FIST_DLGOTHEAD
      /\ it.status < FIST_COMPLETE /\ job[r].pc = "sent"
  BY <1>1 DEF HeaderProbe, Busy, ItemType, FiStatus
<1>3. job' = [job EXCEPT ![r] = j] /\ item' = [item EXCEPT ![i] = n] /\ head' = HeadOf(n)
  BY <1>1 DEF HeaderProbe, ProbedItem
<1>4. UNCHANGED <<upstream, path, data, reg, reader>> /\ suspect' \in BOOLEAN
  BY DEF HeaderProbe
<1>5. c = Lengths[upstream] /\ c - 1 = job[r].used /\ it.date = upstream /\ job[r].used > 0
  BY DEF HeaderProbe, IsProbe, RangeApplies
<1>6. c \in Nat /\ c > 0 /\ upstream # NoDate
  BY <1>1, <1>5, LengthsType
<1>7. /\ s \in ItemType /\ s.status = it.status /\ s.checked = c /\ s.clen = c
      /\ s.date = it.date /\ s.cached = c
  BY <1>1, <1>6 DEF ItemType, ProbedItem
<1>8. /\ j \in JobType /\ j.pc = "body" /\ j.it = i /\ j.assigned = TRUE
      /\ j.ver = upstream /\ j.used = -1 /\ j.store = FALSE
  BY <1>1, SkippingFields
<1>9. c >= it.checked
  <2>1. CASE it.status < FIST_DLGOTHEAD
    BY <1>1, <1>2, <1>6, <2>1 DEF ItemInv, ItemType
  <2>2. CASE job[r].assigned
    <3>1. job[r].used = UsedRangeStartPos(it)
      BY <1>1, <1>2, <2>2 DEF Writes
    <3> QED
      BY <1>1, <1>5, <1>6, <3>1, UsedRangeType DEF ItemType, ItemInv
  <2> QED
    BY <1>2, <2>1, <2>2
<1> HIDE DEF s, j
<1>10. /\ n \in ItemType /\ n.status = FIST_COMPLETE /\ n.clen = c
       /\ n.checked = c /\ n.date = it.date /\ n.cached = c
  BY <1>1, <1>2, <1>6, <1>7, DlFinishFields DEF ItemType, FiStatus
<1> HIDE DEF n
<1>11. ItemInv(n)
  BY <1>1, <1>5, <1>6, <1>10 DEF ItemInv, ItemType
<1>12. JobShape(j) /\ Writes(j, n)
  BY <1>1, <1>8, <1>10 DEF JobShape, Writes
<1>13. DiskTypes
  BY <1>3, <1>4, <1>10, <1>11, HeadOfFields DEF DiskTypes, Structure, Typed, ItemInv
<1>14. JobMoves(r, j, n)
  BY <1>1, <1>2, <1>3, <1>4, <1>10, <1>8 DEF JobMoves
<1>15. it.clen >= 0 => n.clen = it.clen
  BY <1>1, <1>5, <1>6, <1>10 DEF ItemInv
<1>16. job'[r] = j
  BY <1>1, <1>3
<1>18. it.status <= FIST_COMPLETE
  BY <1>1, <1>2 DEF ItemType, FiStatus
<1>17. Structure' /\ Grows
  BY <1>1, <1>2, <1>8, <1>9, <1>10, <1>11, <1>12, <1>13, <1>14, <1>15, <1>18, JobMovesStructure
  DEF Grows
<1> QED
  BY <1>14, <1>16, <1>17 DEF n, s

\* DlAddData opens the data file.
LEMMA OpenedFields ==
    ASSUME NEW it \in ItemType, ItemInv(it), it.checked >= 0, NEW n \in Inodes
    PROVE  LET o == Opened(it, n) IN
           /\ o \in ItemType /\ ItemInv(o)
           /\ o.status = FIST_DLRECEIVING /\ o.clen = it.clen /\ o.checked = it.checked + 1
           /\ o.date = it.date /\ o.fd = n /\ o.cached = it.cached
           /\ o.vol = it.vol /\ o.good = it.good
<1> DEFINE o == Opened(it, n)
           st == FIST_DLRECEIVING
           ck == it.checked + 1
<1>1. /\ st \in FiStatus /\ ck \in Int /\ n \in Inodes \cup {NoInode}
      /\ o = [it EXCEPT !.status = st, !.replace = FALSE, !.fd = n, !.checked = ck]
  <2>1. StartOfWrite(it) = it.checked /\ ck \in Int
    BY DEF StartOfWrite, ItemType
  <2>2. o = [it EXCEPT !.status = st, !.replace = FALSE, !.fd = n, !.checked = ck]
    BY <2>1 DEF Opened
  <2> QED
    BY <2>1, <2>2, StatusType
<1> HIDE DEF o, st, ck
<1>2. o \in ItemType
  BY <1>1 DEF ItemType
<1>3. /\ o.status = st /\ o.clen = it.clen /\ o.checked = ck
      /\ o.date = it.date /\ o.fd = n /\ o.cached = it.cached
  BY <1>1 DEF ItemType
<1>4. o.vol = it.vol /\ o.good = it.good
  BY <1>1 DEF ItemType
<1>5. ItemInv(o)
  BY <1>2, <1>3 DEF ItemInv, ItemType, st, ck
<1> QED
  BY <1>2, <1>3, <1>4, <1>5 DEF o, st, ck

\* A block is written at its position.
LEMMA WrittenType ==
    ASSUME NEW blocks \in Seq(Versions), NEW pos \in Nat, NEW v \in Versions
    PROVE  /\ Written(blocks, pos, v) \in Seq(Versions)
           /\ Len(Written(blocks, pos, v)) = (IF pos = Len(blocks) THEN pos + 1 ELSE Len(blocks))
           /\ \A k \in 1..Len(Written(blocks, pos, v)) :
                Written(blocks, pos, v)[k] = IF k = pos + 1 THEN v ELSE blocks[k]
<1> DEFINE n == IF pos = Len(blocks) THEN pos + 1 ELSE Len(blocks)
           w == [k \in 1..n |-> IF k = pos + 1 THEN v ELSE blocks[k]]
<1>1. n \in Nat
  BY LenProperties
<1>2. \A k \in 1..n : (IF k = pos + 1 THEN v ELSE blocks[k]) \in Versions
  <2> TAKE k \in 1..n
  <2>1. k # pos + 1 => k \in 1..Len(blocks)
    BY LenProperties
  <2>2. k \in 1..Len(blocks) => blocks[k] \in Versions
    BY ElementOfSeq
  <2> QED
    BY <2>1, <2>2
<1>3. w \in Seq(Versions) /\ Len(w) = n
  <2> HIDE DEF n
  <2>1. w \in [1..n -> Versions]
    BY <1>2
  <2> QED
    BY <1>1, <2>1, IsASeq, LenProperties
<1>4. Written(blocks, pos, v) = w
  BY DEF Written
<1> HIDE DEF w
<1> QED
  BY <1>3, <1>4 DEF w

\* A job that received a block.
LEMMA OneBlockLessFields ==
    ASSUME NEW j \in JobType, j.left > 0
    PROVE  LET m == [j EXCEPT !.left = @ - 1] IN
           /\ m \in JobType /\ m.pc = j.pc /\ m.it = j.it /\ m.used = j.used
           /\ m.ver = j.ver /\ m.left = j.left - 1
           /\ m.assigned = j.assigned /\ m.store = j.store
BY DEF JobType

\* A block is received into the item it, which becomes n.
LEMMA ReceiveStructure ==
    ASSUME Structure, NEW r \in Readers, Receiving(r), NEW n \in ItemType, ItemInv(n),
           n.status >= FIST_DLGOTHEAD, n.status # FIST_COMPLETE,
           n.checked = item[job[r].it].checked + 1, n.clen = item[job[r].it].clen,
           n.date = item[job[r].it].date, n.fd # NoInode,
           \/ n.status = FIST_DLRECEIVING
           \/ n.status = item[job[r].it].status /\ item[job[r].it].fd # NoInode,
           item' = [item EXCEPT ![job[r].it] = n], job' = OneBlockLess(r), DiskTypes,
           UNCHANGED <<reg, reader>>
    PROVE  Structure' /\ Grows
<1> DEFINE i == job[r].it
           it == item[i]
           j == [job[r] EXCEPT !.left = @ - 1]
<1>1. /\ job[r] \in JobType /\ i \in Items /\ it \in ItemType
      /\ ItemInv(it) /\ Writes(job[r], it) /\ JobShape(job[r])
      /\ job \in [Readers -> JobType] /\ item \in [Items -> ItemType]
  BY JobContext DEF Receiving
<1>2. job[r].pc = "body" /\ job[r].store /\ job[r].left > 0 /\ job[r].assigned
  BY <1>1 DEF Receiving, JobShape
<1>3. /\ j \in JobType /\ j.pc = "body" /\ j.it = i /\ j.used = job[r].used
      /\ j.ver = job[r].ver /\ j.left = job[r].left - 1
      /\ j.assigned = job[r].assigned /\ j.store = job[r].store
  BY <1>1, <1>2, OneBlockLessFields
<1>4. job' = [job EXCEPT ![r] = j]
  BY <1>1 DEF OneBlockLess
<1> HIDE DEF j
<1>5. JobShape(j)
  BY <1>1, <1>2, <1>3 DEF JobShape
<1>6. ~(it.status = FIST_DLGOTHEAD /\ it.clen < 0 /\ it.checked > 0)
  BY <1>1, <1>2 DEF Writes
<1>7. Writes(j, n)
  <2>1. /\ it.date = job[r].ver /\ it.checked >= 0
        /\ it.checked + job[r].left = Lengths[job[r].ver]
    BY <1>1, <1>2 DEF Writes
  <2>2. it.checked + 1 + (job[r].left - 1) = it.checked + job[r].left
    BY <1>1 DEF ItemType, JobType
  <2>3. ~(n.status = FIST_DLGOTHEAD /\ n.clen < 0)
    BY <1>1, <1>6 DEF ItemInv
  <2>4. n.checked >= 0 /\ n.checked + j.left = Lengths[j.ver] /\ n.date = j.ver
    BY <1>1, <1>3, <2>1, <2>2 DEF ItemType
  <2> QED
    BY <1>2, <1>3, <2>3, <2>4 DEF Writes
<1>8. JobMoves(r, j, n)
  BY <1>1, <1>2, <1>3, <1>4 DEF JobMoves
<1>9. n.checked >= it.checked
  BY <1>1 DEF ItemType
<1>10. n.status # FIST_FRESH
  OBVIOUS
<1>11. n.checked >= 0
  BY <1>1, <1>2 DEF Writes, ItemType
<1> QED
  BY <1>1, <1>2, <1>3, <1>5, <1>7, <1>8, <1>9, <1>10, <1>11, JobMovesStructure DEF Grows

\* The first block goes to a new file.
LEMMA OpenNewStep ==
    ASSUME Structure, NEW r \in Readers, NEW n \in Inodes, OpenNew(r, n)
    PROVE  Structure' /\ Grows
<1> DEFINE i == job[r].it
           it == item[i]
           o == Opened(it, n)
<1>1. /\ job[r] \in JobType /\ i \in Items /\ it \in ItemType
      /\ ItemInv(it) /\ Writes(job[r], it) /\ JobShape(job[r])
      /\ job \in [Readers -> JobType] /\ item \in [Items -> ItemType]
      /\ upstream \in Versions /\ data \in [Inodes -> Seq(Versions)]
  BY JobContext DEF Receiving, OpenNew
<1>2. /\ job[r].pc = "body" /\ job[r].store /\ job[r].left > 0 /\ it.checked >= 0
      /\ job[r].ver \in Versions
  BY <1>1 DEF OpenNew, Receiving, Writes, JobShape
<1>3. /\ o \in ItemType /\ ItemInv(o)
      /\ o.status = FIST_DLRECEIVING /\ o.clen = it.clen /\ o.checked = it.checked + 1
      /\ o.date = it.date /\ o.fd = n
  BY <1>1, <1>2, OpenedFields
<1>4. /\ item' = [item EXCEPT ![i] = o] /\ job' = OneBlockLess(r) /\ Receiving(r)
      /\ UNCHANGED <<upstream, reg, reader>> /\ path' = n /\ head' = HeadOf(it)
      /\ suspect' \in BOOLEAN
  BY DEF OpenNew
<1>5. data' \in [Inodes -> Seq(Versions)]
  <2> DEFINE open == OpenFiles'
             b == <<job[r].ver>>
  <2>1. data' = [[k \in Inodes |-> IF k \in open THEN data[k] ELSE << >>] EXCEPT ![n] = b]
    BY DEF OpenNew, Reachable
  <2>2. b \in Seq(Versions) /\ << >> \in Seq(Versions)
    BY <1>2
  <2> HIDE DEF open, b
  <2> QED
    BY <1>1, <2>1, <2>2
<1>6. DiskTypes
  BY <1>1, <1>4, <1>5, HeadOfFields DEF DiskTypes, ItemInv
<1>7. n # NoInode
  BY TransferAssumption
<1> HIDE DEF o
<1>8. o.status >= FIST_DLGOTHEAD /\ o.status # FIST_COMPLETE
  BY <1>3
<1> QED
  BY <1>3, <1>4, <1>6, <1>7, <1>8, ReceiveStructure

\* The first block goes to the file that is there.
LEMMA OpenInPlaceStep ==
    ASSUME Structure, NEW r \in Readers, OpenInPlace(r)
    PROVE  Structure' /\ Grows
<1> DEFINE i == job[r].it
           it == item[i]
           o == Opened(it, path)
<1>1. /\ job[r] \in JobType /\ i \in Items /\ it \in ItemType
      /\ ItemInv(it) /\ Writes(job[r], it) /\ JobShape(job[r])
      /\ job \in [Readers -> JobType] /\ item \in [Items -> ItemType]
      /\ upstream \in Versions /\ data \in [Inodes -> Seq(Versions)]
      /\ path \in Inodes \cup {NoInode}
  BY JobContext DEF Receiving, OpenInPlace
<1>2. /\ job[r].pc = "body" /\ job[r].store /\ job[r].left > 0 /\ it.checked >= 0
      /\ job[r].ver \in Versions /\ path # NoInode
  BY <1>1 DEF OpenInPlace, Receiving, Writes, JobShape, NeedsNewFile
<1>3. /\ o \in ItemType /\ ItemInv(o)
      /\ o.status = FIST_DLRECEIVING /\ o.clen = it.clen /\ o.checked = it.checked + 1
      /\ o.date = it.date /\ o.fd = path
  BY <1>1, <1>2, OpenedFields
<1>4. /\ item' = [item EXCEPT ![i] = o] /\ job' = OneBlockLess(r) /\ Receiving(r)
      /\ UNCHANGED <<upstream, path, reg, reader>> /\ head' = HeadOf(it)
      /\ suspect' \in BOOLEAN
  BY DEF OpenInPlace
<1>5. data' \in [Inodes -> Seq(Versions)]
  <2>1. StartOfWrite(it) \in Nat
    BY <1>1, <1>2 DEF StartOfWrite, ItemType
  <2> DEFINE w == Written(data[path], StartOfWrite(it), job[r].ver)
  <2>2. w \in Seq(Versions)
    BY <1>1, <1>2, <2>1, WrittenType
  <2>3. data' = [data EXCEPT ![path] = w]
    BY DEF OpenInPlace
  <2> HIDE DEF w
  <2> QED
    BY <1>1, <2>2, <2>3
<1>6. DiskTypes
  BY <1>1, <1>4, <1>5, HeadOfFields DEF DiskTypes, ItemInv
<1> HIDE DEF o
<1>7. o.status >= FIST_DLGOTHEAD /\ o.status # FIST_COMPLETE /\ o.fd # NoInode
  BY <1>2, <1>3
<1> QED
  BY <1>3, <1>4, <1>6, <1>7, ReceiveStructure

\* The next block.
LEMMA AddDataStep ==
    ASSUME Structure, NEW r \in Readers, AddData(r)
    PROVE  Structure' /\ Grows
<1> DEFINE i == job[r].it
           it == item[i]
           ck == it.checked + 1
           o == [it EXCEPT !.checked = ck]
<1>1. /\ job[r] \in JobType /\ i \in Items /\ it \in ItemType
      /\ ItemInv(it) /\ Writes(job[r], it) /\ JobShape(job[r])
      /\ job \in [Readers -> JobType] /\ item \in [Items -> ItemType]
      /\ upstream \in Versions /\ data \in [Inodes -> Seq(Versions)]
  BY JobContext DEF Receiving, AddData, Adding
<1>2. /\ job[r].pc = "body" /\ job[r].store /\ job[r].left > 0 /\ it.checked >= 0
      /\ job[r].ver \in Versions /\ it.fd # NoInode /\ it.status <= FIST_COMPLETE
      /\ it.status # FIST_COMPLETE /\ job[r].assigned
  BY <1>1 DEF AddData, Adding, Receiving, Writes, JobShape
<1>3. /\ o \in ItemType
      /\ o.status = it.status /\ o.clen = it.clen /\ o.checked = ck
      /\ o.date = it.date /\ o.fd = it.fd /\ o.cached = it.cached
  <2>1. ck \in Int
    BY <1>1 DEF ItemType
  <2> HIDE DEF ck
  <2> QED
    BY <1>1, <2>1 DEF ItemType
<1>4. /\ item' = [item EXCEPT ![i] = o] /\ job' = OneBlockLess(r) /\ Receiving(r)
      /\ UNCHANGED <<upstream, path, head, reg, reader, suspect>>
  BY <1>1 DEF AddData, Adding
<1>5. data' \in [Inodes -> Seq(Versions)]
  <2>1. Offset(i) \in Nat /\ it.fd \in Inodes
    BY <1>1, <1>2 DEF ItemType, Offset
  <2> DEFINE w == Written(data[it.fd], Offset(i), job[r].ver)
  <2>2. w \in Seq(Versions)
    BY <1>1, <1>2, <2>1, WrittenType
  <2>3. data' = [data EXCEPT ![it.fd] = w]
    BY DEF AddData
  <2> HIDE DEF w
  <2> QED
    BY <1>1, <2>1, <2>2, <2>3
<1>6. DiskTypes
  BY <1>4, <1>5 DEF DiskTypes, Structure, Typed, HeadInv
<1> HIDE DEF o
<1>7. it.status >= FIST_DLGOTHEAD /\ o.status # FIST_COMPLETE
  BY <1>1, <1>2, <1>3 DEF Writes
<1>8. ItemInv(o)
  BY <1>1, <1>2, <1>3, <1>7 DEF ItemInv, ItemType, FiStatus
<1> QED
  BY <1>2, <1>3, <1>4, <1>6, <1>7, <1>8, ReceiveStructure

\* A block that is written after a stray one.
LEMMA SlippedType ==
    ASSUME NEW blocks \in Seq(Versions), NEW pos \in Nat, NEW w \in Versions, NEW v \in Versions
    PROVE  Slipped(blocks, pos, w, v) \in Seq(Versions)
<1> DEFINE b == Written(blocks, pos, w)
<1>1. b \in Seq(Versions) /\ pos + 1 \in Nat
  BY WrittenType
<1> HIDE DEF b
<1>2. Written(b, pos + 1, v) \in Seq(Versions)
  BY <1>1, WrittenType
<1> QED
  BY <1>2 DEF Slipped, b

\* The next block after an interrupted write.
LEMMA AddDataInterruptedStep ==
    ASSUME Structure, NEW r \in Readers, AddDataInterrupted(r)
    PROVE  Structure' /\ Grows
<1> DEFINE i == job[r].it
           it == item[i]
           ck == it.checked + 1
           o == [it EXCEPT !.checked = ck]
<1>1. /\ job[r] \in JobType /\ i \in Items /\ it \in ItemType
      /\ ItemInv(it) /\ Writes(job[r], it) /\ JobShape(job[r])
      /\ job \in [Readers -> JobType] /\ item \in [Items -> ItemType]
      /\ upstream \in Versions /\ data \in [Inodes -> Seq(Versions)]
  BY JobContext DEF Receiving, AddDataInterrupted, Adding
<1>2. /\ job[r].pc = "body" /\ job[r].store /\ job[r].left > 0 /\ it.checked >= 0
      /\ job[r].ver \in Versions /\ it.fd # NoInode /\ it.status <= FIST_COMPLETE
      /\ it.status # FIST_COMPLETE /\ job[r].assigned
  BY <1>1 DEF AddDataInterrupted, Adding, Receiving, Writes, JobShape
<1>3. /\ o \in ItemType
      /\ o.status = it.status /\ o.clen = it.clen /\ o.checked = ck
      /\ o.date = it.date /\ o.fd = it.fd /\ o.cached = it.cached
  <2>1. ck \in Int
    BY <1>1 DEF ItemType
  <2> HIDE DEF ck
  <2> QED
    BY <1>1, <2>1 DEF ItemType
<1>4. /\ item' = [item EXCEPT ![i] = o] /\ job' = OneBlockLess(r) /\ Receiving(r)
      /\ UNCHANGED <<upstream, path, head, reg, reader>> /\ suspect' \in BOOLEAN
  BY <1>1 DEF AddDataInterrupted, Adding
<1>5. data' \in [Inodes -> Seq(Versions)]
  <2>1. it.checked \in Nat /\ it.fd \in Inodes
    BY <1>1, <1>2 DEF ItemType
  <2>2. PICK g \in Versions :
          data' = [data EXCEPT ![it.fd] = Slipped(@, it.checked, g, job[r].ver)]
    BY DEF AddDataInterrupted
  <2> DEFINE w == Slipped(data[it.fd], it.checked, g, job[r].ver)
  <2>3. w \in Seq(Versions)
    BY <1>1, <1>2, <2>1, <2>2, SlippedType
  <2>4. data' = [data EXCEPT ![it.fd] = w]
    BY <2>2
  <2> HIDE DEF w
  <2> QED
    BY <1>1, <2>1, <2>3, <2>4
<1>6. DiskTypes
  BY <1>4, <1>5 DEF DiskTypes, Structure, Typed, HeadInv
<1> HIDE DEF o
<1>7. it.status >= FIST_DLGOTHEAD /\ o.status # FIST_COMPLETE
  BY <1>1, <1>2, <1>3 DEF Writes
<1>8. ItemInv(o)
  BY <1>1, <1>2, <1>3, <1>7 DEF ItemInv, ItemType, FiStatus
<1> QED
  BY <1>2, <1>3, <1>4, <1>6, <1>7, <1>8, ReceiveStructure

\* The disk when the file was opened and its header stored.
LEMMA OpensFileContext ==
    ASSUME Structure, NEW r \in Readers, NEW n \in Inodes, OpensFile(r, n)
    PROVE  LET it == item[job[r].it] IN
           /\ job[r].it \in Items /\ it \in ItemType /\ ItemInv(it)
           /\ it.checked \in Nat /\ StartOfWrite(it) = it.checked
           /\ it.status >= FIST_DLGOTHEAD /\ job[r].ver \in Versions
           /\ upstream' \in Versions /\ path' \in Inodes \cup {NoInode}
           /\ head' \in HeadType /\ HeadInv'
           /\ OpenedData(job[r].it, n) \in [Inodes -> Seq(Versions)]
<1> DEFINE i == job[r].it
           it == item[i]
<1>1. /\ job[r] \in JobType /\ i \in Items /\ it \in ItemType
      /\ ItemInv(it) /\ Writes(job[r], it) /\ JobShape(job[r])
      /\ upstream \in Versions /\ data \in [Inodes -> Seq(Versions)]
  BY JobContext DEF Receiving, OpensFile
<1>2. /\ it.checked >= 0 /\ job[r].ver \in Versions /\ job[r].assigned
  BY <1>1 DEF OpensFile, Receiving, Writes, JobShape
<1>3. it.checked \in Nat /\ StartOfWrite(it) = it.checked /\ it.status >= FIST_DLGOTHEAD
  BY <1>1, <1>2 DEF StartOfWrite, ItemType, Writes
<1>4. head' = HeadOf(it) /\ path' = n /\ upstream' = upstream
  BY DEF OpensFile
<1>5. head' \in HeadType /\ HeadInv'
  BY <1>1, <1>4, HeadOfFields DEF ItemInv
<1>6. OpenedData(i, n) \in [Inodes -> Seq(Versions)]
  <2> DEFINE open == OpenFiles'
             e == << >>
  <2>1. OpenedData(i, n) = IF NeedsNewFile(item[i])
          THEN [[k \in Inodes |-> IF k \in open THEN data[k] ELSE e] EXCEPT ![n] = e]
          ELSE data
    BY DEF OpenedData, Reachable
  <2>2. e \in Seq(Versions)
    OBVIOUS
  <2> HIDE DEF open, e
  <2> QED
    BY <1>1, <2>1, <2>2
<1> QED
  BY <1>1, <1>2, <1>3, <1>4, <1>5, <1>6

\* The first block after an interrupted write.
LEMMA FirstWriteInterruptedStep ==
    ASSUME Structure, NEW r \in Readers, NEW n \in Inodes, FirstWriteInterrupted(r, n)
    PROVE  Structure' /\ Grows
<1> DEFINE i == job[r].it
           it == item[i]
           o == Opened(it, n)
           d == OpenedData(i, n)
<1>1. OpensFile(r, n) /\ Receiving(r) /\ UNCHANGED <<reg, reader>>
  BY DEF FirstWriteInterrupted, OpensFile
<1>2. /\ i \in Items /\ it \in ItemType /\ ItemInv(it)
      /\ it.checked \in Nat /\ StartOfWrite(it) = it.checked
      /\ it.status >= FIST_DLGOTHEAD /\ job[r].ver \in Versions
      /\ upstream' \in Versions /\ path' \in Inodes \cup {NoInode}
      /\ head' \in HeadType /\ HeadInv' /\ d \in [Inodes -> Seq(Versions)]
  BY <1>1, OpensFileContext
<1>3. /\ o \in ItemType /\ ItemInv(o)
      /\ o.status = FIST_DLRECEIVING /\ o.clen = it.clen /\ o.checked = it.checked + 1
      /\ o.date = it.date /\ o.fd = n
  BY <1>2, OpenedFields
<1>4. /\ item' = [item EXCEPT ![i] = o] /\ job' = OneBlockLess(r) /\ suspect' \in BOOLEAN
  BY DEF FirstWriteInterrupted
<1>5. PICK g \in Versions : data' = [d EXCEPT ![n] = Slipped(@, StartOfWrite(it), g, job[r].ver)]
  BY DEF FirstWriteInterrupted
<1> DEFINE w == Slipped(d[n], StartOfWrite(it), g, job[r].ver)
<1>6. data' = [d EXCEPT ![n] = w]
  BY <1>5
<1> HIDE DEF d
<1>7. w \in Seq(Versions)
  BY <1>2, <1>5, SlippedType
<1> HIDE DEF w, o
<1>8. DiskTypes
  BY <1>2, <1>4, <1>6, <1>7 DEF DiskTypes
<1>9. n # NoInode /\ o.status >= FIST_DLGOTHEAD /\ o.status # FIST_COMPLETE
  BY <1>3, TransferAssumption
<1> QED
  BY <1>1, <1>3, <1>4, <1>8, <1>9, ReceiveStructure

\* Both errors of the body: the item is in error, with or without a file.
LEMMA BodyErrorStructure ==
    ASSUME Structure, NEW r \in Readers, Receiving(r), NEW n \in ItemType, ItemInv(n),
           n.status = FIST_DLERROR, n.clen = item[job[r].it].clen,
           item' = [item EXCEPT ![job[r].it] = n], DiskTypes,
           job' = [job EXCEPT ![r] = Unplugged(@, "broken")],
           UNCHANGED <<reg, reader>>
    PROVE  Structure' /\ Grows
<1> DEFINE i == job[r].it
           it == item[i]
           j == Unplugged(job[r], "broken")
<1>1. /\ job[r] \in JobType /\ i \in Items /\ it \in ItemType
      /\ ItemInv(it) /\ Writes(job[r], it) /\ JobShape(job[r])
      /\ job \in [Readers -> JobType] /\ item \in [Items -> ItemType]
  BY JobContext DEF Receiving
<1>2. job[r].pc = "body" /\ job[r].assigned
  BY <1>1 DEF Receiving, JobShape
<1>3. /\ j \in JobType /\ j.pc = "broken" /\ j.it = i /\ j.used = -1
      /\ j.assigned = job[r].assigned
  BY <1>1, UnpluggedFields
<1>4. job' = [job EXCEPT ![r] = j]
  OBVIOUS
<1> HIDE DEF j
<1>5. JobShape(j) /\ Writes(j, n)
  BY <1>1, <1>3 DEF JobShape, Writes
<1>6. JobMoves(r, j, n)
  BY <1>1, <1>2, <1>3, <1>4 DEF JobMoves
<1>7. ~(n.status <= FIST_COMPLETE)
  OBVIOUS
<1>8. n.status # FIST_FRESH /\ n.status >= FIST_DLGOTHEAD
  OBVIOUS
<1> QED
  BY <1>1, <1>2, <1>3, <1>5, <1>6, <1>7, <1>8, JobMovesStructure DEF Grows

\* The item in error, with its file and a checked size.
FailedWith(it, n, c) == [DlSetError(it) EXCEPT !.replace = FALSE, !.fd = n, !.checked = c]

\* What the other fields of such an item are.
LEMMA FailedItemInv ==
    ASSUME NEW it \in ItemType, ItemInv(it), NEW fd \in Inodes \cup {NoInode}, NEW c \in Int,
           c >= -1, it.status >= FIST_DLGOTHEAD
    PROVE  LET e == FailedWith(it, fd, c) IN
           /\ e \in ItemType /\ ItemInv(e) /\ e.status = FIST_DLERROR /\ e.clen = it.clen
           /\ e.checked = c /\ e.fd = fd /\ e.date = it.date
<1> DEFINE d == DlSetError(it)
           e == [d EXCEPT !.replace = FALSE, !.fd = fd, !.checked = c]
<1>1. /\ d \in ItemType /\ ItemInv(d) /\ d.status = FIST_DLERROR
      /\ d.clen = it.clen /\ d.date = it.date
  BY DlSetErrorFields
<1> HIDE DEF d
<1>2. /\ e \in ItemType /\ e.status = FIST_DLERROR /\ e.clen = d.clen /\ e.checked = c
      /\ e.fd = fd /\ e.date = d.date /\ e.cached = d.cached
  BY <1>1 DEF ItemType
<1> HIDE DEF e
<1>3. ItemInv(e)
  BY <1>1, <1>2 DEF ItemInv
<1>4. e = FailedWith(it, fd, c)
  BY DEF FailedWith, e, d
<1> QED
  BY <1>1, <1>2, <1>3, <1>4

\* A block that cannot be written.
LEMMA WriteErrorStep ==
    ASSUME Structure, NEW r \in Readers, WriteError(r)
    PROVE  Structure' /\ Grows
<1> DEFINE i == job[r].it
           it == item[i]
<1>1. /\ i \in Items /\ it \in ItemType /\ ItemInv(it) /\ Writes(job[r], it)
      /\ it.status <= FIST_COMPLETE /\ it.fd # NoInode /\ Receiving(r)
  BY JobContext DEF Receiving, Adding, WriteError
<1>2. it.checked > 0 /\ it.checked \in Int /\ it.status >= FIST_DLGOTHEAD
  BY <1>1 DEF ItemInv, ItemType, FiStatus
<1>3. PICK c \in AfterFailure(it.checked) :
        item' = [item EXCEPT ![i] = [DlSetError(@) EXCEPT !.checked = c]]
  BY DEF WriteError
<1>4. c \in Int /\ c >= -1
  BY <1>2, <1>3 DEF AfterFailure
<1> DEFINE d == DlSetError(it)
           e == [d EXCEPT !.checked = c]
<1>5. /\ d \in ItemType /\ ItemInv(d) /\ d.status = FIST_DLERROR /\ d.clen = it.clen
  BY <1>1, DlSetErrorFields
<1>6. item' = [item EXCEPT ![i] = e]
  BY <1>3
<1> HIDE DEF d
<1>7. /\ e \in ItemType /\ e.status = FIST_DLERROR /\ e.clen = d.clen /\ e.checked = c
      /\ e.fd = d.fd /\ e.date = d.date /\ e.cached = d.cached
  BY <1>4, <1>5 DEF ItemType
<1> HIDE DEF e
<1>8. ItemInv(e)
  BY <1>4, <1>5, <1>7 DEF ItemInv
<1>9. /\ job' = [job EXCEPT ![r] = Unplugged(@, "broken")] /\ suspect' \in BOOLEAN
      /\ UNCHANGED <<upstream, path, data, head, reg, reader>>
  BY DEF WriteError, diskvars
<1>10. DiskTypes
  BY <1>9 DEF DiskTypes, Structure, Typed, HeadInv
<1> QED
  BY <1>1, <1>5, <1>6, <1>7, <1>8, <1>9, <1>10, BodyErrorStructure

\* The file is open and the first block cannot be written.
LEMMA FirstWriteFailsStep ==
    ASSUME Structure, NEW r \in Readers, NEW n \in Inodes, FirstWriteFails(r, n)
    PROVE  Structure' /\ Grows
<1> DEFINE i == job[r].it
           it == item[i]
<1>1. OpensFile(r, n) /\ Receiving(r) /\ UNCHANGED <<reg, reader>>
  BY DEF FirstWriteFails, OpensFile
<1>2. /\ i \in Items /\ it \in ItemType /\ ItemInv(it)
      /\ it.checked \in Nat /\ StartOfWrite(it) = it.checked
      /\ it.status >= FIST_DLGOTHEAD
      /\ upstream' \in Versions /\ path' \in Inodes \cup {NoInode}
      /\ head' \in HeadType /\ HeadInv' /\ OpenedData(i, n) \in [Inodes -> Seq(Versions)]
  BY <1>1, OpensFileContext
<1>3. PICK c \in AfterFailure(StartOfWrite(it)) :
        item' = [item EXCEPT ![i] =
                   [DlSetError(@) EXCEPT !.replace = FALSE, !.fd = n, !.checked = c]]
  BY DEF FirstWriteFails
<1>4. c \in Int /\ c >= -1
  BY <1>2, <1>3 DEF AfterFailure
<1> DEFINE e == FailedWith(it, n, c)
<1>5. e \in ItemType /\ ItemInv(e) /\ e.status = FIST_DLERROR /\ e.clen = it.clen
  <2>1. n \in Inodes \cup {NoInode}
    OBVIOUS
  <2> QED
    BY <1>2, <1>4, <2>1, FailedItemInv
<1>6. item' = [item EXCEPT ![i] = e]
  BY <1>3 DEF FailedWith
<1>7. /\ job' = [job EXCEPT ![r] = Unplugged(@, "broken")] /\ suspect' \in BOOLEAN
      /\ data' = OpenedData(i, n)
  BY DEF FirstWriteFails
<1>8. DiskTypes
  BY <1>2, <1>7 DEF DiskTypes
<1> HIDE DEF e
<1> QED
  BY <1>1, <1>5, <1>6, <1>7, <1>8, BodyErrorStructure

\* The file cannot be opened.
LEMMA OpenErrorStep ==
    ASSUME Structure, NEW r \in Readers, OpenError(r)
    PROVE  Structure' /\ Grows
<1> DEFINE i == job[r].it
           e == DlSetError(item[i])
<1>1. /\ i \in Items /\ item[i] \in ItemType /\ ItemInv(item[i])
      /\ path \in Inodes \cup {NoInode}
  BY JobContext DEF Receiving, OpenError
<1>2. /\ e \in ItemType /\ ItemInv(e) /\ e.status = FIST_DLERROR
      /\ e.clen = item[i].clen /\ e.checked = item[i].checked
  BY <1>1, DlSetErrorFields
<1>3. /\ Receiving(r)
      /\ job' = [job EXCEPT ![r] = Unplugged(@, "broken")]
      /\ UNCHANGED <<upstream, head, reg, reader>> /\ suspect' \in BOOLEAN
  BY DEF OpenError
<1>4. data' \in [Inodes -> Seq(Versions)]
  BY ReachableContent DEF OpenError, Structure
<1>5. CASE path' \in {path, NoInode} /\ item' = [item EXCEPT ![i] = e]
  <2>1. DiskTypes
    BY <1>1, <1>3, <1>4, <1>5 DEF DiskTypes, Structure, Typed, HeadInv
  <2> HIDE DEF e
  <2> QED
    BY <1>2, <1>3, <1>5, <2>1, BodyErrorStructure
<1>6. ASSUME NEW n \in Inodes, path' = n,
             item' = [item EXCEPT ![i] = [DlSetError(@) EXCEPT !.fd = n]]
      PROVE  Structure' /\ Grows
  <2> DEFINE f == [e EXCEPT !.fd = n]
  <2>1. item' = [item EXCEPT ![i] = f]
    BY <1>6
  <2>2. DiskTypes
    BY <1>1, <1>3, <1>4, <1>6 DEF DiskTypes, Structure, Typed, HeadInv
  <2> HIDE DEF e
  <2>3. /\ f \in ItemType /\ f.status = e.status /\ f.clen = e.clen /\ f.checked = e.checked
        /\ f.cached = e.cached /\ f.date = e.date
    BY <1>2 DEF ItemType
  <2> HIDE DEF f
  <2>4. ItemInv(f)
    BY <1>2, <2>3 DEF ItemInv
  <2> QED
    BY <1>2, <1>3, <2>1, <2>2, <2>3, <2>4, BodyErrorStructure
<1> QED
  BY <1>5, <1>6 DEF OpenError

-----------------------------------------------------------------------------
(* The end of a job *)

\* The job is gone; its item was it before the last reference counted.
JobEnds(r, it) ==
    /\ r \in Readers /\ it \in ItemType /\ job[r].it \in Items
    /\ job' = [job EXCEPT ![r] = NoJob]
    /\ reg' = reg
    /\ item' = Dropped(job[r].it, it)
    /\ reader' \in [Readers -> ReaderType]
    /\ \A s \in Readers :
         \/ reader'[s] = reader[s]
         \/ s = r /\ reader[r].pc = "closing" /\ reader'[r] = [reader[r] EXCEPT !.pc = "idle"]

\* ~tDlJob preserves the structure, whatever ended the job.
LEMMA JobEndsStructure ==
    ASSUME Structure, NEW r, NEW it, JobEnds(r, it), DiskTypes,
           ItemInv(it), it.status # FIST_FRESH, it.checked = item[job[r].it].checked,
           \/ it = item[job[r].it]
           \/ /\ job[r].assigned /\ job[r].pc # "broken"
              /\ it.status >= FIST_COMPLETE
              /\ it.status <= FIST_COMPLETE => item[job[r].it].status <= FIST_COMPLETE
              /\ item[job[r].it].clen >= 0 => it.clen = item[job[r].it].clen
    PROVE  Structure' /\ Grows
<1> DEFINE i == job[r].it
           last == Downloads(i, job') = {}
           gone == ~Referenced(i, reg', reader', job')
           n == IF gone THEN FreeItem ELSE DlRefCountDec(it, last)
<1> USE DEF JobEnds
<1>0. /\ i \in Items /\ r \in Readers /\ i # NoItem
      /\ item \in [Items -> ItemType] /\ job \in [Readers -> JobType]
      /\ reader \in [Readers -> ReaderType] /\ reg \in Items \cup {NoItem}
  BY TransferAssumption DEF Structure, Typed
<1>1. item' = [item EXCEPT ![i] = n]
  BY DEF Dropped
<1>2. /\ \A s \in Readers : s # r => job'[s] = job[s]
      /\ job'[r] = NoJob /\ NoJob.it = NoItem /\ NoJob \in JobType /\ NoJob.pc = "none"
      /\ job' \in [Readers -> JobType]
  BY <1>0, NoJobType
<1>3. ASSUME NEW s \in Readers
      PROVE  /\ reader'[s].it = reader[s].it /\ reader'[s].mode = reader[s].mode
             /\ reader'[s].ann = reader[s].ann /\ reader'[s].fd = reader[s].fd
             /\ reader'[s].pc = reader[s].pc \/ (reader[s].pc = "closing" /\ reader'[s].pc = "idle")
  <2>1. CASE reader'[s] = reader[s]
    BY <2>1
  <2>2. CASE s = r /\ reader[r].pc = "closing" /\ reader'[r] = [reader[r] EXCEPT !.pc = "idle"]
    BY <1>0, <2>2 DEF ReaderType
  <2> QED
    BY <2>1, <2>2
<1>4. /\ gone => n = FreeItem
      /\ ~gone /\ last /\ it.status < FIST_COMPLETE => n = DlSetError(it)
      /\ ~gone /\ ~(last /\ it.status < FIST_COMPLETE) => n = it
  BY DEF DlRefCountDec
<1> HIDE DEF n
<1>5. /\ DlSetError(it) \in ItemType /\ ItemInv(DlSetError(it))
      /\ DlSetError(it).status = FIST_DLERROR /\ DlSetError(it).clen = it.clen
      /\ DlSetError(it).checked = it.checked
  BY DlSetErrorFields
<1>6. /\ n \in ItemType /\ ItemInv(n)
      /\ gone => n = FreeItem /\ n.status = FIST_FRESH
      /\ ~gone => n.status # FIST_FRESH /\ n.clen = it.clen /\ n.checked = it.checked
                  /\ (n = it \/ n.status = FIST_DLERROR)
      /\ ~gone /\ last => n.status >= FIST_COMPLETE
      /\ ~last => ~gone /\ n = it
  <2>1. FreeItem \in ItemType /\ ItemInv(FreeItem) /\ FreeItem.status = FIST_FRESH
    BY FreeItemType, FreeItemInv
  <2>2. ~last => ~gone
    BY DEF Referenced
  <2>3. it.status \in Int
    BY DEF ItemType, FiStatus
  <2> HIDE DEF last, gone
  <2>4. CASE gone
    BY <1>4, <2>1, <2>2, <2>4
  <2>5. CASE ~gone /\ last /\ it.status < FIST_COMPLETE
    BY <1>4, <1>5, <2>5
  <2>6. CASE ~gone /\ ~(last /\ it.status < FIST_COMPLETE)
    BY <1>4, <2>2, <2>3, <2>6
  <2> QED
    BY <2>4, <2>5, <2>6
<1>16. n.status # FIST_FRESH /\ n.status < FIST_COMPLETE => ~last
  <2> HIDE DEF last, gone
  <2> QED
    BY <1>6 DEF ItemType, FiStatus
<1>7. /\ \A k \in Items : k # i => item'[k] = item[k]
      /\ item'[i] = n
      /\ item' \in [Items -> ItemType]
  BY <1>0, <1>1, <1>6
<1>8. Typed'
  BY <1>0, <1>2, <1>7 DEF Typed, DiskTypes
<1>9. ASSUME NEW k \in Items
      PROVE  /\ Users(k, reader') = Users(k, reader)
             /\ k # i => Downloads(k, job') = Downloads(k, job)
  <2>1. Users(k, reader') = Users(k, reader)
    BY <1>3 DEF Users
  <2>2. k # NoItem
    BY TransferAssumption
  <2>3. k # i => Downloads(k, job') = Downloads(k, job)
    BY <1>2, <2>2 DEF Downloads
  <2> QED
    BY <2>1, <2>3
<1>10. ASSUME NEW k \in Items
       PROVE  (ItemInv(item[k]) /\ ItemShape(k) /\ Active(k))'
  <2>1. CASE k # i
    <3>1. ItemInv(item'[k]) /\ Active(k)'
      BY <1>7, <1>9, <2>1 DEF Structure, Active
    <3>2. Referenced(k, reg', reader', job') = Referenced(k, reg, reader, job)
      BY <1>9, <2>1 DEF Referenced
    <3>3. ItemShape(k)'
      BY <1>7, <2>1, <3>2 DEF Structure, ItemShape
    <3> QED
      BY <3>1, <3>3
  <2>2. CASE k = i
    <3>1. ItemInv(item'[k])
      BY <1>6, <1>7, <2>2
    <3>2. ItemShape(k)'
      BY <1>6, <1>7, <2>2 DEF ItemShape
    <3>3. Active(k)'
      <4>1. item'[i].status \in {FIST_DLGOTHEAD, FIST_DLRECEIVING} => Downloads(i, job') # {}
        <5>1. item'[i] = n
          BY <1>7
        <5>2. n.status \in {FIST_DLGOTHEAD, FIST_DLRECEIVING} =>
                n.status # FIST_FRESH /\ n.status < FIST_COMPLETE
          OBVIOUS
        <5> QED
          BY <1>16, <5>1, <5>2
      <4> QED
        BY <2>2, <4>1 DEF Active
    <3> QED
      BY <3>1, <3>2, <3>3
  <2> QED
    BY <2>1, <2>2
<1>11. ASSUME NEW s \in Readers
       PROVE  (JobShape(job[s]) /\ ReaderShape(s) /\ Follows(s) /\ Waiting(s))'
  <2>0. /\ JobShape(job[s]) /\ ReaderShape(s) /\ Follows(s) /\ Waiting(s)
        /\ reader[s] \in ReaderType
    BY <1>0 DEF Structure
  <2>1. JobShape(job'[s])
    BY <1>2, <2>0, NoJobShape
  <2>2. ReaderShape(s)'
    BY <1>2, <1>3, <2>0 DEF ReaderShape
  <2>3. reader[s].it = i => ~gone
    BY <1>0, <1>3 DEF Referenced, Users
  <2>4. reader[s].it # i /\ reader[s].it # NoItem => item'[reader[s].it] = item[reader[s].it]
    BY <1>7, <2>0 DEF ReaderType
  <2>5. Follows(s)'
    <3>1. CASE reader[s].it # i
      BY <1>2, <1>3, <2>0, <2>4, <3>1 DEF Follows, ReaderShape
    <3>2. CASE reader[s].it = i
      <4>1. reader[s].mode # "none" => item[i].status >= FIST_DLGOTHEAD /\ (item[i].status <= FIST_COMPLETE => item[i].checked >= 0)
        BY <2>0, <3>2 DEF Follows
      <4>2. reader[s].mode # "none" => n.status >= FIST_DLGOTHEAD /\ (n.status <= FIST_COMPLETE => n.checked >= 0)
        <5>1. reader[s].mode # "none" => it.status >= FIST_DLGOTHEAD /\ (it.status <= FIST_COMPLETE => it.checked >= 0)
          BY <4>1 DEF ItemType, FiStatus
        <5>2. (n = it \/ n.status = FIST_DLERROR) /\ n.checked = it.checked
          BY <1>6, <2>3, <3>2
        <5> QED
          BY <5>1, <5>2
      <4>3. reader[s].mode = "plain" => it.clen = reader[s].ann
        <5>1. item[i].clen \in Int /\ reader[s].ann \in Int
          BY <1>0 DEF ItemType, ReaderType
        <5>2. reader[s].mode = "plain" /\ reader[s].ann < 0 /\ job[r].assigned
                => job[r].pc = "broken"
          BY <1>0, <2>0, <3>2 DEF Follows
        <5> QED
          BY <2>0, <3>2, <5>1, <5>2 DEF Follows
      <4>4. reader[s].mode = "plain" /\ reader[s].ann < 0 =>
              \A q \in Readers : job'[q].it = i /\ job'[q].assigned => job'[q].pc = "broken"
        BY <1>0, <1>2, <2>0, <3>2 DEF Follows
      <4> QED
        BY <1>3, <1>6, <1>7, <2>3, <3>2, <4>2, <4>3, <4>4 DEF Follows
    <3> QED
      BY <3>1, <3>2
  <2>6. Waiting(s)'
    <3>1. CASE reader[s].it # i
      <4>1. reader[s].pc \notin {"idle", "closing"} => reader[s].it \in Items
        BY <2>0 DEF ReaderShape, ReaderType
      <4> QED
        <5> SUFFICES ASSUME reader'[s].pc \in {"await", "send", "sendfile", "chunk", "chunkdata"},
                            item'[reader'[s].it].status < FIST_COMPLETE
                     PROVE  Downloads(reader'[s].it, job') # {}
          BY DEF Waiting
        <5>1. reader[s].pc = reader'[s].pc /\ reader'[s].it = reader[s].it
          BY <1>3
        <5>2. reader[s].it \in Items /\ reader[s].it # NoItem
          BY <4>1, <5>1, TransferAssumption
        <5>3. Downloads(reader[s].it, job) # {}
          BY <2>0, <2>4, <3>1, <5>1, <5>2 DEF Waiting
        <5> QED
          BY <1>9, <3>1, <5>1, <5>2, <5>3
    <3>2. CASE reader[s].it = i
      <4>1. n.status # FIST_FRESH
        BY <1>6, <2>3, <3>2
      <4> QED
        <5>1. reader'[s].it = i /\ item'[i] = n
          BY <1>3, <1>7, <3>2
        <5>2. item'[reader'[s].it].status < FIST_COMPLETE => Downloads(reader'[s].it, job') # {}
          BY <1>16, <4>1, <5>1
        <5> QED
          BY <5>2 DEF Waiting
    <3> QED
      BY <3>1, <3>2
  <2> QED
    BY <2>1, <2>2, <2>5, <2>6
<1>12. ASSUME NEW s \in Readers, job'[s].it \in Items
       PROVE  Writes(job'[s], item'[job'[s].it])
  <2>1. s # r /\ job'[s] = job[s]
    BY <1>2, <1>12, TransferAssumption
  <2>2. Writes(job[s], item[job[s].it]) /\ JobShape(job[s])
    BY <1>12, <2>1 DEF Structure
  <2>3. CASE job[s].it # i
    BY <1>7, <1>12, <2>1, <2>2, <2>3
  <2>4. CASE job[s].it = i
    <3>1. n = it
      <4>1. s \in Downloads(i, job')
        BY <2>1, <2>4 DEF Downloads
      <4> QED
        BY <1>6, <4>1
    <3>2. CASE it = item[i]
      BY <1>7, <2>1, <2>2, <2>4, <3>1, <3>2
    <3>3. CASE job[r].assigned
      <4>1. ~job[s].assigned /\ job[s].pc # "body"
        BY <1>0, <2>1, <2>2, <2>4, <3>3 DEF Structure, OneWriter, JobShape
      <4> QED
        BY <1>7, <2>1, <2>4, <4>1 DEF Writes
    <3> QED
      BY <3>2, <3>3
  <2> QED
    BY <2>3, <2>4
<1>13. OneWriter'
  <2>1. \A s \in Readers : job'[s].assigned => job'[s] = job[s]
    BY <1>2, NoJobFlags
  <2> QED
    BY <2>1 DEF Structure, OneWriter
<1>14. HeadInv'
  BY DEF DiskTypes
<1>15. Grows
  BY <1>0, <1>6, <1>7 DEF Grows, ItemType
<1> QED
  BY <1>8, <1>10, <1>11, <1>12, <1>13, <1>14, <1>15 DEF Structure

\* What DlFinish leaves of the item of a job that is done.
LEMMA FinishedItem ==
    ASSUME NEW it \in ItemType, ItemInv(it), NEW j \in JobType, Writes(j, it), JobShape(j),
           j.pc = "body", j.left = 0 \/ ~j.store
    PROVE  LET f == DlFinish(it) IN
           /\ f \in ItemType /\ ItemInv(f) /\ f.checked = it.checked
           /\ f.status >= FIST_COMPLETE
           /\ it.clen >= 0 => f.clen = it.clen
           /\ it.status > FIST_COMPLETE => f = it
           /\ f.status <= FIST_COMPLETE => it.status <= FIST_COMPLETE
           /\ f.date = it.date
<1>1. CASE it.status > FIST_COMPLETE
  <2>1. DlFinish(it) = it
    BY <1>1 DEF DlFinish
  <2> QED
    BY <1>1, <2>1 DEF ItemType, FiStatus
<1>2. CASE it.status <= FIST_COMPLETE
  <2> DEFINE f == DlFinish(it)
  <2>1. /\ f \in ItemType
        /\ f.status = FIST_COMPLETE /\ f.clen = (IF it.clen < 0 THEN it.checked ELSE it.clen)
        /\ f.checked = it.checked /\ f.date = it.date /\ f.fd = it.fd /\ f.cached = it.cached
        /\ f.good = it.good
    BY <1>2, DlFinishFields
  <2> HIDE DEF f
  <2>2. CASE j.store
    <3>1. /\ it.date = j.ver /\ it.checked >= 0 /\ it.checked = Lengths[j.ver]
          /\ j.ver \in Versions
      BY <2>2 DEF Writes, JobShape, ItemType
    <3>2. Lengths[j.ver] \in Nat /\ Lengths[j.ver] > 0 /\ j.ver # NoDate
      BY <3>1, LengthsType
    <3>3. f.clen = Lengths[j.ver] /\ f.checked = Lengths[j.ver]
      BY <2>1, <3>1, <3>2 DEF ItemInv, ItemType
    <3>4. ItemInv(f)
      BY <2>1, <3>1, <3>2, <3>3 DEF ItemInv, ItemType
    <3> QED
      BY <1>2, <2>1, <3>4 DEF ItemType, FiStatus, f
  <2>3. CASE ~j.store
    <3>1. it.status = FIST_COMPLETE
      BY <1>2, <2>3 DEF Writes, ItemType, FiStatus
    <3>2. f.clen = it.clen
      BY <2>1, <3>1 DEF ItemInv, ItemType
    <3>3. ItemInv(f)
      BY <2>1, <3>1, <3>2 DEF ItemInv, ItemType
    <3> QED
      BY <1>2, <2>1, <3>2, <3>3 DEF ItemType, FiStatus, f
  <2> QED
    BY <2>2, <2>3
<1> QED
  BY <1>1, <1>2 DEF ItemType, FiStatus

\* STATE_FINISHJOB.
LEMMA FinishJobStep ==
    ASSUME Structure, NEW r \in Readers, FinishJob(r)
    PROVE  Structure' /\ Grows
<1> DEFINE i == job[r].it
           it == item[i]
           f == DlFinish(it)
<1>1. /\ job[r] \in JobType /\ i \in Items /\ it \in ItemType
      /\ ItemInv(it) /\ Writes(job[r], it) /\ JobShape(job[r])
      /\ it.status # FIST_FRESH /\ reader \in [Readers -> ReaderType]
  BY JobContext DEF FinishJob, Structure, Typed
<1>2. /\ job[r].pc = "body" /\ (job[r].left = 0 \/ ~job[r].store) /\ job[r].assigned
      /\ job[r].pc # "broken"
  BY <1>1 DEF FinishJob, JobShape
<1>3. /\ f \in ItemType /\ ItemInv(f) /\ f.checked = it.checked
      /\ f.status >= FIST_COMPLETE
      /\ f.status <= FIST_COMPLETE => it.status <= FIST_COMPLETE
      /\ it.clen >= 0 => f.clen = it.clen
  BY <1>1, <1>2, FinishedItem
<1>4. /\ UNCHANGED <<upstream, path, reg, reader, suspect>>
      /\ job' = [job EXCEPT ![r] = NoJob] /\ item' = Dropped(i, f)
      /\ head' = HeadOf(f) \/ head' = head
  BY DEF FinishJob
<1>5. data' \in [Inodes -> Seq(Versions)]
  BY ReachableContent DEF FinishJob, Structure
<1> HIDE DEF f
<1>6. head' \in HeadType /\ HeadInv'
  BY <1>3, <1>4, HeadOfFields DEF ItemInv, Structure, Typed, HeadInv
<1>7. DiskTypes
  BY <1>4, <1>5, <1>6 DEF DiskTypes, Structure, Typed
<1>8. JobEnds(r, f)
  BY <1>1, <1>3, <1>4 DEF JobEnds
<1>9. f.status # FIST_FRESH
  BY <1>3
<1> QED
  BY <1>2, <1>3, <1>7, <1>8, <1>9, JobEndsStructure

\* A job that is given up.
LEMMA JobDiesStep ==
    ASSUME Structure, NEW r \in Readers, JobDies(r)
    PROVE  Structure' /\ Grows
<1>1. /\ job[r].it \in Items /\ item[job[r].it] \in ItemType /\ ItemInv(item[job[r].it])
      /\ item[job[r].it].status # FIST_FRESH /\ reader \in [Readers -> ReaderType]
  BY JobContext DEF JobDies, Structure, Typed
<1>2. data' \in [Inodes -> Seq(Versions)]
  BY ReachableContent DEF JobDies, Structure
<1>3. DiskTypes
  BY <1>2 DEF JobDies, DiskTypes, Structure, Typed, HeadInv
<1>4. JobEnds(r, item[job[r].it])
  BY <1>1 DEF JobEnds, JobDies
<1> QED
  BY <1>1, <1>3, <1>4, JobEndsStructure

\* ~Impl of a connection ends its downloader.
LEMMA CloseStep ==
    ASSUME Structure, NEW r \in Readers, Close(r)
    PROVE  Structure' /\ Grows
<1> DEFINE i == job[r].it
           rd == [reader[r] EXCEPT !.pc = "idle"]
<1>1. /\ job[r] \in JobType /\ reader[r] \in ReaderType /\ reader \in [Readers -> ReaderType]
      /\ job \in [Readers -> JobType] /\ item \in [Items -> ItemType]
  BY DEF Structure, Typed
<1>2. data' \in [Inodes -> Seq(Versions)]
  BY ReachableContent DEF Close, Structure
<1>3. DiskTypes
  BY <1>2 DEF Close, DiskTypes, Structure, Typed, HeadInv
<1>4. reader' = [reader EXCEPT ![r] = rd] /\ rd \in ReaderType
  BY <1>1 DEF Close, ReaderType
<1>5. /\ reader' \in [Readers -> ReaderType] /\ reader'[r] = rd /\ reader[r].pc = "closing"
      /\ \A s \in Readers : s # r => reader'[s] = reader[s]
  BY <1>1, <1>4 DEF Close
<1>6. CASE i # NoItem
  <2>1. i \in Items /\ job[r].pc # "none"
    BY <1>1, <1>6, NoJobType DEF JobType, Structure, JobShape
  <2>2. /\ item[i] \in ItemType /\ ItemInv(item[i]) /\ item[i].status # FIST_FRESH
    BY <2>1, JobContext
  <2>3. JobEnds(r, item[i])
    BY <1>5, <1>6, <2>1, <2>2 DEF JobEnds, Close
  <2> QED
    BY <1>3, <2>1, <2>2, <2>3, JobEndsStructure
<1>7. CASE i = NoItem
  <2>1. job[r] = NoJob
    BY <1>1, <1>7, TransferAssumption DEF Structure, JobShape
  <2>2. job' = job /\ item' = item /\ reg' = reg
    BY <1>1, <1>7, <2>1 DEF Close
  <2>3. /\ rd.it = reader[r].it /\ rd.mode = reader[r].mode /\ rd.pc = "idle"
        /\ rd.ann = reader[r].ann /\ rd.fd = reader[r].fd
    BY <1>1 DEF ReaderType
  <2> HIDE DEF rd
  <2>4. Typed'
    BY <1>3, <1>5, <2>2 DEF Structure, Typed, DiskTypes
  <2>5. \A k \in Items : Users(k, reader') = Users(k, reader)
    BY <1>5, <2>3 DEF Users
  <2>6. \A k \in Items : (ItemInv(item[k]) /\ ItemShape(k) /\ Active(k))'
    BY <2>2, <2>5 DEF Structure, ItemInv, ItemShape, Active, Referenced
  <2>7. ASSUME NEW s \in Readers
        PROVE  (JobShape(job[s]) /\ ReaderShape(s) /\ Follows(s) /\ Waiting(s))'
    <3>1. JobShape(job[s])'
      BY <2>2 DEF Structure, JobShape
    <3>2. ReaderShape(s)'
      BY <1>5, <2>2, <2>3 DEF Structure, ReaderShape
    <3>3. Follows(s)'
      BY <1>5, <2>2, <2>3 DEF Structure, Follows
    <3>4. Waiting(s)'
      BY <1>5, <2>2, <2>3 DEF Structure, Waiting
    <3> QED
      BY <3>1, <3>2, <3>3, <3>4
  <2>8. Grows
    BY <1>1, <2>2 DEF Grows, ItemType
  <2> QED
    BY <1>3, <2>2, <2>4, <2>6, <2>7, <2>8
    DEF Structure, DiskTypes, OneWriter, Writes, UsedRangeStartPos
<1> QED
  BY <1>6, <1>7

-----------------------------------------------------------------------------
(* The other steps *)

\* The item after its last user left.
LEMMA StoppedFields ==
    ASSUME NEW it \in ItemType, ItemInv(it)
    PROVE  LET t == Stopped(it) IN
           /\ t \in ItemType /\ ItemInv(t)
           /\ t.status = (IF it.status < FIST_COMPLETE THEN FIST_DLSTOP ELSE it.status)
           /\ t.clen = it.clen /\ t.checked = it.checked /\ t.date = it.date
           /\ t.fd = it.fd /\ t.cached = it.cached /\ ~t.good
<1> DEFINE t == Stopped(it)
           st == IF it.status < FIST_COMPLETE THEN FIST_DLSTOP ELSE it.status
<1>1. st \in FiStatus /\ t = [it EXCEPT !.status = st, !.good = FALSE]
  <2>1. st \in FiStatus
    BY StatusType DEF ItemType
  <2>2. t = [it EXCEPT !.status = st, !.good = FALSE]
    BY DEF Stopped
  <2> QED
    BY <2>1, <2>2
<1> HIDE DEF t, st
<1>2. t \in ItemType
  BY <1>1 DEF ItemType
<1>3. /\ t.status = st /\ t.clen = it.clen /\ t.checked = it.checked /\ t.date = it.date
      /\ t.fd = it.fd /\ t.cached = it.cached
  BY <1>1 DEF ItemType
<1>4. t.good = FALSE
  BY <1>1 DEF ItemType
<1>5. st = it.status \/ st = FIST_DLSTOP
  BY DEF st
<1>6. st < FIST_COMPLETE => FALSE
  BY DEF st, ItemType, FiStatus
<1>7. ItemInv(t)
  BY <1>2, <1>3, <1>4, <1>5, <1>6 DEF ItemInv, ItemType, FiStatus
<1> QED
  BY <1>2, <1>3, <1>4, <1>7 DEF t, st

\* A client job ends: the holder gives the item back.
LEMMA LeaveStep ==
    ASSUME Structure, NEW r \in Readers, NEW closed \in BOOLEAN, Leave(r, closed),
           reader[r].pc \notin {"idle", "closing"}
    PROVE  Structure' /\ Grows
<1> DEFINE i == reader[r].it
           it == item[i]
           last == Users(i, reader) = {r}
           gone == ~Referenced(i, reg', reader', job')
           n == IF gone THEN FreeItem ELSE IF last THEN Stopped(it) ELSE it
           rd == [IdleReader EXCEPT !.pc = IF closed /\ job[r].pc # "none" THEN "closing" ELSE "idle"]
<1>0. /\ item \in [Items -> ItemType] /\ job \in [Readers -> JobType]
      /\ reader \in [Readers -> ReaderType] /\ reg \in Items \cup {NoItem}
      /\ i \in Items /\ i = reg /\ NoItem \notin Items /\ it \in ItemType /\ ItemInv(it)
      /\ it.status # FIST_FRESH
  <2>1. /\ item \in [Items -> ItemType] /\ job \in [Readers -> JobType]
        /\ reader \in [Readers -> ReaderType] /\ reg \in Items \cup {NoItem}
    BY DEF Structure, Typed
  <2>2. i \in Items /\ i = reg
    BY <2>1 DEF Structure, ReaderShape, ReaderType
  <2>3. Referenced(i, reg, reader, job)
    BY <2>2 DEF Referenced
  <2>4. it.status # FIST_FRESH
    BY <2>2, <2>3 DEF Structure, ItemShape
  <2> QED
    BY <2>1, <2>2, <2>4, TransferAssumption DEF Structure
<1>1. /\ rd \in ReaderType /\ rd.it = NoItem /\ rd.mode = "none" /\ rd.pc \in {"idle", "closing"}
      /\ rd.fd = NoInode /\ rd.got = << >> /\ rd.lim = 0
  <2> DEFINE c == IdleReader
             pc == IF closed /\ job[r].pc # "none" THEN "closing" ELSE "idle"
  <2>1. pc \in {"idle", "closing"} /\ rd = [c EXCEPT !.pc = pc]
    OBVIOUS
  <2>2. c \in ReaderType /\ c.it = NoItem /\ c.mode = "none" /\ c.fd = NoInode
        /\ c.got = << >> /\ c.lim = 0
    BY IdleReaderType
  <2> HIDE DEF c, pc, rd
  <2> QED
    BY <2>1, <2>2 DEF ReaderType
<1>2. /\ reader' = [reader EXCEPT ![r] = rd]
      /\ reg' = (IF last THEN NoItem ELSE reg)
      /\ item' = [item EXCEPT ![i] = n]
      /\ UNCHANGED <<upstream, path, head, job, suspect>> /\ data' = Reachable
  BY <1>0 DEF Leave
<1> HIDE DEF rd
<1>3. /\ \A s \in Readers : s # r => reader'[s] = reader[s]
      /\ reader'[r] = rd /\ reader' \in [Readers -> ReaderType]
  BY <1>0, <1>1, <1>2
<1>4. data' \in [Inodes -> Seq(Versions)]
  BY <1>2, ReachableContent DEF Structure
<1>5. /\ Stopped(it) \in ItemType /\ ItemInv(Stopped(it))
      /\ Stopped(it).status = (IF it.status < FIST_COMPLETE THEN FIST_DLSTOP ELSE it.status)
      /\ Stopped(it).clen = it.clen /\ Stopped(it).checked = it.checked
      /\ Stopped(it).date = it.date /\ Stopped(it).fd = it.fd
      /\ Stopped(it).cached = it.cached
  BY <1>0, StoppedFields
<1>6. ~last => ~gone
  BY <1>0, <1>2 DEF Referenced
<1>7. /\ n \in ItemType /\ ItemInv(n)
      /\ gone => n = FreeItem /\ n.status = FIST_FRESH
      /\ ~gone => n.status # FIST_FRESH /\ n.checked = it.checked
      /\ ~last => n = it
      /\ last /\ ~gone => n = Stopped(it) /\ n.status >= FIST_COMPLETE
  <2>1. FreeItem \in ItemType /\ ItemInv(FreeItem) /\ FreeItem.status = FIST_FRESH
    BY FreeItemType, FreeItemInv
  <2>2. it.status \in Int
    BY <1>0 DEF ItemType, FiStatus
  <2>3. CASE gone
    BY <1>6, <2>1, <2>3
  <2>4. CASE ~gone /\ last
    BY <1>5, <2>2, <2>4
  <2>5. CASE ~gone /\ ~last
    BY <1>0, <2>5
  <2> QED
    BY <2>3, <2>4, <2>5
<1> HIDE DEF n
<1>8. /\ \A k \in Items : k # i => item'[k] = item[k]
      /\ item'[i] = n /\ item' \in [Items -> ItemType]
  BY <1>0, <1>2, <1>7
<1>9. Typed'
  BY <1>0, <1>2, <1>3, <1>4, <1>8 DEF Structure, Typed
<1>10. \A s \in Readers : last /\ s # r => reader[s].it = NoItem
  BY <1>0 DEF Users, Structure, ReaderShape
<1>11. \A k \in Items : k # i => Users(k, reader') = Users(k, reader) /\ k # reg'
  BY <1>0, <1>1, <1>2, <1>3 DEF Users
<1>12. ASSUME NEW k \in Items
       PROVE  (ItemInv(item[k]) /\ ItemShape(k) /\ Active(k))'
  <2>1. CASE k # i
    <3>1. Referenced(k, reg', reader', job') = Referenced(k, reg, reader, job)
      BY <1>0, <1>2, <1>11, <2>1 DEF Referenced
    <3>2. ItemShape(k)'
      BY <1>8, <2>1, <3>1 DEF Structure, ItemShape
    <3>3. ItemInv(item'[k]) /\ Active(k)'
      BY <1>2, <1>8, <2>1 DEF Structure, Active
    <3> QED
      BY <3>2, <3>3
  <2>2. CASE k = i
    <3>1. ItemInv(item'[k]) /\ ItemShape(k)'
      BY <1>7, <1>8, <2>2 DEF ItemShape
    <3>2. Active(k)'
      <4>1. n.status \in {FIST_DLGOTHEAD, FIST_DLRECEIVING} => n = it
        BY <1>7
      <4> QED
        BY <1>0, <1>2, <1>8, <2>2, <4>1 DEF Structure, Active
    <3> QED
      BY <3>1, <3>2
  <2> QED
    BY <2>1, <2>2
<1>13. ASSUME NEW s \in Readers
       PROVE  (JobShape(job[s]) /\ ReaderShape(s) /\ Follows(s) /\ Waiting(s))'
  <2>0. /\ JobShape(job[s]) /\ ReaderShape(s) /\ Follows(s) /\ Waiting(s)
        /\ reader[s] \in ReaderType
    BY <1>0 DEF Structure
  <2>1. JobShape(job[s])'
    BY <1>2, <2>0
  <2>2. CASE s = r
    <3>1. ReaderShape(s)' /\ Follows(s)' /\ Waiting(s)'
      BY <1>1, <1>3, <2>2 DEF ReaderShape, Follows, Waiting
    <3> QED
      BY <2>1, <3>1
  <2>3. CASE s # r /\ reader[s].it = NoItem
    <3>1. ReaderShape(s)' /\ Follows(s)' /\ Waiting(s)'
      BY <1>2, <1>3, <2>0, <2>3 DEF ReaderShape, Follows, Waiting
    <3> QED
      BY <2>1, <3>1
  <2>4. CASE s # r /\ reader[s].it # NoItem
    <3>1. ~last /\ reader[s].it = i /\ n = it /\ reg' = reg /\ item' = item
      BY <1>0, <1>2, <1>7, <1>10, <2>0, <2>4 DEF ReaderShape
    <3>2. ReaderShape(s)' /\ Follows(s)' /\ Waiting(s)'
      BY <1>2, <1>3, <2>0, <2>4, <3>1 DEF ReaderShape, Follows, Waiting
    <3> QED
      BY <2>1, <3>2
  <2> QED
    BY <2>2, <2>3, <2>4
<1>14. ASSUME NEW s \in Readers, job[s].it \in Items
       PROVE  Writes(job[s], item'[job[s].it])
  <2>1. Writes(job[s], item[job[s].it])
    BY <1>14 DEF Structure
  <2>2. CASE job[s].it # i
    BY <1>8, <1>14, <2>1, <2>2
  <2>3. CASE job[s].it = i
    <3>1. ~gone
      BY <1>2, <2>3 DEF Referenced, Downloads
    <3>2. n = it \/ n = Stopped(it)
      BY <1>7, <3>1
    <3>3. CASE n = it
      BY <1>8, <2>1, <2>3, <3>3
    <3>4. CASE n = Stopped(it)
      <4>1. Writes(job[s], n)
        BY <1>0, <1>5, <2>1, <2>3, <3>4 DEF Writes, ItemType, FiStatus
      <4> QED
        BY <1>8, <2>3, <4>1
    <3> QED
      BY <3>2, <3>3, <3>4
  <2> QED
    BY <2>2, <2>3
<1>15. OneWriter' /\ HeadInv'
  BY <1>2 DEF Structure, OneWriter, HeadInv
<1>16. Grows
  BY <1>0, <1>7, <1>8 DEF Grows, ItemType
<1> QED
  BY <1>2, <1>9, <1>12, <1>13, <1>14, <1>15, <1>16 DEF Structure

\* fileitem_with_storage::Setup of a new item: nothing of the file is used,
\* or the header's length is short of the file, or the file is complete.
LEMMA AfterSetupFields ==
    ASSUME Typed, HeadInv, NEW it \in ItemType, it = FreeItem
    PROVE  LET s == AfterSetup(it) IN
           /\ s \in ItemType /\ ItemInv(s) /\ s.fd = NoInode
           /\ \/ /\ s.status = FIST_INITED /\ s.cached = -1 /\ s.checked = -1
                 /\ s.clen = -1 /\ s.replace
              \/ /\ s.status = FIST_INITED /\ s.cached = SizeOnDisk /\ s.checked = -1
                 /\ s.clen = head.len /\ s.date = head.date /\ s.vol /\ ~s.replace
              \/ /\ s.status = FIST_COMPLETE /\ s.cached = SizeOnDisk
                 /\ s.checked = SizeOnDisk /\ s.clen = SizeOnDisk /\ head.len = SizeOnDisk
                 /\ head.len >= 0 /\ s.date = head.date
<1> DEFINE s == AfterSetup(it)
<1>0. /\ head \in HeadType /\ head.len \in Int /\ head.date \in Versions \cup {NoDate}
      /\ SizeOnDisk \in Int /\ SizeOnDisk >= -1
  BY LenProperties DEF Typed, HeadType, SizeOnDisk
<1>1. /\ it.status = FIST_FRESH /\ it.cached = -1 /\ it.checked = -1 /\ it.clen = -1
      /\ it.date = NoDate /\ it.fd = NoInode
  BY FreeItemType
<1>2. ~it.good /\ ~it.vol /\ ~it.replace
  BY FreeItemFlags
<1>3. ASSUME NEW c \in ItemType, c.fd = NoInode
      PROVE  LET t == SetupClean(c) IN
             /\ t \in ItemType /\ ItemInv(t) /\ t.fd = NoInode
             /\ t.status = FIST_INITED /\ t.cached = -1 /\ t.checked = -1 /\ t.clen = -1
             /\ t.replace
  <2> DEFINE t == SetupClean(c)
             st == FIST_INITED
             u == Unknown
  <2>1. /\ st \in FiStatus /\ u \in Int
        /\ t = [c EXCEPT !.status = st, !.cached = u, !.checked = u, !.clen = u,
                         !.replace = TRUE]
    BY StatusType DEF SetupClean
  <2> HIDE DEF t, st, u
  <2>2. t \in ItemType
    BY <2>1 DEF ItemType
  <2>3. /\ t.status = st /\ t.cached = u /\ t.checked = u /\ t.clen = u /\ t.fd = c.fd
        /\ t.date = c.date
    BY <2>1 DEF ItemType
  <2>4. t.replace = TRUE
    BY <2>1 DEF ItemType
  <2>5. ItemInv(t)
    BY <1>3, <2>2, <2>3 DEF ItemInv, st, u
  <2> QED
    BY <1>3, <2>2, <2>3, <2>4, <2>5 DEF t, st, u
<1>4. CASE ~head.good
  <2>1. s = SetupClean(it)
    BY <1>1, <1>4 DEF AfterSetup
  <2>2. s \in ItemType /\ ItemInv(s) /\ s.fd = NoInode
        /\ s.status = FIST_INITED /\ s.cached = -1 /\ s.checked = -1 /\ s.clen = -1
        /\ s.replace
    BY <1>1, <1>3, <2>1
  <2> QED
    BY <2>2
<1>5. CASE head.good /\ head.len >= 0 /\ head.len < SizeOnDisk
  <2> DEFINE c == [it EXCEPT !.date = head.date, !.good = TRUE]
  <2>1. s = SetupClean(c)
    BY <1>1, <1>5 DEF AfterSetup
  <2>2. c \in ItemType /\ c.fd = NoInode
    BY <1>0, <1>1 DEF ItemType
  <2> HIDE DEF c
  <2>3. s \in ItemType /\ ItemInv(s) /\ s.fd = NoInode
        /\ s.status = FIST_INITED /\ s.cached = -1 /\ s.checked = -1 /\ s.clen = -1
        /\ s.replace
    BY <1>3, <2>1, <2>2
  <2> QED
    BY <2>3
<1>6. CASE head.good /\ ~(head.len >= 0 /\ head.len < SizeOnDisk)
  <2> DEFINE complete == SizeOnDisk = head.len /\ head.len >= 0
             st == IF complete THEN FIST_COMPLETE ELSE FIST_INITED
             sz == SizeOnDisk
             ck == IF complete THEN SizeOnDisk ELSE Unknown
             ln == head.len
             dt == head.date
             vl == ~complete
  <2>1. s = SetupLoaded(it)
    BY <1>1, <1>6 DEF AfterSetup
  <2>2. s = [it EXCEPT !.status = st, !.cached = sz, !.checked = ck, !.clen = ln,
                       !.date = dt, !.good = TRUE, !.vol = vl]
    BY <2>1 DEF SetupLoaded
  <2>3. st \in FiStatus /\ sz \in Int /\ ck \in Int /\ ln \in Int
        /\ dt \in Versions \cup {NoDate} /\ vl \in BOOLEAN
    BY <1>0, StatusType
  <2>4. /\ complete => st = FIST_COMPLETE /\ ck = sz /\ ln = sz /\ sz >= 0
        /\ ~complete => st = FIST_INITED /\ ck = -1 /\ vl
    BY <1>0
  <2>5. sz >= -1 /\ ln >= -1 /\ (dt # NoDate => ln = -1 \/ ln = Lengths[dt])
    BY <1>0 DEF HeadInv
  <2>6. sz = SizeOnDisk /\ ln = head.len /\ dt = head.date
    OBVIOUS
  <2> HIDE DEF complete, st, sz, ck, ln, dt, vl, s
  <2>7. s \in ItemType
    BY <2>2, <2>3 DEF ItemType
  <2>8. /\ s.status = st /\ s.cached = sz /\ s.checked = ck /\ s.clen = ln /\ s.date = dt
        /\ s.fd = it.fd
    BY <2>2 DEF ItemType
  <2>9. s.vol = vl /\ s.replace = it.replace
    BY <2>2, <2>3 DEF ItemType
  <2>10. ItemInv(s)
    BY <1>1, <1>2, <2>3, <2>4, <2>5, <2>8, <2>9 DEF ItemInv
  <2> QED
    BY <1>1, <1>2, <2>4, <2>6, <2>7, <2>8, <2>9, <2>10 DEF s
<1> QED
  BY <1>4, <1>5, <1>6

\* job::Prepare shares an item or sets up a new one.
LEMMA PrepareStep ==
    ASSUME Structure, NEW r \in Readers, NEW i \in Items, Prepare(r, i)
    PROVE  Structure' /\ Grows
<1> DEFINE n == AfterSetup(item[i])
           rd == [IdleReader EXCEPT !.it = i,
                    !.pc = IF n.status < FIST_DLGOTHEAD THEN "add" ELSE "await"]
<1>0. /\ item \in [Items -> ItemType] /\ job \in [Readers -> JobType]
      /\ reader \in [Readers -> ReaderType] /\ reg \in Items \cup {NoItem}
      /\ NoItem \notin Items /\ Typed /\ HeadInv /\ ItemInv(item[i]) /\ item[i] \in ItemType
  BY TransferAssumption DEF Structure, Typed
<1>1. /\ reader[r].pc = "idle" /\ job[r].pc = "none"
      /\ reg = i \/ (reg = NoItem /\ ~Referenced(i, reg, reader, job))
      /\ reg' = i /\ item' = [item EXCEPT ![i] = n]
      /\ reader' = [reader EXCEPT ![r] = rd]
      /\ UNCHANGED <<upstream, path, data, head, job, suspect>>
  BY DEF Prepare, diskvars
<1>2. reg = i => n = item[i] /\ item[i].status # FIST_FRESH
  <2> SUFFICES ASSUME reg = i PROVE n = item[i] /\ item[i].status # FIST_FRESH
    OBVIOUS
  <2>1. item[i].status # FIST_FRESH
    BY DEF Structure, ItemShape, Referenced
  <2>2. item[i].status > FIST_FRESH
    BY <1>0, <2>1 DEF ItemType, FiStatus
  <2> QED
    BY <2>1, <2>2 DEF AfterSetup
<1>3. reg # i => /\ item[i] = FreeItem /\ n \in ItemType /\ ItemInv(n)
                 /\ n.status \in {FIST_INITED, FIST_COMPLETE}
  <2> SUFFICES ASSUME reg # i
               PROVE  /\ item[i] = FreeItem /\ n \in ItemType /\ ItemInv(n)
                      /\ n.status \in {FIST_INITED, FIST_COMPLETE}
    OBVIOUS
  <2>1. item[i] = FreeItem
    BY <1>1 DEF Structure, ItemShape
  <2> QED
    BY <1>0, <2>1, AfterSetupFields
<1>4. n \in ItemType /\ ItemInv(n) /\ n.status # FIST_FRESH
  BY <1>0, <1>2, <1>3
<1>5. /\ rd \in ReaderType /\ rd.it = i /\ rd.mode = "none" /\ rd.pc \in {"add", "await"}
      /\ rd.pc = "await" => n.status >= FIST_DLGOTHEAD
      /\ rd.fd = NoInode /\ rd.got = << >> /\ rd.lim = 0
  <2> DEFINE c == IdleReader
             pc == IF n.status < FIST_DLGOTHEAD THEN "add" ELSE "await"
  <2>1. pc \in {"add", "await"} /\ rd = [c EXCEPT !.it = i, !.pc = pc]
    OBVIOUS
  <2>2. pc = "await" => n.status >= FIST_DLGOTHEAD
    BY <1>4 DEF ItemType, FiStatus
  <2>3. c \in ReaderType /\ c.mode = "none" /\ c.fd = NoInode
        /\ c.got = << >> /\ c.lim = 0
    BY IdleReaderType
  <2> HIDE DEF c, pc, rd, n
  <2> QED
    BY <2>1, <2>2, <2>3 DEF ReaderType
<1> HIDE DEF n, rd
<1>6. /\ \A s \in Readers : s # r => reader'[s] = reader[s]
      /\ reader'[r] = rd /\ reader' \in [Readers -> ReaderType]
      /\ \A k \in Items : k # i => item'[k] = item[k]
      /\ item'[i] = n /\ item' \in [Items -> ItemType]
  BY <1>0, <1>1, <1>4, <1>5
<1>7. Typed'
  BY <1>0, <1>1, <1>6 DEF Typed
<1>8. reader[r].it = NoItem
  BY <1>1 DEF Structure, ReaderShape
<1>9. \A k \in Items : k # i => Users(k, reader') = Users(k, reader) /\ k # reg /\ k # reg'
  BY <1>0, <1>1, <1>5, <1>6, <1>8 DEF Users
<1>10. reg # i => ~Referenced(i, reg, reader, job)
  BY <1>1
<1>11. ASSUME NEW k \in Items
       PROVE  (ItemInv(item[k]) /\ ItemShape(k) /\ Active(k))'
  <2>1. CASE k # i
    <3>1. Referenced(k, reg', reader', job') = Referenced(k, reg, reader, job)
      BY <1>0, <1>1, <1>9, <2>1 DEF Referenced
    <3>2. ItemShape(k)'
      BY <1>6, <2>1, <3>1 DEF Structure, ItemShape
    <3>3. ItemInv(item'[k]) /\ Active(k)'
      BY <1>1, <1>6, <2>1 DEF Structure, Active
    <3> QED
      BY <3>2, <3>3
  <2>2. CASE k = i
    <3>1. ItemInv(item'[k]) /\ ItemShape(k)'
      BY <1>1, <1>4, <1>6, <2>2 DEF ItemShape, Referenced
    <3>2. Active(k)'
      BY <1>1, <1>2, <1>3, <1>6, <2>2 DEF Structure, Active
    <3> QED
      BY <3>1, <3>2
  <2> QED
    BY <2>1, <2>2
<1>12. ASSUME NEW s \in Readers
       PROVE  (JobShape(job[s]) /\ ReaderShape(s) /\ Follows(s) /\ Waiting(s))'
  <2>0. /\ JobShape(job[s]) /\ ReaderShape(s) /\ Follows(s) /\ Waiting(s)
        /\ reader[s] \in ReaderType
    BY <1>0 DEF Structure
  <2>1. JobShape(job[s])'
    BY <1>1, <2>0
  <2>2. CASE s = r
    <3>1. ReaderShape(s)' /\ Follows(s)'
      BY <1>0, <1>1, <1>5, <1>6, <2>2 DEF ReaderShape, Follows
    <3>2. Waiting(s)'
      <4>1. Active(i)'
        BY <1>11
      <4>2. rd.pc = "await" /\ n.status < FIST_COMPLETE =>
              n.status \in {FIST_DLGOTHEAD, FIST_DLRECEIVING}
        BY <1>4, <1>5 DEF ItemType, FiStatus
      <4> QED
        BY <1>5, <1>6, <2>2, <4>1, <4>2 DEF Waiting, Active
    <3> QED
      BY <2>1, <3>1, <3>2
  <2>3. CASE s # r /\ reader[s].it = NoItem
    <3>1. ReaderShape(s)' /\ Follows(s)' /\ Waiting(s)'
      BY <1>1, <1>6, <2>0, <2>3 DEF ReaderShape, Follows, Waiting
    <3> QED
      BY <2>1, <3>1
  <2>4. CASE s # r /\ reader[s].it # NoItem
    <3>1. reg = i /\ reader[s].it = i /\ item' = item
      BY <1>0, <1>1, <1>2, <2>0, <2>4 DEF ReaderShape
    <3>2. ReaderShape(s)' /\ Follows(s)' /\ Waiting(s)'
      BY <1>1, <1>6, <2>0, <2>4, <3>1 DEF ReaderShape, Follows, Waiting
    <3> QED
      BY <2>1, <3>2
  <2> QED
    BY <2>2, <2>3, <2>4
<1>13. ASSUME NEW s \in Readers, job[s].it \in Items
       PROVE  Writes(job[s], item'[job[s].it])
  <2>1. Writes(job[s], item[job[s].it])
    BY <1>13 DEF Structure
  <2>2. job[s].it = i => reg = i
    BY <1>10 DEF Referenced, Downloads
  <2> QED
    BY <1>2, <1>6, <1>13, <2>1, <2>2
<1>14. OneWriter' /\ HeadInv'
  BY <1>1 DEF Structure, OneWriter, HeadInv
<1>15. Grows
  BY <1>0, <1>2, <1>3, <1>6, FreeItemType DEF Grows, ItemType
<1> QED
  BY <1>1, <1>7, <1>11, <1>12, <1>13, <1>14, <1>15 DEF Structure

\* CDlConn::AddJob: one more download of an item that has a user.
LEMMA AddJobStep ==
    ASSUME Structure, NEW r \in Readers, AddJob(r)
    PROVE  Structure' /\ Grows
<1> DEFINE i == reader[r].it
           j == [NoJob EXCEPT !.pc = "queued", !.it = i]
           rd == [reader[r] EXCEPT !.pc = "await"]
<1>0. /\ item \in [Items -> ItemType] /\ job \in [Readers -> JobType]
      /\ reader \in [Readers -> ReaderType] /\ reg \in Items \cup {NoItem}
      /\ NoItem \notin Items /\ Typed /\ reader[r].pc = "add"
  BY TransferAssumption DEF Structure, Typed, AddJob
<1>1. i \in Items /\ i = reg /\ job[r].pc = "none" /\ job[r] = NoJob
  BY <1>0 DEF Structure, ReaderShape, JobShape, ReaderType
<1>2. /\ j \in JobType /\ j.pc = "queued" /\ j.it = i /\ j.used = -1
      /\ j.assigned = FALSE
  <2> DEFINE c == NoJob
  <2>1. c \in JobType /\ c.used = -1 /\ c.assigned = FALSE /\ j = [c EXCEPT !.pc = "queued", !.it = i]
    BY NoJobType, NoJobFlags
  <2> HIDE DEF c, j
  <2> QED
    BY <1>1, <2>1 DEF JobType
<1>3. /\ rd \in ReaderType /\ rd.pc = "await" /\ rd.it = i /\ rd.mode = reader[r].mode
      /\ rd.ann = reader[r].ann
  BY <1>0 DEF ReaderType
<1>4. /\ job' = [job EXCEPT ![r] = j] /\ reader' = [reader EXCEPT ![r] = rd]
      /\ UNCHANGED <<upstream, path, data, head, item, reg, suspect>>
  BY DEF AddJob, diskvars
<1> HIDE DEF j, rd
<1>5. /\ \A s \in Readers : s # r => reader'[s] = reader[s] /\ job'[s] = job[s]
      /\ reader'[r] = rd /\ reader' \in [Readers -> ReaderType]
      /\ job'[r] = j /\ job' \in [Readers -> JobType]
      /\ \A s \in Readers : reader'[s].it = reader[s].it
  BY <1>0, <1>2, <1>3, <1>4
<1>6. job[r].it = NoItem /\ ~job[r].assigned
  BY <1>1, NoJobType, NoJobFlags
<1>7. /\ \A k \in Items : Users(k, reader') = Users(k, reader)
      /\ \A k \in Items : k # i => Downloads(k, job') = Downloads(k, job)
      /\ \A k \in Items : Downloads(k, job) \subseteq Downloads(k, job')
      /\ r \in Downloads(i, job')
  BY <1>0, <1>1, <1>2, <1>5, <1>6 DEF Users, Downloads
<1>8. Typed'
  BY <1>0, <1>4, <1>5 DEF Typed
<1>9. ASSUME NEW k \in Items
      PROVE  (ItemInv(item[k]) /\ ItemShape(k) /\ Active(k))'
  <2>1. Referenced(k, reg', reader', job') = Referenced(k, reg, reader, job)
    BY <1>1, <1>4, <1>7 DEF Referenced
  <2> QED
    BY <1>4, <1>7, <2>1 DEF Structure, ItemShape, Active
<1>10. ASSUME NEW s \in Readers
       PROVE  (JobShape(job[s]) /\ ReaderShape(s) /\ Follows(s) /\ Waiting(s))'
  <2>0. JobShape(job[s]) /\ ReaderShape(s) /\ Follows(s) /\ Waiting(s)
    BY DEF Structure
  <2>1. JobShape(j)
    BY <1>1, <1>2 DEF JobShape
  <2>2. JobShape(job[s])'
    BY <1>5, <2>0, <2>1
  <2>3. ReaderShape(s)'
    BY <1>0, <1>1, <1>3, <1>4, <1>5, <2>0 DEF ReaderShape
  <2>4. Follows(s)'
    <3>1. reader'[s].mode = reader[s].mode /\ reader'[s].ann = reader[s].ann
      BY <1>3, <1>5
    <3> QED
      BY <1>2, <1>4, <1>5, <2>0, <3>1 DEF Follows
  <2>5. Waiting(s)'
    <3>1. CASE s = r
      BY <1>1, <1>3, <1>5, <1>7, <3>1 DEF Waiting
    <3>2. CASE s # r
      <4>1. reader[s].pc \in {"await", "send", "sendfile", "chunk", "chunkdata"} => reader[s].it \in Items
        BY <1>0, <2>0 DEF ReaderShape, ReaderType
      <4> QED
        BY <1>4, <1>5, <1>7, <2>0, <3>2, <4>1 DEF Waiting
    <3> QED
      BY <3>1, <3>2
  <2> QED
    BY <2>2, <2>3, <2>4, <2>5
<1>11. ASSUME NEW s \in Readers, job'[s].it \in Items
       PROVE  Writes(job'[s], item[job'[s].it])
  <2>1. CASE s = r
    BY <1>2, <1>5, <2>1 DEF Writes
  <2>2. CASE s # r
    BY <1>5, <1>11, <2>2 DEF Structure
  <2> QED
    BY <2>1, <2>2
<1>12. OneWriter'
  BY <1>2, <1>5 DEF Structure, OneWriter
<1>13. HeadInv' /\ Grows
  BY <1>0, <1>4 DEF Structure, HeadInv, Grows, ItemType
<1> QED
  BY <1>4, <1>8, <1>9, <1>10, <1>11, <1>12, <1>13 DEF Structure

\* KillLastFile: a complete item is in error, its job is not its writer any more.
LEMMA MarkFaultyStep ==
    ASSUME Structure, NEW i \in Items, MarkFaulty(i)
    PROVE  Structure' /\ Grows
<1> DEFINE it == item[i]
           e == DlSetError(it)
<1>0. /\ item \in [Items -> ItemType] /\ it \in ItemType /\ ItemInv(it)
      /\ it.status = FIST_COMPLETE /\ Typed
      /\ item' = [item EXCEPT ![i] = e]
      /\ UNCHANGED <<upstream, path, data, head, reg, reader, job, suspect>>
  BY DEF Structure, Typed, MarkFaulty, diskvars
<1>1. /\ e \in ItemType /\ e.status = FIST_DLERROR /\ e.checked = it.checked
      /\ e.clen = it.clen /\ e.date = it.date /\ e.fd = it.fd /\ ItemInv(e)
  BY <1>0, DlSetErrorFields
<1> HIDE DEF e
<1>2. /\ \A k \in Items : k # i => item'[k] = item[k]
      /\ item'[i] = e /\ item' \in [Items -> ItemType]
  BY <1>0, <1>1
<1>3. Typed'
  BY <1>0, <1>2 DEF Typed
<1>4. ASSUME NEW k \in Items
      PROVE  (ItemInv(item[k]) /\ ItemShape(k) /\ Active(k))'
  <2>1. it # FreeItem
    BY <1>0, FreeItemType
  <2>2. Referenced(k, reg', reader', job') = Referenced(k, reg, reader, job)
    BY <1>0
  <2>3. CASE k # i
    BY <1>0, <1>2, <2>2, <2>3 DEF Structure, ItemShape, Active
  <2>4. CASE k = i
    BY <1>0, <1>1, <1>2, <2>1, <2>2, <2>4 DEF Structure, ItemShape, Active
  <2> QED
    BY <2>3, <2>4
<1>5. ASSUME NEW s \in Readers
      PROVE  (JobShape(job[s]) /\ ReaderShape(s) /\ Follows(s) /\ Waiting(s))'
  <2>0. JobShape(job[s]) /\ ReaderShape(s) /\ Follows(s) /\ Waiting(s) /\ reader[s] \in ReaderType
    BY DEF Structure, Typed
  <2>1. reader[s].it \in Items \/ reader[s].it = NoItem
    BY <2>0 DEF ReaderType
  <2>2. (JobShape(job[s]) /\ ReaderShape(s))'
    BY <1>0, <2>0 DEF ReaderShape
  <2>3. Follows(s)' /\ Waiting(s)'
    <3>1. CASE reader[s].it = i
      BY <1>0, <1>1, <1>2, <2>0, <3>1 DEF Follows, Waiting
    <3>2. CASE reader[s].it \in Items /\ reader[s].it # i
      BY <1>0, <1>2, <2>0, <3>2 DEF Follows, Waiting
    <3>3. CASE reader[s].it = NoItem
      BY <1>0, <2>0, <3>3 DEF Follows, Waiting, ReaderShape
    <3> QED
      BY <2>1, <3>1, <3>2, <3>3
  <2> QED
    BY <2>2, <2>3
<1>6. ASSUME NEW s \in Readers, job[s].it \in Items
      PROVE  Writes(job[s], item'[job[s].it])
  <2>1. Writes(job[s], item[job[s].it])
    BY <1>6 DEF Structure
  <2>2. CASE job[s].it = i
    BY <1>0, <1>1, <1>2, <2>1, <2>2 DEF Writes
  <2>3. CASE job[s].it # i
    BY <1>2, <1>6, <2>1, <2>3
  <2> QED
    BY <2>2, <2>3
<1>7. OneWriter' /\ HeadInv'
  BY <1>0 DEF Structure, OneWriter, HeadInv
<1>8. Grows
  BY <1>0, <1>1, <1>2 DEF Grows, ItemType
<1> QED
  BY <1>0, <1>3, <1>4, <1>5, <1>6, <1>7, <1>8 DEF Structure

\* The program is started again: nothing but the disk is left.
LEMMA CrashStep ==
    ASSUME Structure, Crash
    PROVE  Structure' /\ Grows
<1> USE TransferAssumption
<1>0. /\ item' = [i \in Items |-> FreeItem] /\ reg' = NoItem
      /\ reader' = [r \in Readers |-> IdleReader] /\ job' = [r \in Readers |-> NoJob]
      /\ UNCHANGED <<upstream, path, head, suspect>>
      /\ data' = [n \in Inodes |-> IF n = path THEN data[n] ELSE << >>]
  BY DEF Crash
<1>1. Typed'
  <2>1. data' \in [Inodes -> Seq(Versions)]
    BY <1>0 DEF Structure, Typed
  <2> QED
    BY <1>0, <2>1, FreeItemType, IdleReaderType, NoJobType DEF Structure, Typed
<1>2. \A i \in Items : (ItemInv(item[i]) /\ ItemShape(i) /\ Active(i))'
  BY <1>0, FreeItemType, FreeItemInv, IdleReaderType, NoJobType
  DEF ItemShape, Active, Referenced, Users, Downloads
<1>3. \A r \in Readers : (JobShape(job[r]) /\ ReaderShape(r) /\ Follows(r) /\ Waiting(r))'
  BY <1>0, NoJobShape, IdleReaderType, NoJobType DEF ReaderShape, Follows, Waiting
<1>4. \A r \in Readers : job'[r].it \notin Items
  BY <1>0, NoJobType
<1>5. OneWriter'
  BY <1>0, NoJobFlags DEF OneWriter
<1>6. HeadInv' /\ Grows
  BY <1>0, FreeItemType DEF Structure, HeadInv, Grows
<1> QED
  BY <1>1, <1>2, <1>3, <1>4, <1>5, <1>6 DEF Structure

\* Nothing of the structure is about the version that the server has.
LEMMA QuietStep ==
    ASSUME Structure, UNCHANGED <<path, data, head, item, reg, reader, job, suspect>>,
           upstream' \in Versions
    PROVE  Structure' /\ Grows
<1>1. Typed'
  BY DEF Structure, Typed
<1>2. HeadInv' /\ OneWriter'
  BY DEF Structure, HeadInv, OneWriter
<1>3. \A i \in Items : (ItemInv(item[i]) /\ ItemShape(i) /\ Active(i))'
  BY DEF Structure, ItemShape, Active
<1>4. \A r \in Readers : (JobShape(job[r]) /\ ReaderShape(r) /\ Follows(r) /\ Waiting(r))'
  BY DEF Structure, ReaderShape, Follows, Waiting
<1>5. \A r \in Readers : (job[r].it \in Items => Writes(job[r], item[job[r].it]))'
  BY DEF Structure
<1>6. Grows
  BY DEF Grows, Structure, Typed, ItemType
<1> QED
  BY <1>1, <1>2, <1>3, <1>4, <1>5, <1>6 DEF Structure

\* Every step preserves the structure, and no checked size shrinks.
LEMMA StructureNext == Structure /\ [Next]_vars => Structure' /\ Grows
<1> SUFFICES ASSUME Structure, [Next]_vars PROVE Structure' /\ Grows
  OBVIOUS
<1>1. CASE UNCHANGED vars
  <2>1. upstream \in Versions
    BY DEF Structure, Typed
  <2> QED
    BY <1>1, <2>1, QuietStep DEF vars, diskvars
<1>2. ASSUME NEW r \in Readers, NEW i \in Items, Prepare(r, i) PROVE Structure' /\ Grows
  BY <1>2, PrepareStep
<1>3. ASSUME NEW r \in Readers, AddJob(r) PROVE Structure' /\ Grows
  BY <1>3, AddJobStep
<1>4. ASSUME NEW r \in Readers,
             \/ AddJobFail(r) \/ AwaitError(r) \/ CookResponseHeader(r) \/ SendCheck(r)
             \/ SendFile(r) \/ ChunkEnd(r) \/ ChunkHeader(r) \/ ChunkData(r)
      PROVE  Structure' /\ Grows
  <2>1. ReaderMoves(r, reader'[r]) /\ Structure'
    BY <1>4, ReaderActions
  <2>2. item' = item
    BY <2>1 DEF ReaderMoves
  <2>3. Grows
    BY <2>2 DEF Grows, Structure, Typed, ItemType
  <2> QED
    BY <2>1, <2>3
<1>5. ASSUME NEW r \in Readers,
             AppendRequest(r) \/ HeaderBusy(r) \/ AddDataStopped(r) \/ Requeue(r)
      PROVE  Structure' /\ Grows
  BY <1>5, QuietJobSteps
<1>6. ASSUME NEW r \in Readers, NEW chunked \in BOOLEAN, Header200(r, chunked)
      PROVE  Structure' /\ Grows
  BY <1>6, Header200Step
<1>7. ASSUME NEW r \in Readers, Header206(r) PROVE Structure' /\ Grows
  BY <1>7, Header206Step
<1>8. ASSUME NEW r \in Readers,
             Header206Unexpected(r) \/ Header416(r) \/ HeaderErrorResuming(r)
      PROVE  Structure' /\ Grows
  <2>1. job[r].pc = "sent" /\ ~Busy(job[r], item[job[r].it]) /\ HeaderFails(r)
    BY <1>8 DEF Header206Unexpected, Header416, HeaderErrorResuming
  <2> QED
    BY <2>1, HeaderFailsStep
<1>9. ASSUME NEW r \in Readers, Header416Restart(r) PROVE Structure' /\ Grows
  BY <1>9, Header416RestartStep
<1>10. ASSUME NEW r \in Readers, HeaderError(r) PROVE Structure' /\ Grows
  BY <1>10, HeaderErrorStep
<1>11. ASSUME NEW r \in Readers, HeaderProbe(r) PROVE Structure' /\ Grows
  BY <1>11, HeaderProbeStep
<1>12. ASSUME NEW r \in Readers, NEW n \in Inodes, OpenNew(r, n) PROVE Structure' /\ Grows
  BY <1>12, OpenNewStep
<1>13. ASSUME NEW r \in Readers, OpenInPlace(r) PROVE Structure' /\ Grows
  BY <1>13, OpenInPlaceStep
<1>14. ASSUME NEW r \in Readers, OpenError(r) PROVE Structure' /\ Grows
  BY <1>14, OpenErrorStep
<1>15. ASSUME NEW r \in Readers, WriteError(r) PROVE Structure' /\ Grows
  BY <1>15, WriteErrorStep
<1>16. ASSUME NEW r \in Readers, AddData(r) PROVE Structure' /\ Grows
  BY <1>16, AddDataStep
<1>25. ASSUME NEW r \in Readers, NEW n \in Inodes, FirstWriteFails(r, n)
       PROVE  Structure' /\ Grows
  BY <1>25, FirstWriteFailsStep
<1>26. ASSUME NEW r \in Readers, NEW n \in Inodes, FirstWriteInterrupted(r, n)
       PROVE  Structure' /\ Grows
  BY <1>26, FirstWriteInterruptedStep
<1>27. ASSUME NEW r \in Readers, AddDataInterrupted(r) PROVE Structure' /\ Grows
  BY <1>27, AddDataInterruptedStep
<1>17. ASSUME NEW r \in Readers, FinishJob(r) PROVE Structure' /\ Grows
  BY <1>17, FinishJobStep
<1>18. ASSUME NEW r \in Readers, JobDies(r) PROVE Structure' /\ Grows
  BY <1>18, JobDiesStep
<1>19. ASSUME NEW r \in Readers, Disconnect(r) PROVE Structure' /\ Grows
  <2>1. Leave(r, TRUE) /\ reader[r].pc \notin {"idle", "closing"}
    BY <1>19 DEF Disconnect
  <2> QED
    BY <2>1, LeaveStep
<1>20. ASSUME NEW r \in Readers, StreamOk(r) PROVE Structure' /\ Grows
  <2>1. PICK closed \in BOOLEAN : Leave(r, closed)
    BY <1>20 DEF StreamOk
  <2>2. reader[r].pc \notin {"idle", "closing"}
    BY <1>20 DEF StreamOk
  <2> QED
    BY <2>1, <2>2, LeaveStep
<1>21. ASSUME NEW r \in Readers, Close(r) PROVE Structure' /\ Grows
  BY <1>21, CloseStep
<1>22. ASSUME NEW i \in Items, MarkFaulty(i) PROVE Structure' /\ Grows
  BY <1>22, MarkFaultyStep
<1>23. CASE UpstreamChange
  <2>1. upstream' \in Versions
    BY <1>23, TransferAssumption DEF UpstreamChange, Structure, Typed, Versions
  <2> QED
    BY <1>23, <2>1, QuietStep DEF UpstreamChange
<1>24. CASE Crash
  BY <1>24, CrashStep
<1> QED
  BY <1>1, <1>2, <1>3, <1>4, <1>5, <1>6, <1>7, <1>8, <1>9, <1>10, <1>11, <1>12, <1>13,
     <1>14, <1>15, <1>16, <1>17, <1>18, <1>19, <1>20, <1>21, <1>22, <1>23, <1>24, <1>25,
     <1>26, <1>27 DEF Next

\* The state is well formed and the inductive invariant's structure holds
\* whatever the jobs, the readers and the server do, for any number of them.
THEOREM StructureHolds == Spec => []Structure
<1>1. Init => Structure
  BY StructureInit
<1>2. Structure /\ [Next]_vars => Structure'
  BY StructureNext
<1> QED
  BY <1>1, <1>2, PTL DEF Spec

\* Only an interrupted write puts a file ahead of its item, and that is
\* remembered.
LEMMA AheadNext == Structure /\ AheadInv /\ [Next]_vars => AheadInv'
<1> SUFFICES ASSUME Structure, AheadInv, [Next]_vars PROVE AheadInv'
  OBVIOUS
<1>1. ASSUME ahead' \subseteq ahead, suspect => suspect' PROVE AheadInv'
  BY <1>1 DEF AheadInv
<1>2. CASE UNCHANGED vars
  BY <1>1, <1>2 DEF vars
<1>3. ASSUME NEW r \in Readers, NEW i \in Items, Prepare(r, i) PROVE AheadInv'
  BY <1>1, <1>3 DEF Prepare
<1>4. ASSUME NEW r \in Readers,
             \/ AddJob(r) \/ AddJobFail(r) \/ AppendRequest(r) \/ HeaderBusy(r)
             \/ AddData(r) \/ AddDataStopped(r) \/ Requeue(r)
      PROVE  AheadInv'
  BY <1>1, <1>4 DEF AddJob, AddJobFail, AppendRequest, HeaderBusy, AddData, AddDataStopped, Requeue
<1>5. ASSUME NEW r \in Readers,
             \/ AwaitError(r) \/ CookResponseHeader(r) \/ SendCheck(r) \/ SendFile(r)
             \/ ChunkEnd(r) \/ ChunkHeader(r) \/ ChunkData(r)
      PROVE  AheadInv'
  BY <1>1, <1>5 DEF AwaitError, CookResponseHeader, SendCheck, SendFile, ChunkEnd, ChunkHeader,
                    ChunkData
<1>6. ASSUME NEW r \in Readers, NEW chunked \in BOOLEAN, Header200(r, chunked) PROVE AheadInv'
  BY <1>1, <1>6 DEF Header200
<1>7. ASSUME NEW r \in Readers,
             \/ Header206(r) \/ Header206Unexpected(r) \/ Header416(r) \/ Header416Restart(r)
             \/ HeaderErrorResuming(r) \/ HeaderError(r) \/ HeaderProbe(r)
      PROVE  AheadInv'
  BY <1>1, <1>7 DEF Header206, Header206Unexpected, Header416, Header416Restart,
                    HeaderErrorResuming, HeaderFails, HeaderError, HeaderProbe
<1>8. ASSUME NEW r \in Readers, NEW n \in Inodes, OpenNew(r, n) \/ FirstWriteFails(r, n)
      PROVE  AheadInv'
  BY <1>1, <1>8 DEF OpenNew, FirstWriteFails
<1>9. ASSUME NEW r \in Readers, OpenInPlace(r) \/ OpenError(r) \/ WriteError(r)
      PROVE  AheadInv'
  BY <1>1, <1>9 DEF OpenInPlace, OpenError, WriteError
<1>10. ASSUME NEW r \in Readers, NEW n \in Inodes, FirstWriteInterrupted(r, n) PROVE AheadInv'
  <2>1. job[r].it \in Items
    BY <1>10, JobContext DEF FirstWriteInterrupted, OpensFile, Receiving
  <2> QED
    BY <1>10, <2>1 DEF FirstWriteInterrupted, AheadInv
<1>11. ASSUME NEW r \in Readers, AddDataInterrupted(r) PROVE AheadInv'
  <2>1. job[r].it \in Items
    BY <1>11, JobContext DEF AddDataInterrupted, Adding, Receiving
  <2> QED
    BY <1>11, <2>1 DEF AddDataInterrupted, AheadInv
<1>12. ASSUME NEW r \in Readers, FinishJob(r) \/ JobDies(r) \/ Close(r) PROVE AheadInv'
  BY <1>1, <1>12 DEF FinishJob, JobDies, Close, StillOpen
<1>13. ASSUME NEW r \in Readers, Disconnect(r) \/ StreamOk(r) PROVE AheadInv'
  <2>1. PICK closed \in BOOLEAN : Leave(r, closed)
    BY <1>13 DEF Disconnect, StreamOk
  <2> QED
    BY <1>1, <2>1 DEF Leave, StillOpen
<1>14. ASSUME NEW i \in Items, MarkFaulty(i) PROVE AheadInv'
  BY <1>1, <1>14 DEF MarkFaulty
<1>15. CASE UpstreamChange \/ Crash
  BY <1>1, <1>15 DEF UpstreamChange, Crash
<1> QED
  BY <1>2, <1>3, <1>4, <1>5, <1>6, <1>7, <1>8, <1>9, <1>10, <1>11, <1>12, <1>13, <1>14, <1>15
  DEF Next

\* While no write was interrupted, DlAddData writes at the checked size.
THEOREM AheadHolds == Spec => []AheadInv
<1>1. Init => AheadInv
  BY DEF Init, AheadInv
<1>2. Structure /\ AheadInv /\ [Next]_vars => AheadInv'
  BY AheadNext
<1> QED
  BY <1>1, <1>2, StructureHolds, PTL DEF Spec

\* Each variable keeps its type: no step leaves a status, a size, a date or
\* a file handle that fileitem.cc, dlcon.cc or job.cc could not hold.
THEOREM TypeCorrect == Spec => []TypeOK
<1>1. Structure /\ AheadInv => TypeOK
  BY DEF Structure, Typed, AheadInv, TypeOK
<1> QED
  BY <1>1, StructureHolds, AheadHolds, PTL

\* CheckAndSaveHeader lets one job at most become an item's writer.
THEOREM OneWriterHolds == Spec => []OneWriter
<1>1. Structure => OneWriter
  BY DEF Structure
<1> QED
  BY <1>1, StructureHolds, PTL

\* A client never waits for an item that no downloader works on any more.
THEOREM WaitingHasDownloaderHolds == Spec => []WaitingHasDownloader
<1>1. Structure => WaitingHasDownloader
  BY DEF Structure, Waiting, WaitingHasDownloader
<1> QED
  BY <1>1, StructureHolds, PTL

\* The Content-Length that CookResponseHeader announced stays the item's.
THEOREM AnnouncedLengthStaysHolds == Spec => []AnnouncedLengthStays
<1>1. Structure => AnnouncedLengthStays
  BY DEF Structure, Follows, AnnouncedLengthStays
<1> QED
  BY <1>1, StructureHolds, PTL

\* m_nSizeChecked never goes back while an item lives.
THEOREM SizeCheckedGrowsHolds == Spec => SizeCheckedGrows
<1>1. Structure /\ [Next]_vars =>
        [\A i \in Items :
           /\ item[i].status # FIST_FRESH
           /\ item'[i].status # FIST_FRESH /\ item'[i].status <= FIST_COMPLETE
           => item'[i].checked >= item[i].checked]_vars
  BY StructureNext DEF Grows
<1> QED
  BY <1>1, StructureHolds, PTL DEF Spec, SizeCheckedGrows

-----------------------------------------------------------------------------
(* The inductive invariant: content.  It holds as long as none of the ways *)
(* to damage a file was taken.                                             *)

\* The content of the data file in the cache directory.
File == IF path = NoInode THEN << >> ELSE data[path]

OneVersion(f, v) == \A k \in 1..Len(f) : f[k] = v

\* An item that is not registered any more is not written any more.
Detached ==
    \A i \in Items : i # reg /\ Referenced(i, reg, reader, job) => item[i].status >= FIST_COMPLETE

\* The .head file tells the version of the data file.
DiskContent(f, h) ==
    /\ h.date # NoDate => OneVersion(f, h.date)
    /\ h.len >= 0 => h.date # NoDate

\* A file that nobody has open was not written yet.
NewFilesEmpty == \A n \in Inodes : n \notin OpenFiles => data[n] = << >>

\* What an item in use knows of the data file f at p: what is checked is of
\* the item's version, and so is what a download may be resumed after.
ItemContent(it, p, f, h) ==
    /\ it.clen >= 0 => it.date # NoDate
    /\ it.status \in {FIST_DLGOTHEAD, FIST_DLRECEIVING} => it.checked >= 0
    /\ it.checked > 0 =>
         /\ it.date # NoDate /\ it.checked <= Lengths[it.date] /\ it.checked <= Len(f)
         /\ \A k \in 1..it.checked : f[k] = it.date
    /\ it.status < FIST_DLGOTHEAD /\ ~it.replace =>
         /\ it.cached >= 0 => it.cached = Len(f)
         /\ it.date # NoDate => OneVersion(f, it.date)
    /\ it.fd # NoInode /\ it.status <= FIST_COMPLETE =>
         it.fd = p /\ OneVersion(f, it.date) /\ h.date \in {NoDate, it.date}
    /\ it.status \in {FIST_DLGOTHEAD, FIST_DLRECEIVING} /\ it.checked > 0 /\ it.fd = NoInode =>
         ~it.replace /\ it.clen = Lengths[it.date] /\ Len(f) <= it.clen /\ OneVersion(f, it.date)

\* A request for the rest of a file was made for what the file still is.
JobContent(j, it, f) ==
    j.pc = "sent" /\ it.status < FIST_DLGOTHEAD /\ j.used > 0 =>
      /\ it.date # NoDate /\ j.ifRange = it.date
      /\ j.used <= Len(f) /\ OneVersion(f, it.date)
      /\ ~it.replace => j.used = UsedRangeStartPos(it)
      /\ it.replace => j.used >= Lengths[it.date]

\* What a reader has sent is of its item's version and was checked before.
ReaderContent(rd, it, p) ==
    /\ rd.fd # NoInode => rd.fd = p /\ it.checked > 0
    /\ rd.got # << >> => Len(rd.got) <= it.checked
    /\ rd.lim > 0 => rd.lim <= it.checked
    /\ OneVersion(rd.got, it.date)
    /\ rd.pc \in {"sendfile", "chunkdata"} => rd.lim > Len(rd.got)
    /\ rd.mode = "none" => rd.got = << >> /\ rd.fd = NoInode
    /\ rd.pc \in {"add", "await"} => rd.mode = "none"
    /\ rd.pc \in {"send", "sendfile"} => rd.mode = "plain"
    /\ rd.pc = "ok" => rd.mode # "none"
    /\ rd.mode = "chunked" /\ rd.pc = "ok" => it.date # NoDate /\ Len(rd.got) = Lengths[it.date]

Content ==
    ~suspect =>
      /\ Detached
      /\ DiskContent(File, head)
      /\ NewFilesEmpty
      /\ reg # NoItem => ItemContent(item[reg], path, File, head)
      /\ \A r \in Readers :
           job[r].it = reg /\ reg # NoItem => JobContent(job[r], item[reg], File)
      /\ \A r \in Readers :
           IF reader[r].it = NoItem THEN reader[r].got = << >> /\ reader[r].fd = NoInode
           ELSE ReaderContent(reader[r], item[reg], path)

\* The data file, and that steps which leave it alone keep it.
LEMMA FileType ==
    ASSUME Typed
    PROVE  /\ File \in Seq(Versions) /\ Len(File) \in Nat
           /\ path # NoInode => path \in Inodes /\ File = data[path] /\ SizeOnDisk = Len(File)
           /\ Len(File) > 0 => path # NoInode
           /\ \A k \in 1..Len(File) : File[k] \in Versions
<1>1. File \in Seq(Versions)
  BY DEF Typed, File
<1>2. Len(File) \in Nat /\ \A k \in 1..Len(File) : File[k] \in Versions
  BY <1>1, LenProperties, ElementOfSeq
<1>3. path # NoInode => path \in Inodes /\ File = data[path] /\ SizeOnDisk = Len(File)
  BY DEF Typed, File, SizeOnDisk
<1>4. path = NoInode => Len(File) = 0
  BY DEF File
<1> QED
  BY <1>1, <1>2, <1>3, <1>4

\* The data file stays if path and content do.
LEMMA FileKept ==
    ASSUME path' = path, path # NoInode => data'[path] = data[path]
    PROVE  File' = File
BY DEF File

\* The data file is always reachable; what is not is empty.
LEMMA FileReachable ==
    ASSUME Typed, path' = path, data' = Reachable
    PROVE  File' = File /\ NewFilesEmpty'
<1>1. /\ \A n \in Inodes : n \in OpenFiles' => data'[n] = data[n]
      /\ \A n \in Inodes : n \notin OpenFiles' => data'[n] = << >>
  BY ReachableContent
<1>2. path \in OpenFiles'
  BY DEF OpenFiles
<1>3. path # NoInode => data'[path] = data[path]
  BY <1>1, <1>2 DEF Typed
<1>4. NewFilesEmpty'
  BY <1>1 DEF NewFilesEmpty
<1> QED
  BY <1>3, <1>4, FileKept

\* The empty sequence is the one of length zero.
LEMMA LenOfEmpty == ASSUME NEW s \in Seq(Versions) PROVE Len(s) \in Nat /\ (Len(s) = 0 <=> s = << >>)
BY EmptySeq, LenProperties

\* A reader keeps up with an item that grows.
LEMMA ReaderContentKept ==
    ASSUME NEW rd \in ReaderType, NEW it \in ItemType, NEW n \in ItemType, NEW p, NEW q,
           ReaderContent(rd, it, p), n.checked >= it.checked,
           it.checked > 0 => n.date = it.date /\ q = p
    PROVE  ReaderContent(rd, n, q)
<1>1. /\ rd.got \in Seq(Versions) /\ Len(rd.got) \in Nat /\ (Len(rd.got) = 0 <=> rd.got = << >>)
      /\ it.checked \in Int /\ n.checked \in Int /\ rd.lim \in Nat
      /\ it.date \in Versions \cup {NoDate}
  BY LenOfEmpty DEF ReaderType, ItemType
<1>2. rd.got # << >> => it.checked > 0
  BY <1>1 DEF ReaderContent
<1>3. it.date # NoDate => Lengths[it.date] \in Nat /\ Lengths[it.date] > 0
  BY <1>1, LengthsType
<1>4. OneVersion(rd.got, n.date)
  BY <1>1, <1>2 DEF ReaderContent, OneVersion
<1>5. rd.mode = "chunked" /\ rd.pc = "ok" => n.date # NoDate /\ Len(rd.got) = Lengths[n.date]
  BY <1>1, <1>2, <1>3 DEF ReaderContent
<1>6. rd.fd # NoInode => rd.fd = q /\ n.checked > 0
  BY <1>1 DEF ReaderContent
<1> QED
  BY <1>1, <1>4, <1>5, <1>6 DEF ReaderContent

\* A step of the registered item's job.
LEMMA RegMovesContent ==
    ASSUME Structure, Content, ~suspect, NEW r \in Readers, NEW j, NEW n, JobMoves(r, j, n),
           job[r].it = reg, n.checked >= item[reg].checked,
           item[reg].checked > 0 => n.date = item[reg].date /\ path' = path,
           DiskContent(File', head'), NewFilesEmpty', ItemContent(n, path', File', head'),
           \A s \in Readers : s # r /\ job[s].it = reg => JobContent(job[s], n, File'),
           JobContent(j, n, File')
    PROVE  Content'
<1>0. /\ item \in [Items -> ItemType] /\ job \in [Readers -> JobType]
      /\ reader \in [Readers -> ReaderType] /\ reg \in Items /\ NoItem \notin Items
      /\ n \in ItemType /\ j \in JobType
  BY TransferAssumption DEF Structure, Typed, JobMoves
<1>1. /\ reg' = reg /\ reader' = reader /\ item'[reg] = n
      /\ \A k \in Items : k # reg => item'[k] = item[k]
      /\ job'[r] = j /\ j.it = reg /\ \A s \in Readers : s # r => job'[s] = job[s]
  BY <1>0 DEF JobMoves
<1>2. \A k \in Items : Downloads(k, job') = Downloads(k, job)
  BY <1>1 DEF Downloads
<1>3. Detached'
  BY <1>0, <1>1, <1>2 DEF Content, Detached, Referenced
<1>4. \A s \in Readers : job'[s].it = reg' /\ reg' # NoItem => JobContent(job'[s], item'[reg'], File')
  BY <1>1
<1>5. ASSUME NEW s \in Readers
      PROVE  IF reader'[s].it = NoItem THEN reader'[s].got = << >> /\ reader'[s].fd = NoInode
             ELSE ReaderContent(reader'[s], item'[reg'], path')
  <2>1. CASE reader[s].it = NoItem
    BY <1>1, <2>1 DEF Content
  <2>2. CASE reader[s].it # NoItem
    <3>1. ReaderContent(reader[s], item[reg], path) /\ reader[s] \in ReaderType /\ item[reg] \in ItemType
      BY <1>0, <2>2 DEF Content
    <3>2. ReaderContent(reader[s], n, path')
      BY <1>0, <3>1, ReaderContentKept
    <3> QED
      BY <1>1, <2>2, <3>2
  <2> QED
    BY <2>1, <2>2
<1> QED
  BY <1>1, <1>3, <1>4, <1>5 DEF Content

\* While nothing is damaged only the registered item is downloaded.
LEMMA WriterIsRegistered ==
    ASSUME Structure, Content, ~suspect, NEW r \in Readers, job[r].pc # "none",
           item[job[r].it].status < FIST_COMPLETE
    PROVE  /\ job[r].it = reg /\ reg \in Items
           /\ ItemContent(item[reg], path, File, head)
           /\ JobContent(job[r], item[reg], File)
<1>1. job[r].it \in Items /\ item[job[r].it] \in ItemType
  BY JobContext
<1>2. Referenced(job[r].it, reg, reader, job)
  BY DEF Referenced, Downloads
<1>3. job[r].it = reg
  BY <1>1, <1>2 DEF Content, Detached, ItemType, FiStatus
<1> QED
  BY <1>1, <1>3, TransferAssumption DEF Content

-----------------------------------------------------------------------------
(* The steps of jobs preserve the content *)

\* A step of a job that leaves the files and their handles alone.
LEMMA SameFiles ==
    ASSUME path' = path, data' = data, reader' = reader, item \in [Items -> ItemType],
           NEW i \in Items, NEW n, item' = [item EXCEPT ![i] = n], n.fd = item[i].fd
    PROVE  File' = File /\ (NewFilesEmpty => NewFilesEmpty')
<1>1. \A k \in Items : item'[k].fd = item[k].fd
  OBVIOUS
<1>2. {item'[k].fd : k \in Items} = {item[k].fd : k \in Items}
  BY <1>1
<1>3. OpenFiles' = OpenFiles
  BY <1>2 DEF OpenFiles
<1> QED
  BY <1>3, FileKept DEF NewFilesEmpty

\* The steps of a job that leave its item alone; a request is for the file as
\* it is.
LEMMA QuietJobContent ==
    ASSUME Structure, Content, NEW r \in Readers, ~suspect',
           AppendRequest(r) \/ HeaderBusy(r) \/ AddDataStopped(r) \/ Requeue(r)
    PROVE  Content'
<1> DEFINE i == job[r].it
           it == item[i]
<1>0. job[r].pc \in {"queued", "sent", "body"}
  BY DEF AppendRequest, HeaderBusy, AddDataStopped, Requeue, Receiving
<1>1. /\ job[r] \in JobType /\ i \in Items /\ it \in ItemType /\ ItemInv(it)
      /\ job \in [Readers -> JobType] /\ item \in [Items -> ItemType] /\ Typed
  BY <1>0, JobContext DEF Structure
<1>2. UNCHANGED <<upstream, path, data, head, item, reg, reader, suspect>>
  BY DEF AppendRequest, HeaderBusy, AddDataStopped, Requeue, diskvars
<1>3. JobMoves(r, job'[r], it)
  BY QuietJobSteps
<1>4. item' = [item EXCEPT ![i] = it]
  BY <1>1, <1>2
<1>5. ~suspect /\ File' = File
  BY <1>2, FileKept
<1>6. OpenFiles' = OpenFiles /\ NewFilesEmpty'
  BY <1>2, <1>5 DEF OpenFiles, NewFilesEmpty, Content
<1>7. /\ \A s \in Readers : s # r => job'[s] = job[s]
      /\ \A s \in Readers : job'[s].it = job[s].it
  BY <1>1, <1>3 DEF JobMoves
<1>8. i = reg => JobContent(job'[r], it, File)
  <2> SUFFICES ASSUME i = reg PROVE JobContent(job'[r], it, File)
    OBVIOUS
  <2>1. CASE AppendRequest(r)
    <3> DEFINE u == UsedRangeStartPos(it)
               d == it.date
    <3>1. job'[r].used = u /\ job'[r].ifRange = d
      BY <1>1, <2>1 DEF AppendRequest, JobType
    <3>2. ItemContent(it, path, File, head)
      BY <1>1, <1>5, TransferAssumption DEF Content
    <3>3. ASSUME it.status < FIST_DLGOTHEAD, u > 0
          PROVE  /\ it.date # NoDate /\ u <= Len(File) /\ OneVersion(File, it.date)
                 /\ ~it.replace
      <4>1. it.checked = -1
        BY <1>1, <3>3 DEF ItemInv
      <4>2. /\ it.cached > 0 /\ u <= it.cached
            /\ ~(it.vol /\ it.date = NoDate)
        BY <1>1, <3>3, <4>1 DEF UsedRangeStartPos, ItemType
      <4>3. it.vol /\ ~it.replace
        BY <1>1, <3>3, <4>2 DEF ItemInv
      <4>4. it.cached = Len(File) /\ (it.date # NoDate => OneVersion(File, it.date))
        BY <1>1, <3>2, <3>3, <4>2, <4>3 DEF ItemContent, ItemType
      <4> QED
        BY <4>2, <4>3, <4>4
    <3> QED
      BY <3>1, <3>3 DEF JobContent
  <2>2. CASE HeaderBusy(r) \/ AddDataStopped(r) \/ Requeue(r)
    <3>1. job'[r] = Unplugged(job[r], "broken") \/ job'[r] = Unplugged(job[r], "queued")
      BY <1>1, <2>2 DEF HeaderBusy, AddDataStopped, Requeue
    <3>2. job'[r].pc # "sent"
      BY <1>1, <3>1, UnpluggedFields
    <3> QED
      BY <3>2 DEF JobContent
  <2> QED
    BY <2>1, <2>2
<1>9. Detached'
  <2>1. \A k \in Items : Downloads(k, job') = Downloads(k, job)
    BY <1>7 DEF Downloads
  <2> QED
    BY <1>2, <1>5, <2>1 DEF Content, Detached, Referenced
<1>10. \A s \in Readers :
         job'[s].it = reg' /\ reg' # NoItem => JobContent(job'[s], item'[reg'], File')
  BY <1>2, <1>5, <1>7, <1>8 DEF Content
<1> QED
  BY <1>2, <1>5, <1>6, <1>9, <1>10 DEF Content

\* withError() for a header, or for a block: the item is in error, the rest of
\* it as it was.
LEMMA FailedContent ==
    ASSUME NEW it \in ItemType, NEW p, NEW f, NEW h, ItemContent(it, p, f, h),
           NEW e \in ItemType, e.status > FIST_COMPLETE, e.checked = it.checked,
           e.date = it.date, e.clen = it.clen
    PROVE  ItemContent(e, p, f, h)
BY DEF ItemContent, ItemType, FiStatus

\* withError() while the header is checked.
LEMMA HeaderFailsContent ==
    ASSUME Structure, Content, NEW r \in Readers, ~suspect',
           job[r].pc = "sent", ~Busy(job[r], item[job[r].it]), HeaderFails(r)
    PROVE  Content'
<1> DEFINE i == job[r].it
           it == item[i]
           e == DlSetError(it)
           j == [Unplugged(job[r], "broken") EXCEPT !.assigned = TRUE]
<1>1. /\ job[r] \in JobType /\ i \in Items /\ it \in ItemType /\ ItemInv(it)
      /\ job \in [Readers -> JobType] /\ item \in [Items -> ItemType] /\ Typed
  BY JobContext DEF Structure
<1>2. /\ UNCHANGED <<upstream, path, data, head, reg, reader, suspect>>
      /\ item' = [item EXCEPT ![i] = e] /\ job' = [job EXCEPT ![r] = j] /\ ~suspect
  BY DEF HeaderFails, diskvars
<1>3. JobMoves(r, job'[r], e)
  BY HeaderFailsStep
<1>4. it.status < FIST_COMPLETE
  BY <1>1 DEF Busy, ItemType, FiStatus
<1>5. i = reg /\ ItemContent(it, path, File, head)
  BY <1>2, <1>4, WriterIsRegistered
<1>6. /\ e \in ItemType /\ e.status = FIST_DLERROR /\ e.checked = it.checked
      /\ e.clen = it.clen /\ e.date = it.date /\ e.fd = it.fd
  BY <1>1, DlSetErrorFields
<1>7. job'[r] = j /\ j.pc = "broken"
  BY <1>1, <1>2, RefusedFields
<1> HIDE DEF e, j
<1>8. File' = File /\ NewFilesEmpty'
  BY <1>1, <1>2, <1>6, SameFiles DEF Content
<1>9. ItemContent(e, path', File', head')
  BY <1>1, <1>2, <1>5, <1>6, <1>8, FailedContent
<1>10. DiskContent(File', head')
  BY <1>2, <1>8 DEF Content
<1>11. e.checked >= it.checked
  BY <1>1, <1>6 DEF ItemType
<1>12. JobContent(job'[r], e, File') /\ \A s \in Readers : JobContent(job[s], e, File')
  BY <1>6, <1>7 DEF JobContent
<1> QED
  BY <1>2, <1>3, <1>5, <1>6, <1>8, <1>9, <1>10, <1>11, <1>12, RegMovesContent

\* DlStarted with the header of version v: a download from zero, the rest of
\* a file that is of this version, or a refusal.
LEMMA StartedContent ==
    ASSUME NEW it \in ItemType, ItemInv(it), it.status < FIST_COMPLETE, it.status # FIST_FRESH,
           NEW p, NEW f, Len(f) \in Nat, NEW h, ItemContent(it, p, f, h),
           NEW v \in Versions, NEW seek \in Nat, NEW len \in Int,
           len = -1 \/ len = Lengths[v], seek < Lengths[v],
           seek > 0 => len = Lengths[v],
           seek > 0 /\ it.status < FIST_DLGOTHEAD =>
             ~it.replace /\ seek = Len(f) /\ OneVersion(f, v)
    PROVE  LET s == StartedItem(it, v, seek, len) IN
           /\ ItemContent(s, p, f, h) /\ s.checked >= it.checked
           /\ it.checked > 0 => s.date = it.date
           /\ s.fd = it.fd /\ s.status >= FIST_DLGOTHEAD
<1> DEFINE s == StartedItem(it, v, seek, len)
<1>0. /\ v \in Versions \cup {NoDate} /\ seek \in Int /\ seek >= -1 /\ v # NoDate
      /\ Lengths[v] \in Nat /\ it.checked \in Int /\ it.checked >= -1
      /\ it.status \in Int /\ it.status >= 0
  BY LengthsType DEF ItemInv, ItemType, FiStatus
<1>1. CASE Accepts(it, v, seek, len)
  <2>1. /\ s \in ItemType
        /\ s.status = FIST_DLGOTHEAD /\ s.date = v /\ s.clen = len
        /\ s.checked = seek /\ s.checked >= it.checked
        /\ it.status >= FIST_DLGOTHEAD =>
             v = it.date /\ (it.clen = -1 \/ it.clen = len) /\ seek <= it.checked
        /\ s.fd = it.fd /\ s.replace = it.replace
    BY <1>0, <1>1, DlStartedAccepted
  <2> HIDE DEF s
  <2>2. it.checked > 0 => s.date = it.date
    BY <1>0, <2>1 DEF ItemInv
  <2>3. CASE seek = 0
    <3>1. s.checked = 0 /\ it.checked <= 0
      BY <1>0, <2>1, <2>3
    <3>2. s.fd = NoInode
      BY <1>0, <2>1, <3>1 DEF ItemInv
    <3> QED
      BY <1>0, <2>1, <2>2, <3>1, <3>2 DEF ItemContent, s
  <2>4. CASE seek > 0 /\ it.status < FIST_DLGOTHEAD
    <3>1. s.fd = NoInode
      BY <2>1, <2>4 DEF ItemInv
    <3>2. /\ ~s.replace /\ seek = Len(f) /\ OneVersion(f, v) /\ len = Lengths[v]
      BY <2>1, <2>4
    <3>3. \A k \in 1..seek : f[k] = v
      BY <3>2 DEF OneVersion
    <3> QED
      BY <1>0, <2>1, <2>2, <2>4, <3>1, <3>2, <3>3 DEF ItemContent, s
  <2>5. CASE seek > 0 /\ it.status >= FIST_DLGOTHEAD
    <3>1. v = it.date /\ seek = it.checked /\ len = Lengths[v]
      BY <1>0, <2>1, <2>5
    <3>2. it.status \in {FIST_DLGOTHEAD, FIST_DLRECEIVING}
      BY <1>0, <2>5
    <3> QED
      BY <1>0, <2>1, <2>2, <2>5, <3>1, <3>2 DEF ItemContent, s
  <2> QED
    BY <1>0, <2>3, <2>4, <2>5
<1>2. CASE ~Accepts(it, v, seek, len)
  <2>1. /\ s \in ItemType
        /\ it.status >= FIST_DLGOTHEAD
        /\ s.status \in {it.status, FIST_DLGOTHEAD}
        /\ s.clen = it.clen /\ s.checked = it.checked /\ s.date = it.date /\ s.fd = it.fd
        /\ s.replace = it.replace
    BY <1>0, <1>2, DlStartedRefused
  <2> HIDE DEF s
  <2>2. /\ it.status \in {FIST_DLGOTHEAD, FIST_DLRECEIVING}
        /\ s.status \in {FIST_DLGOTHEAD, FIST_DLRECEIVING}
    BY <1>0, <2>1
  <2> QED
    BY <1>0, <2>1, <2>2 DEF ItemContent, s
<1> QED
  BY <1>1, <1>2

\* An accepted or refused header does not touch the files.
LEMMA StartedStep ==
    ASSUME Structure, Content, NEW r \in Readers, ~suspect', job[r].pc = "sent",
           ~Busy(job[r], item[job[r].it]), UNCHANGED <<diskvars, reg, reader, suspect>>,
           NEW seek \in Nat, NEW len \in Int,
           JobMoves(r, job'[r], StartedItem(item[job[r].it], upstream, seek, len)),
           len = -1 \/ len = Lengths[upstream], seek < Lengths[upstream],
           seek > 0 => len = Lengths[upstream],
           seek > 0 /\ item[job[r].it].status < FIST_DLGOTHEAD =>
             /\ ~item[job[r].it].replace /\ seek = Len(File) /\ OneVersion(File, upstream)
    PROVE  Content'
<1> DEFINE i == job[r].it
           it == item[i]
           s == StartedItem(it, upstream, seek, len)
<1>1. /\ job[r] \in JobType /\ i \in Items /\ it \in ItemType /\ ItemInv(it)
      /\ it.status # FIST_FRESH /\ upstream \in Versions
      /\ job \in [Readers -> JobType] /\ item \in [Items -> ItemType] /\ Typed
  BY JobContext DEF Structure
<1>2. UNCHANGED <<path, data, head, reg, reader, suspect>> /\ ~suspect
  BY DEF diskvars
<1>3. it.status < FIST_COMPLETE
  BY <1>1 DEF Busy, ItemType, FiStatus
<1>4. i = reg /\ ItemContent(it, path, File, head)
  BY <1>2, <1>3, WriterIsRegistered
<1>5. Len(File) \in Nat
  BY <1>1, FileType
<1>6. it = item[job[r].it] /\ i = job[r].it /\ it = item[reg]
  BY <1>4
<1> HIDE DEF it
<1>7. /\ ItemContent(s, path, File, head) /\ s.checked >= it.checked
      /\ it.checked > 0 => s.date = it.date
      /\ s.fd = it.fd /\ s.status >= FIST_DLGOTHEAD
  BY <1>1, <1>3, <1>4, <1>5, <1>6, StartedContent
<1>8. item' = [item EXCEPT ![i] = s] /\ s \in ItemType /\ JobMoves(r, job'[r], s)
  BY <1>6 DEF JobMoves
<1> HIDE DEF s
<1>9. File' = File /\ NewFilesEmpty'
  BY <1>1, <1>2, <1>6, <1>7, <1>8, SameFiles DEF Content
<1>10. DiskContent(File', head') /\ ItemContent(s, path', File', head')
  BY <1>2, <1>7, <1>9 DEF Content
<1>11. ~(s.status < FIST_DLGOTHEAD)
  BY <1>7, <1>8 DEF ItemType, FiStatus
<1>12. JobContent(job'[r], s, File') /\ \A t \in Readers : JobContent(job[t], s, File')
  BY <1>11 DEF JobContent
<1> QED
  BY <1>2, <1>4, <1>6, <1>7, <1>8, <1>9, <1>10, <1>12, RegMovesContent

\* Code 200: the download starts at zero.
LEMMA Header200Content ==
    ASSUME Structure, Content, NEW r \in Readers, NEW chunked \in BOOLEAN, ~suspect',
           Header200(r, chunked)
    PROVE  Content'
<1>1. PICK len \in Int :
        /\ len = -1 \/ len = Lengths[upstream]
        /\ JobMoves(r, job'[r], StartedItem(item[job[r].it], upstream, 0, len))
  BY Header200Step
<1>2. /\ job[r].pc = "sent" /\ ~Busy(job[r], item[job[r].it])
      /\ UNCHANGED <<diskvars, reg, reader, suspect>>
  BY DEF Header200
<1>3. 0 < Lengths[upstream]
  BY LengthsType DEF Structure, Typed
<1> DEFINE z == 0
<1>4. z \in Nat /\ z < Lengths[upstream] /\ ~(z > 0)
      /\ JobMoves(r, job'[r], StartedItem(item[job[r].it], upstream, z, len))
  BY <1>1, <1>3
<1> HIDE DEF z
<1> QED
  BY <1>1, <1>2, <1>4, StartedStep

\* Code 206: what is there is of the version that follows.
LEMMA Header206Content ==
    ASSUME Structure, Content, NEW r \in Readers, ~suspect', Header206(r)
    PROVE  Content'
<1> DEFINE it == item[job[r].it]
           start == job[r].used
           len == Lengths[upstream]
<1>1. JobMoves(r, job'[r], StartedItem(it, upstream, start, len))
  BY Header206Step
<1>2. /\ job[r].pc = "sent" /\ ~Busy(job[r], it) /\ ~suspect
      /\ UNCHANGED <<diskvars, reg, reader, suspect>>
      /\ start > 0 /\ job[r].ifRange \in {NoDate, upstream} /\ start < len /\ start >= it.cached
  BY DEF Header206, RangeApplies
<1>3. /\ job[r] \in JobType /\ it \in ItemType /\ ItemInv(it) /\ upstream \in Versions
  BY <1>2, JobContext
<1>4. start \in Nat /\ len \in Int /\ upstream # NoDate
  BY <1>2, <1>3, LengthsType DEF JobType
<1>5. ASSUME it.status < FIST_DLGOTHEAD
      PROVE  ~it.replace /\ start = Len(File) /\ OneVersion(File, upstream)
  <2>1. job[r].it = reg /\ ItemContent(it, path, File, head) /\ JobContent(job[r], it, File)
    BY <1>2, <1>3, <1>5, WriterIsRegistered DEF ItemType, FiStatus
  <2>2. /\ it.date = upstream /\ OneVersion(File, it.date)
        /\ ~it.replace => start = UsedRangeStartPos(it)
        /\ it.replace => start >= Lengths[it.date]
    BY <1>2, <1>5, <2>1 DEF JobContent
  <2>3. ~it.replace
    BY <1>2, <1>4, <2>2
  <2>4. start = it.cached
    <3>1. it.checked = -1
      BY <1>3, <1>5 DEF ItemInv
    <3> QED
      BY <1>2, <1>3, <1>4, <2>2, <2>3, <3>1 DEF UsedRangeStartPos, ItemType
  <2>5. start = Len(File)
    BY <1>4, <1>5, <2>1, <2>3, <2>4 DEF ItemContent
  <2> QED
    BY <2>2, <2>3, <2>5
<1> HIDE DEF start, len
<1>6. start > 0 => len = Lengths[upstream]
  BY DEF len
<1> QED
  BY <1>1, <1>2, <1>4, <1>5, <1>6, StartedStep DEF len

\* The range was denied: what other jobs asked for lies beyond the file, too.
LEMMA Header416RestartContent ==
    ASSUME Structure, Content, NEW r \in Readers, ~suspect', Header416Restart(r)
    PROVE  Content'
<1> DEFINE i == job[r].it
           it == item[i]
           n == RestartedItem(it)
<1>1. /\ job[r] \in JobType /\ i \in Items /\ it \in ItemType /\ ItemInv(it)
      /\ job \in [Readers -> JobType] /\ item \in [Items -> ItemType] /\ Typed
      /\ upstream \in Versions
  BY JobContext DEF Structure, Header416Restart
<1>2. /\ UNCHANGED <<path, data, head, reg, reader, suspect>> /\ ~suspect
      /\ job[r].pc = "sent" /\ ~Busy(job[r], it) /\ it.checked < 0
      /\ job[r].used >= Lengths[upstream] /\ job[r].used > 0
      /\ job[r].ifRange \in {NoDate, upstream}
  BY DEF Header416Restart, diskvars, RangeApplies
<1>3. JobMoves(r, job'[r], n) /\ job'[r].pc = "queued" /\ item' = [item EXCEPT ![i] = n]
  BY Header416RestartStep DEF JobMoves
<1>4. it.status < FIST_COMPLETE
  BY <1>1, <1>2 DEF Busy, ItemType, FiStatus
<1>5. i = reg /\ ItemContent(it, path, File, head) /\ JobContent(job[r], it, File)
  BY <1>2, <1>4, WriterIsRegistered
<1>6. /\ n \in ItemType /\ n.status = it.status /\ n.checked = it.checked
      /\ n.clen = it.clen /\ n.date = it.date /\ n.fd = it.fd
  BY <1>1, RestartedItemFields
<1>7. n.replace
  BY <1>1, RestartedItemFields
<1>8. it = item[reg]
  BY <1>5
<1> HIDE DEF n, it
<1>9. File' = File /\ NewFilesEmpty'
  BY <1>1, <1>2, <1>3, <1>5, <1>6, <1>8, SameFiles DEF Content
<1>10. ItemContent(n, path', File', head')
  <2>1. n.fd = NoInode \/ n.status > FIST_COMPLETE
    BY <1>1, <1>2, <1>4, <1>6 DEF ItemInv, ItemType, FiStatus
  <2>2. ~(n.status <= FIST_COMPLETE /\ n.fd # NoInode)
    BY <1>6, <2>1 DEF ItemType, FiStatus
  <2>3. ~(n.checked > 0)
    BY <1>2, <1>6 DEF ItemType
  <2> QED
    BY <1>2, <1>5, <1>6, <1>7, <1>9, <2>2, <2>3 DEF ItemContent
<1>11. DiskContent(File', head')
  BY <1>2, <1>9 DEF Content
<1>12. n.checked >= it.checked
  BY <1>1, <1>6 DEF ItemType
<1>13. ASSUME NEW s \in Readers, job[s].it = reg
       PROVE  JobContent(job[s], n, File)
  <2> SUFFICES ASSUME job[s].pc = "sent", it.status < FIST_DLGOTHEAD, job[s].used > 0
               PROVE  /\ it.date # NoDate /\ job[s].ifRange = it.date
                      /\ job[s].used <= Len(File) /\ OneVersion(File, it.date)
                      /\ job[s].used >= Lengths[it.date]
    BY <1>6, <1>7 DEF JobContent
  <2>1. JobContent(job[s], it, File)
    BY <1>1, <1>2, <1>5, <1>8, <1>13, TransferAssumption DEF Content
  <2>2. it.date = upstream
    BY <1>2, <1>5 DEF JobContent
  <2>3. ~it.replace => job[s].used = job[r].used
    BY <1>2, <1>5, <2>1 DEF JobContent
  <2>4. job[s].used >= Lengths[it.date]
    BY <1>2, <2>1, <2>2, <2>3 DEF JobContent
  <2> QED
    BY <2>1, <2>4 DEF JobContent
<1>14. JobContent(job'[r], n, File')
  BY <1>3 DEF JobContent
<1> QED
  BY <1>2, <1>3, <1>5, <1>6, <1>8, <1>9, <1>10, <1>11, <1>12, <1>13, <1>14, RegMovesContent

\* An error code for a new download, with a position that is not stored.
LEMMA HeaderErrorContent ==
    ASSUME Structure, Content, NEW r \in Readers, ~suspect', HeaderError(r)
    PROVE  Content'
<1> DEFINE i == job[r].it
           it == item[i]
           u == job[r].used
           s == FailedItem(it, u)
           n == DlFinish(s)
<1>1. /\ job[r] \in JobType /\ i \in Items /\ it \in ItemType /\ ItemInv(it)
      /\ job \in [Readers -> JobType] /\ item \in [Items -> ItemType] /\ Typed
      /\ JobShape(job[r])
  BY JobContext DEF Structure, HeaderError
<1>2. /\ it.status < FIST_DLGOTHEAD /\ it.status < FIST_COMPLETE /\ job[r].pc = "sent"
  BY <1>1 DEF HeaderError, Busy, ItemType, FiStatus
<1>3. /\ UNCHANGED <<path, data, reg, reader>> /\ head' = HeadOf(n)
      /\ ~suspect /\ ~(n.clen >= 0)
  BY DEF HeaderError, FailedItem
<1>4. JobMoves(r, job'[r], n) /\ item' = [item EXCEPT ![i] = n]
  BY HeaderErrorStep DEF JobMoves
<1>5. u \in Int /\ u >= -1
  BY <1>1 DEF JobShape, JobType
<1>6. /\ s \in ItemType /\ s.status = FIST_DLGOTHEAD /\ s.date = NoDate
      /\ s.clen = -1 /\ s.checked = u /\ s.fd = NoInode
  BY <1>1, <1>2, <1>5, FailedItemFields
<1> HIDE DEF s
<1>7. /\ n \in ItemType /\ n.status = FIST_COMPLETE /\ n.clen = u
      /\ n.checked = u /\ n.date = NoDate /\ n.fd = NoInode
  BY <1>6, DlFinishFields
<1> HIDE DEF n
<1>8. u = -1 /\ it.checked = -1 /\ it.fd = NoInode
  BY <1>1, <1>2, <1>3, <1>5, <1>7 DEF ItemInv
<1>9. i = reg
  BY <1>2, <1>3, WriterIsRegistered
<1>10. File' = File /\ NewFilesEmpty'
  BY <1>1, <1>3, <1>4, <1>7, <1>8, SameFiles DEF Content
<1>11. head'.len = -1 /\ head'.date = NoDate
  BY <1>3, <1>7, <1>8 DEF HeadOf
<1>12. DiskContent(File', head')
  BY <1>11 DEF DiskContent
<1>13. ItemContent(n, path', File', head')
  BY <1>7, <1>8 DEF ItemContent
<1>14. JobContent(job'[r], n, File') /\ \A t \in Readers : JobContent(job[t], n, File')
  BY <1>7 DEF JobContent
<1>15. n.checked >= item[reg].checked /\ ~(item[reg].checked > 0)
  BY <1>7, <1>8, <1>9
<1> QED
  BY <1>3, <1>4, <1>9, <1>10, <1>12, <1>13, <1>14, <1>15, RegMovesContent

\* The probe found the server's version, and the file has not shrunk.
LEMMA HeaderProbeContent ==
    ASSUME Structure, Content, NEW r \in Readers, ~suspect', HeaderProbe(r)
    PROVE  Content'
<1> DEFINE i == job[r].it
           it == item[i]
           c == it.cached
           s == ProbedItem(it)
           n == DlFinish(s)
<1>1. /\ job[r] \in JobType /\ i \in Items /\ it \in ItemType /\ ItemInv(it)
      /\ job \in [Readers -> JobType] /\ item \in [Items -> ItemType] /\ Typed
      /\ Writes(job[r], it) /\ upstream \in Versions /\ it.status # FIST_FRESH
  BY JobContext DEF Structure, HeaderProbe
<1>2. /\ job[r].assigned \/ it.status < FIST_DLGOTHEAD
      /\ it.status < FIST_COMPLETE /\ job[r].pc = "sent"
  BY <1>1 DEF HeaderProbe, Busy, ItemType, FiStatus
<1>3. /\ UNCHANGED <<path, data, reg, reader>> /\ head' = HeadOf(n)
      /\ ~suspect /\ ~(SizeOnDisk < c)
  BY DEF HeaderProbe, ProbedItem
<1>4. JobMoves(r, job'[r], n) /\ item' = [item EXCEPT ![i] = n] /\ Grows
  BY HeaderProbeStep DEF JobMoves
<1>5. c = Lengths[upstream] /\ c - 1 = job[r].used /\ it.date = upstream /\ job[r].used > 0
  BY DEF HeaderProbe, IsProbe, RangeApplies
<1>6. c \in Nat /\ c > 1 /\ upstream # NoDate
  BY <1>1, <1>5, LengthsType DEF JobType
<1>7. /\ s \in ItemType /\ s.status = it.status /\ s.checked = c /\ s.clen = c
      /\ s.date = it.date /\ s.fd = it.fd
  BY <1>1, <1>6 DEF ItemType, ProbedItem
<1> HIDE DEF s
<1>8. /\ n \in ItemType /\ n.status = FIST_COMPLETE /\ n.clen = c
      /\ n.checked = c /\ n.date = upstream /\ n.fd = it.fd
  BY <1>1, <1>2, <1>5, <1>6, <1>7, DlFinishFields DEF ItemType, FiStatus
<1> HIDE DEF n
<1>9. i = reg /\ ItemContent(it, path, File, head) /\ JobContent(job[r], it, File)
  BY <1>2, <1>3, WriterIsRegistered
<1>10. /\ path # NoInode /\ c <= Len(File) /\ Len(File) \in Nat
       /\ \A k \in 1..Len(File) : File[k] \in Versions
  <2>1. /\ SizeOnDisk \in Int /\ Len(File) \in Nat
        /\ \A k \in 1..Len(File) : File[k] \in Versions
        /\ path = NoInode => SizeOnDisk = -1
        /\ path # NoInode => SizeOnDisk = Len(File)
    BY <1>1, FileType DEF SizeOnDisk
  <2> QED
    BY <1>3, <1>6, <2>1
<1>11. OneVersion(File, upstream)
  <2>1. CASE it.status < FIST_DLGOTHEAD
    BY <1>2, <1>5, <1>9, <2>1 DEF JobContent
  <2>2. CASE ~(it.status < FIST_DLGOTHEAD)
    <3>1. /\ job[r].assigned /\ it.status \in {FIST_DLGOTHEAD, FIST_DLRECEIVING}
      BY <1>1, <1>2, <2>2 DEF ItemType, FiStatus
    <3>2. job[r].used = UsedRangeStartPos(it)
      BY <1>1, <1>2, <3>1 DEF Writes
    <3>3. it.checked >= 0
      BY <1>9, <3>1 DEF ItemContent
    <3>4. it.checked > 0
      BY <1>1, <1>5, <3>2, <3>3 DEF UsedRangeStartPos, ItemType
    <3>5. CASE it.fd # NoInode
      BY <1>1, <1>2, <1>5, <1>9, <3>5 DEF ItemContent, ItemType, FiStatus
    <3>6. CASE it.fd = NoInode
      BY <1>5, <1>9, <3>1, <3>4, <3>6 DEF ItemContent
    <3> QED
      BY <3>5, <3>6
  <2> QED
    BY <2>1, <2>2
<1>12. File' = File /\ NewFilesEmpty'
  BY <1>1, <1>3, <1>4, <1>8, SameFiles DEF Content
<1>13. head'.len = c /\ head'.date = upstream
  BY <1>3, <1>8 DEF HeadOf
<1>14. DiskContent(File', head')
  BY <1>6, <1>11, <1>12, <1>13 DEF DiskContent
<1>15. ItemContent(n, path', File', head')
  <2>1. \A k \in 1..c : File[k] = upstream
    BY <1>6, <1>10, <1>11 DEF OneVersion
  <2>2. n.fd # NoInode => n.fd = path
    BY <1>1, <1>2, <1>8, <1>9 DEF ItemContent, ItemType, FiStatus
  <2> QED
    BY <1>3, <1>5, <1>6, <1>8, <1>10, <1>11, <1>12, <1>13, <2>1, <2>2 DEF ItemContent
<1>16. JobContent(job'[r], n, File') /\ \A t \in Readers : JobContent(job[t], n, File')
  BY <1>8 DEF JobContent
<1>17. item'[i] = n
  BY <1>1, <1>4
<1>18. n.checked >= item[reg].checked
  BY <1>1, <1>4, <1>8, <1>9, <1>17 DEF Grows
<1>19. item[reg].checked > 0 => n.date = item[reg].date
  BY <1>5, <1>8, <1>9
<1> QED
  BY <1>3, <1>4, <1>9, <1>12, <1>14, <1>15, <1>16, <1>18, <1>19, RegMovesContent

\* What is known when a block arrives for an item that is not in error.
LEMMA ReceivingContext ==
    ASSUME Structure, Content, ~suspect, NEW r \in Readers, Receiving(r),
           ~(item[job[r].it].status > FIST_COMPLETE)
    PROVE  LET it == item[job[r].it]
               v == job[r].ver IN
           /\ job[r].it = reg /\ reg \in Items /\ it \in ItemType /\ ItemInv(it)
           /\ it.status \in {FIST_DLGOTHEAD, FIST_DLRECEIVING}
           /\ ItemContent(it, path, File, head)
           /\ v \in Versions /\ v # NoDate /\ it.date = v
           /\ it.checked \in Nat /\ it.checked < Lengths[v] /\ Lengths[v] \in Nat
<1> DEFINE it == item[job[r].it]
           v == job[r].ver
<1>1. job[r].pc = "body" /\ job[r].store /\ job[r].left > 0
  BY DEF Receiving
<1>2. /\ job[r] \in JobType /\ it \in ItemType /\ ItemInv(it)
      /\ Writes(job[r], it) /\ JobShape(job[r])
  BY <1>1, JobContext
<1>3. v \in Versions /\ v # NoDate /\ Lengths[v] \in Nat
  BY <1>1, <1>2, LengthsType DEF JobShape
<1>4. /\ it.date = v /\ it.checked >= 0 /\ it.checked + job[r].left = Lengths[v]
      /\ it.status # FIST_COMPLETE /\ it.status >= FIST_DLGOTHEAD
  BY <1>1, <1>2 DEF Writes, JobShape
<1>5. it.status \in {FIST_DLGOTHEAD, FIST_DLRECEIVING} /\ it.status < FIST_COMPLETE
  BY <1>2, <1>4 DEF ItemType, FiStatus
<1>6. it.checked \in Nat /\ it.checked < Lengths[v]
  BY <1>1, <1>2, <1>3, <1>4 DEF ItemType, JobType
<1>7. job[r].pc # "none"
  BY <1>1
<1>8. job[r].it = reg /\ reg \in Items /\ ItemContent(item[reg], path, File, head)
  BY <1>5, <1>7, WriterIsRegistered
<1> QED
  BY <1>2, <1>3, <1>4, <1>5, <1>6, <1>8

\* The job after a block, and after an error.
LEMMA ReceiveMoves ==
    ASSUME Structure, NEW r \in Readers, Receiving(r), NEW n \in ItemType,
           item' = [item EXCEPT ![job[r].it] = n], UNCHANGED <<reg, reader>>,
           job' = OneBlockLess(r) \/ job' = [job EXCEPT ![r] = Unplugged(@, "broken")]
    PROVE  JobMoves(r, job'[r], n) /\ job'[r].pc # "sent"
<1>1. job[r].pc = "body" /\ job[r].left > 0
  BY DEF Receiving
<1>2. job[r] \in JobType /\ job[r].it \in Items /\ job \in [Readers -> JobType]
  BY <1>1, JobContext
<1>3. PICK j \in JobType : /\ job' = [job EXCEPT ![r] = j]
                           /\ j.it = job[r].it /\ j.pc \in {"body", "broken"}
  <2>1. CASE job' = OneBlockLess(r)
    <3> DEFINE j == [job[r] EXCEPT !.left = @ - 1]
    <3>1. job' = [job EXCEPT ![r] = j]
      BY <1>2, <2>1 DEF OneBlockLess
    <3>2. j \in JobType /\ j.it = job[r].it /\ j.pc = "body"
      BY <1>1, <1>2, OneBlockLessFields
    <3> QED
      BY <3>1, <3>2
  <2>2. CASE job' = [job EXCEPT ![r] = Unplugged(@, "broken")]
    <3> DEFINE j == Unplugged(job[r], "broken")
    <3>1. job' = [job EXCEPT ![r] = j]
      BY <2>2
    <3>2. j \in JobType /\ j.it = job[r].it /\ j.pc = "broken"
      BY <1>2, UnpluggedFields
    <3> QED
      BY <3>1, <3>2
  <2> QED
    BY <2>1, <2>2
<1>4. job'[r] = j
  BY <1>2, <1>3
<1> QED
  BY <1>1, <1>2, <1>3, <1>4 DEF JobMoves

\* A block is in the file, or the item is in error: what is left to show.
LEMMA ReceiveContent ==
    ASSUME Structure, Content, ~suspect, NEW r \in Readers, Receiving(r),
           ~(item[job[r].it].status > FIST_COMPLETE), NEW n \in ItemType,
           item' = [item EXCEPT ![job[r].it] = n], UNCHANGED <<reg, reader>>,
           job' = OneBlockLess(r) \/ job' = [job EXCEPT ![r] = Unplugged(@, "broken")],
           n.checked >= item[job[r].it].checked, n.date = item[job[r].it].date,
           n.status >= FIST_DLGOTHEAD, item[job[r].it].checked > 0 => path' = path,
           DiskContent(File', head'), NewFilesEmpty', ItemContent(n, path', File', head')
    PROVE  Content'
<1>1. JobMoves(r, job'[r], n) /\ job'[r].pc # "sent"
  BY ReceiveMoves
<1>2. job[r].it = reg
  BY ReceivingContext
<1>3. ~(n.status < FIST_DLGOTHEAD)
  BY DEF ItemType, FiStatus
<1>4. JobContent(job'[r], n, File') /\ \A t \in Readers : JobContent(job[t], n, File')
  BY <1>3 DEF JobContent
<1> QED
  BY <1>1, <1>2, <1>4, RegMovesContent

\* A block that cannot be written.
LEMMA WriteErrorContent ==
    ASSUME Structure, Content, NEW r \in Readers, ~suspect', WriteError(r)
    PROVE  Content'
<1> DEFINE i == job[r].it
           it == item[i]
           d == DlSetError(it)
           e == [d EXCEPT !.checked = it.checked]
<1>1. /\ Receiving(r) /\ it.status <= FIST_COMPLETE
      /\ item' = [item EXCEPT ![i] = e] /\ job' = [job EXCEPT ![r] = Unplugged(@, "broken")]
      /\ UNCHANGED <<path, data, head, reg, reader>> /\ ~suspect
  BY DEF WriteError, Adding, diskvars
<1>2. i \in Items /\ it \in ItemType /\ ItemInv(it) /\ item \in [Items -> ItemType]
  BY <1>1, JobContext DEF Receiving
<1>3. ~(it.status > FIST_COMPLETE)
  BY <1>1, <1>2 DEF ItemType, FiStatus
<1>4. ItemContent(it, path, File, head)
  BY <1>1, <1>3, ReceivingContext
<1>5. /\ e \in ItemType /\ e.status = FIST_DLERROR /\ e.checked = it.checked
      /\ e.clen = it.clen /\ e.date = it.date /\ e.fd = it.fd
  <2>1. /\ d \in ItemType /\ d.status = FIST_DLERROR
        /\ d.clen = it.clen /\ d.date = it.date /\ d.fd = it.fd /\ it.checked \in Int
    BY <1>2, DlSetErrorFields DEF ItemType
  <2> HIDE DEF d
  <2> QED
    BY <2>1 DEF ItemType
<1> HIDE DEF e
<1>6. File' = File /\ NewFilesEmpty'
  BY <1>1, <1>2, <1>5, SameFiles DEF Content
<1>7. ItemContent(e, path', File', head')
  BY <1>1, <1>2, <1>4, <1>5, <1>6, FailedContent
<1>8. DiskContent(File', head')
  BY <1>1, <1>6 DEF Content
<1>9. e.checked >= it.checked /\ e.status >= FIST_DLGOTHEAD
  BY <1>2, <1>5 DEF ItemType
<1> QED
  BY <1>1, <1>3, <1>5, <1>6, <1>7, <1>8, <1>9, ReceiveContent

\* A block written at the end of the checked part, into a file of one version
\* as far as that matters.
LEMMA WrittenContent ==
    ASSUME NEW f \in Seq(Versions), NEW pos \in Nat, NEW v \in Versions, pos <= Len(f),
           \A k \in 1..Len(f) : k # pos + 1 => f[k] = v
    PROVE  LET w == Written(f, pos, v) IN
           w \in Seq(Versions) /\ OneVersion(w, v) /\ Len(w) \in Nat /\ Len(w) >= pos + 1
<1> DEFINE w == Written(f, pos, v)
           n == IF pos = Len(f) THEN pos + 1 ELSE Len(f)
<1>0. Len(f) \in Nat /\ n \in Nat
  BY LenProperties
<1>1. /\ w \in Seq(Versions)
      /\ Len(w) = n
      /\ \A k \in 1..Len(w) : w[k] = IF k = pos + 1 THEN v ELSE f[k]
  <2>1. w = [k \in 1..n |-> IF k = pos + 1 THEN v ELSE f[k]]
    BY DEF Written
  <2>2. \A k \in 1..n : (IF k = pos + 1 THEN v ELSE f[k]) \in Versions
    <3> TAKE k \in 1..n
    <3>1. k # pos + 1 => k \in 1..Len(f)
      BY <1>0
    <3>2. k \in 1..Len(f) => f[k] \in Versions
      BY ElementOfSeq
    <3> QED
      BY <3>1, <3>2
  <2> HIDE DEF n
  <2>3. w \in [1..n -> Versions]
    BY <2>1, <2>2
  <2>4. w \in Seq(Versions) /\ Len(w) = n
    BY <1>0, <2>3, IsASeq, LenProperties
  <2> QED
    BY <2>1, <2>4
<1> HIDE DEF w
<1>2. Len(w) \in Nat /\ Len(w) >= pos + 1
  BY <1>0, <1>1
<1>3. ASSUME NEW k \in 1..Len(w) PROVE w[k] = v
  <2>1. k # pos + 1 => k \in 1..Len(f)
    BY <1>0, <1>1, <1>2
  <2> QED
    BY <1>1, <2>1
<1>4. OneVersion(w, v)
  BY <1>3 DEF OneVersion
<1> QED
  BY <1>1, <1>2, <1>4 DEF w

\* The next block is of the version of those before it.
LEMMA AddDataContent ==
    ASSUME Structure, AheadInv, Content, NEW r \in Readers, ~suspect', AddData(r)
    PROVE  Content'
<1> DEFINE i == job[r].it
           it == item[i]
           v == job[r].ver
           n == [it EXCEPT !.checked = @ + 1]
           w == Written(File, it.checked, v)
<1>1. /\ Receiving(r) /\ it.fd # NoInode /\ it.status <= FIST_COMPLETE
      /\ item' = [item EXCEPT ![i] = n] /\ job' = OneBlockLess(r)
      /\ data' = [data EXCEPT ![it.fd] = Written(@, it.checked, v)]
      /\ UNCHANGED <<path, head, reg, reader, suspect>> /\ ~suspect
  BY DEF AddData, Adding, Offset, AheadInv
<1>2. /\ i \in Items /\ it \in ItemType /\ item \in [Items -> ItemType] /\ Typed
  BY <1>1, JobContext DEF Receiving, Structure
<1>3. ~(it.status > FIST_COMPLETE)
  BY <1>1, <1>2 DEF ItemType, FiStatus
<1>4. /\ i = reg /\ reg \in Items /\ ItemInv(it)
      /\ it.status \in {FIST_DLGOTHEAD, FIST_DLRECEIVING}
      /\ ItemContent(it, path, File, head)
      /\ v \in Versions /\ v # NoDate /\ it.date = v
      /\ it.checked \in Nat /\ it.checked < Lengths[v] /\ Lengths[v] \in Nat
  BY <1>1, <1>3, ReceivingContext
<1>5. /\ n \in ItemType /\ n.checked = it.checked + 1 /\ n.status = it.status
      /\ n.clen = it.clen /\ n.date = it.date /\ n.fd = it.fd
  BY <1>2, <1>4 DEF ItemType
<1>6. it.checked > 0
  BY <1>1, <1>4 DEF ItemInv
<1>7. /\ it.fd = path /\ OneVersion(File, v) /\ head.date \in {NoDate, v}
      /\ it.checked <= Len(File)
  BY <1>1, <1>4, <1>6 DEF ItemContent
<1>8. /\ File \in Seq(Versions) /\ path \in Inodes /\ File = data[path]
      /\ data \in [Inodes -> Seq(Versions)]
  BY <1>1, <1>2, <1>7, FileType DEF Typed
<1>9. w \in Seq(Versions) /\ OneVersion(w, v) /\ Len(w) \in Nat /\ Len(w) >= it.checked + 1
  <2>1. \A k \in 1..Len(File) : k # it.checked + 1 => File[k] = v
    BY <1>7 DEF OneVersion
  <2> QED
    BY <1>4, <1>7, <1>8, <2>1, WrittenContent, Zenon
<1>10. data' = [data EXCEPT ![path] = w]
  BY <1>1, <1>7, <1>8
<1> HIDE DEF n, w
<1>11. File' = w
  BY <1>1, <1>7, <1>8, <1>10 DEF File
<1>12. NewFilesEmpty'
  <2>1. {item'[k].fd : k \in Items} = {item[k].fd : k \in Items}
    <3>1. \A k \in Items : item'[k].fd = item[k].fd
      BY <1>1, <1>2, <1>5
    <3> QED
      BY <3>1
  <2>2. OpenFiles' = OpenFiles /\ path \in OpenFiles
    BY <1>1, <2>1 DEF OpenFiles
  <2> QED
    BY <1>1, <1>8, <1>10, <2>2 DEF NewFilesEmpty, Content
<1>13. DiskContent(File', head')
  BY <1>1, <1>7, <1>9, <1>11 DEF DiskContent, Content
<1>14. ItemContent(n, path', File', head')
  <2>1. \A k \in 1..n.checked : w[k] = v
    BY <1>4, <1>5, <1>9 DEF OneVersion
  <2>2. n.checked \in Nat /\ n.checked <= Lengths[v] /\ n.checked <= Len(w)
    BY <1>4, <1>5, <1>9
  <2> QED
    BY <1>1, <1>4, <1>5, <1>7, <1>9, <1>11, <2>1, <2>2 DEF ItemContent
<1>15. n.checked >= it.checked /\ n.status >= FIST_DLGOTHEAD
  BY <1>4, <1>5
<1> QED
  BY <1>1, <1>3, <1>5, <1>12, <1>13, <1>14, <1>15, ReceiveContent

\* The item whose file has just got its first block of this download.
LEMMA OpenedContent ==
    ASSUME NEW o \in ItemType, o.status = FIST_DLRECEIVING, o.fd # NoInode,
           o.checked \in Nat, o.checked > 0, NEW f, Len(f) \in Nat, o.checked <= Len(f),
           NEW v \in Versions, o.date = v, v # NoDate, o.checked <= Lengths[v],
           OneVersion(f, v), NEW h, h = HeadOf(o)
    PROVE  ItemContent(o, o.fd, f, h) /\ DiskContent(f, h)
<1>1. h.date = v /\ h.len = o.clen
  BY DEF HeadOf
<1>2. \A k \in 1..o.checked : f[k] = v
  BY DEF OneVersion
<1> QED
  BY <1>1, <1>2 DEF ItemContent, DiskContent

\* The first block goes to a new file.
LEMMA OpenNewContent ==
    ASSUME Structure, Content, NEW r \in Readers, NEW n \in Inodes, ~suspect', OpenNew(r, n)
    PROVE  Content'
<1> DEFINE i == job[r].it
           it == item[i]
           v == job[r].ver
           o == Opened(it, n)
<1>1. /\ Receiving(r) /\ StartOfWrite(it) = 0 /\ n \notin OpenFiles /\ path' = n
      /\ head' = HeadOf(it) /\ item' = [item EXCEPT ![i] = o] /\ job' = OneBlockLess(r)
      /\ UNCHANGED <<upstream, reg, reader>> /\ data' = [Reachable EXCEPT ![n] = <<v>>]
      /\ ~suspect /\ ~(it.status > FIST_COMPLETE)
  BY DEF OpenNew
<1>2. /\ i = reg /\ reg \in Items /\ it \in ItemType /\ ItemInv(it)
      /\ v \in Versions /\ v # NoDate /\ it.date = v
      /\ it.checked \in Nat /\ it.checked < Lengths[v] /\ Lengths[v] \in Nat
  BY <1>1, ReceivingContext
<1>3. it.checked = 0
  BY <1>1, <1>2 DEF StartOfWrite
<1>4. item \in [Items -> ItemType] /\ Typed /\ NoInode \notin Inodes
  BY TransferAssumption DEF Structure, Typed
<1>5. /\ o \in ItemType /\ o.status = FIST_DLRECEIVING /\ o.clen = it.clen
      /\ o.checked = 1 /\ o.date = v /\ o.fd = n
  BY <1>2, <1>3, OpenedFields
<1> HIDE DEF o
<1> DEFINE open == OpenFiles'
           d == [m \in Inodes |-> IF m \in open THEN data[m] ELSE << >>]
<1>6. data' = [d EXCEPT ![n] = <<v>>] /\ path' \in open
  BY <1>1 DEF Reachable, OpenFiles
<1> HIDE DEF open
<1>7. data'[n] = <<v>> /\ \A m \in Inodes : m \notin open => data'[m] = << >>
  BY <1>1, <1>6
<1>8. NewFilesEmpty'
  BY <1>7 DEF NewFilesEmpty, open
<1>9. File' = <<v>>
  BY <1>1, <1>4, <1>7 DEF File
<1>10. Len(File') = 1 /\ OneVersion(File', v)
  BY <1>9 DEF OneVersion
<1>11. head' = HeadOf(o)
  BY <1>1, <1>2, <1>5 DEF HeadOf
<1> DEFINE f == File'
           h == head'
<1>12. /\ Len(f) \in Nat /\ OneVersion(f, v) /\ h = HeadOf(o) /\ Len(f) = 1
       /\ o.checked \in Nat /\ o.checked > 0 /\ o.checked <= Len(f) /\ o.checked <= Lengths[v]
       /\ o.fd # NoInode
  BY <1>2, <1>3, <1>4, <1>5, <1>10, <1>11
<1> HIDE DEF f, h
<1>13. ItemContent(o, o.fd, f, h) /\ DiskContent(f, h)
  BY <1>2, <1>5, <1>12, OpenedContent
<1>14. ItemContent(o, path', File', head') /\ DiskContent(File', head')
  BY <1>1, <1>5, <1>13 DEF f, h
<1>15. o.checked >= it.checked /\ o.status >= FIST_DLGOTHEAD /\ ~(it.checked > 0)
  BY <1>3, <1>5
<1> QED
  BY <1>1, <1>2, <1>5, <1>8, <1>14, <1>15, ReceiveContent

\* The first block goes to the file that is there, behind blocks of its
\* version.
LEMMA OpenInPlaceContent ==
    ASSUME Structure, Content, NEW r \in Readers, ~suspect', OpenInPlace(r)
    PROVE  Content'
<1> DEFINE i == job[r].it
           it == item[i]
           v == job[r].ver
           o == Opened(it, path)
           pos == it.checked
           w == Written(File, pos, v)
<1>1. /\ Receiving(r) /\ ~NeedsNewFile(it) /\ StartOfWrite(it) <= SizeOnDisk
      /\ head' = HeadOf(it) /\ item' = [item EXCEPT ![i] = o] /\ job' = OneBlockLess(r)
      /\ data' = [data EXCEPT ![path] = Written(@, StartOfWrite(it), v)]
      /\ UNCHANGED <<upstream, path, reg, reader>>
      /\ ~suspect /\ ~(it.status > FIST_COMPLETE)
      /\ \A k \in (StartOfWrite(it) + 2)..SizeOnDisk : data[path][k] = v
  BY DEF OpenInPlace
<1>2. /\ i = reg /\ reg \in Items /\ it \in ItemType /\ ItemInv(it)
      /\ ItemContent(it, path, File, head)
      /\ v \in Versions /\ v # NoDate /\ it.date = v
      /\ pos \in Nat /\ pos < Lengths[v] /\ Lengths[v] \in Nat
  BY <1>1, ReceivingContext
<1>3. StartOfWrite(it) = pos /\ path # NoInode
  BY <1>1, <1>2 DEF StartOfWrite, NeedsNewFile
<1>4. item \in [Items -> ItemType] /\ Typed /\ data \in [Inodes -> Seq(Versions)]
  BY DEF Structure, Typed
<1>5. /\ path \in Inodes /\ File = data[path] /\ File \in Seq(Versions) /\ Len(File) \in Nat
      /\ SizeOnDisk = Len(File)
  BY <1>3, <1>4, FileType
<1>6. /\ o \in ItemType /\ o.status = FIST_DLRECEIVING /\ o.clen = it.clen
      /\ o.checked = pos + 1 /\ o.date = v /\ o.fd = path
  BY <1>2, <1>5, OpenedFields
<1> HIDE DEF o
<1>7. pos <= Len(File) /\ \A k \in 1..Len(File) : k # pos + 1 => File[k] = v
  <2>1. pos <= Len(File) /\ \A k \in (pos + 2)..Len(File) : File[k] = v
    BY <1>1, <1>3, <1>5
  <2>2. \A k \in 1..pos : File[k] = v
    BY <1>2 DEF ItemContent
  <2>3. ASSUME NEW k \in 1..Len(File), k # pos + 1 PROVE File[k] = v
    <3>1. k \in 1..pos \/ k \in (pos + 2)..Len(File)
      BY <1>2, <1>5, <2>3
    <3> QED
      BY <2>1, <2>2, <3>1
  <2> QED
    BY <2>1, <2>3
<1>8. w \in Seq(Versions) /\ OneVersion(w, v) /\ Len(w) \in Nat /\ Len(w) >= pos + 1
  BY <1>2, <1>5, <1>7, WrittenContent
<1>9. data' = [data EXCEPT ![path] = w]
  BY <1>1, <1>3, <1>5
<1> HIDE DEF w
<1>10. File' = w
  BY <1>1, <1>3, <1>4, <1>5, <1>9 DEF File
<1>11. NewFilesEmpty'
  <2>1. \A k \in Items : item[k].fd \in {item'[k].fd, NoInode}
    <3>1. it.fd = NoInode
      BY DEF OpenInPlace
    <3> QED
      BY <1>1, <1>2, <1>4, <3>1
  <2>2. OpenFiles \subseteq OpenFiles' \cup {NoInode} /\ path \in OpenFiles'
    BY <1>1, <2>1 DEF OpenFiles
  <2> QED
    BY <1>1, <1>4, <1>5, <1>9, <2>2, TransferAssumption DEF NewFilesEmpty, Content
<1>12. head' = HeadOf(o)
  BY <1>1, <1>2, <1>6 DEF HeadOf
<1> DEFINE h == head'
<1>13. /\ h = HeadOf(o)
       /\ o.checked \in Nat /\ o.checked > 0 /\ o.checked <= Len(w) /\ o.checked <= Lengths[v]
       /\ o.fd # NoInode
  BY <1>2, <1>3, <1>6, <1>8, <1>12
<1> HIDE DEF h
<1>14. ItemContent(o, o.fd, w, h) /\ DiskContent(w, h)
  BY <1>2, <1>6, <1>8, <1>13, OpenedContent
<1>15. ItemContent(o, path', File', head') /\ DiskContent(File', head')
  BY <1>1, <1>6, <1>10, <1>14 DEF h
<1>16. o.checked >= it.checked /\ o.status >= FIST_DLGOTHEAD
  BY <1>2, <1>6
<1> QED
  BY <1>1, <1>2, <1>6, <1>11, <1>15, <1>16, ReceiveContent

\* The header is stored over blocks of its own version, or over none.
LEMMA FirstWriteFailsContent ==
    ASSUME Structure, Content, NEW r \in Readers, NEW n \in Inodes, ~suspect',
           FirstWriteFails(r, n)
    PROVE  Content'
<1> DEFINE i == job[r].it
           it == item[i]
           v == job[r].ver
           pos == StartOfWrite(it)
           e == FailedWith(it, n, pos)
<1>1. /\ Receiving(r) /\ it.fd = NoInode /\ path' = n /\ head' = HeadOf(it)
      /\ IF NeedsNewFile(it) THEN n \notin OpenFiles /\ pos = 0
         ELSE n = path /\ pos <= SizeOnDisk
      /\ UNCHANGED <<upstream, reg, reader>> /\ OpensFile(r, n)
  BY DEF FirstWriteFails, OpensFile
<1>2. /\ item' = [item EXCEPT ![i] = e] /\ job' = [job EXCEPT ![r] = Unplugged(@, "broken")]
      /\ ~suspect /\ ~(it.status > FIST_COMPLETE) /\ data' = OpenedData(i, n)
      /\ ~NeedsNewFile(it) => \A k \in (pos + 1)..SizeOnDisk : data[path][k] = v
  BY DEF FirstWriteFails, FailedWith
<1>3. /\ i = reg /\ reg \in Items /\ it \in ItemType /\ ItemInv(it)
      /\ ItemContent(it, path, File, head)
      /\ v \in Versions /\ v # NoDate /\ it.date = v
      /\ it.checked \in Nat /\ it.checked < Lengths[v] /\ Lengths[v] \in Nat
      /\ it.status >= FIST_DLGOTHEAD
  BY <1>1, <1>2, ReceivingContext
<1>4. pos = it.checked /\ n \in Inodes \cup {NoInode}
  BY <1>3 DEF StartOfWrite
<1>5. /\ e \in ItemType /\ e.status = FIST_DLERROR /\ e.clen = it.clen
      /\ e.checked = it.checked /\ e.fd = n /\ e.date = v
  <2>1. pos \in Int /\ pos >= -1
    BY <1>3, <1>4
  <2> QED
    BY <1>3, <1>4, <2>1, FailedItemInv
<1>6. item \in [Items -> ItemType] /\ Typed /\ NoInode \notin Inodes
  BY TransferAssumption DEF Structure, Typed
<1>7. head'.date = v /\ head'.len = it.clen
  BY <1>1, <1>3 DEF HeadOf
<1> HIDE DEF e
<1>8. CASE NeedsNewFile(it)
  <2> DEFINE open == OpenFiles'
             d == [m \in Inodes |-> IF m \in open THEN data[m] ELSE << >>]
  <2>1. data' = [d EXCEPT ![n] = << >>]
    BY <1>2, <1>8 DEF OpenedData, Reachable
  <2> HIDE DEF open
  <2>2. data'[n] = << >> /\ \A m \in Inodes : m \notin open => data'[m] = << >>
    BY <2>1
  <2>3. NewFilesEmpty'
    BY <2>2 DEF NewFilesEmpty, open
  <2>4. File' = << >>
    BY <1>1, <1>6, <2>2 DEF File
  <2>5. DiskContent(File', head')
    BY <1>3, <1>7, <2>4 DEF DiskContent, OneVersion
  <2>6. it.checked = 0
    BY <1>1, <1>4, <1>8
  <2>7. ItemContent(e, path', File', head')
    BY <1>3, <1>5, <2>6 DEF ItemContent
  <2>8. e.checked >= it.checked /\ e.status >= FIST_DLGOTHEAD /\ ~(it.checked > 0)
    BY <1>5, <2>6
  <2> QED
    BY <1>1, <1>2, <1>3, <1>5, <2>3, <2>5, <2>7, <2>8, ReceiveContent
<1>9. CASE ~NeedsNewFile(it)
  <2>1. n = path /\ path # NoInode /\ data' = data /\ path' = path
    BY <1>1, <1>2, <1>6, <1>9 DEF OpenedData
  <2>2. /\ File' = File /\ File = data[path] /\ Len(File) \in Nat /\ SizeOnDisk = Len(File)
    BY <1>6, <2>1, FileKept, FileType
  <2>3. OneVersion(File, v)
    <3>1. ASSUME NEW k \in 1..Len(File) PROVE File[k] = v
      <4>1. k \in 1..it.checked \/ k \in (it.checked + 1)..Len(File)
        BY <1>3, <2>2, <3>1
      <4>2. k \in 1..it.checked => File[k] = v
        BY <1>3 DEF ItemContent
      <4>3. k \in (it.checked + 1)..Len(File) => File[k] = v
        BY <1>2, <1>4, <1>9, <2>2
      <4> QED
        BY <4>1, <4>2, <4>3
    <3> QED
      BY <3>1 DEF OneVersion
  <2>4. DiskContent(File', head')
    BY <1>3, <1>7, <2>2, <2>3 DEF DiskContent
  <2>5. NewFilesEmpty'
    <3>1. \A k \in Items : item[k].fd \in {item'[k].fd, NoInode}
      BY <1>1, <1>2, <1>3, <1>6
    <3>2. OpenFiles \subseteq OpenFiles' \cup {NoInode}
      BY <1>1, <2>1, <3>1 DEF OpenFiles
    <3> QED
      BY <1>2, <1>6, <2>1, <3>2 DEF NewFilesEmpty, Content
  <2>6. ItemContent(e, path', File', head')
    BY <1>3, <1>5, <2>2, <2>3 DEF ItemContent
  <2>7. e.checked >= it.checked /\ e.status >= FIST_DLGOTHEAD
    BY <1>3, <1>5
  <2> QED
    BY <1>1, <1>2, <1>3, <1>5, <2>1, <2>4, <2>5, <2>6, <2>7, ReceiveContent
<1> QED
  BY <1>8, <1>9

\* withError() in SafeOpenOutFile: a file with checked blocks is not replaced.
LEMMA OpenErrorContent ==
    ASSUME Structure, Content, NEW r \in Readers, ~suspect', OpenError(r)
    PROVE  Content'
<1> DEFINE i == job[r].it
           it == item[i]
           e == DlSetError(it)
<1>1. /\ Receiving(r) /\ it.fd = NoInode /\ ~suspect /\ ~(it.status > FIST_COMPLETE)
      /\ job' = [job EXCEPT ![r] = Unplugged(@, "broken")]
      /\ UNCHANGED <<upstream, head, reg, reader>> /\ data' = Reachable
      /\ path' = NoInode => path = NoInode \/ NeedsNewFile(it)
  BY DEF OpenError
<1>2. /\ i = reg /\ reg \in Items /\ it \in ItemType /\ ItemInv(it)
      /\ it.status \in {FIST_DLGOTHEAD, FIST_DLRECEIVING}
      /\ ItemContent(it, path, File, head)
      /\ it.checked \in Nat
  BY <1>1, ReceivingContext
<1>3. item \in [Items -> ItemType] /\ Typed /\ path \in Inodes \cup {NoInode}
  BY DEF Structure, Typed
<1>4. /\ e \in ItemType /\ e.status = FIST_DLERROR /\ e.checked = it.checked
      /\ e.clen = it.clen /\ e.date = it.date /\ e.fd = it.fd
  BY <1>2, DlSetErrorFields
<1>5. /\ path' \in {path, NoInode} \/ (path' \in Inodes /\ (IF NeedsNewFile(it) THEN path' \notin OpenFiles ELSE path' = path))
      /\ \E n \in ItemType : /\ item' = [item EXCEPT ![i] = n] /\ n.status = FIST_DLERROR
                             /\ n.checked = it.checked /\ n.clen = it.clen /\ n.date = it.date
  <2>1. CASE path' \in {path, NoInode} /\ item' = [item EXCEPT ![i] = DlSetError(@)]
    <3>1. item' = [item EXCEPT ![i] = e]
      BY <2>1
    <3> HIDE DEF e
    <3> QED
      BY <1>4, <2>1, <3>1
  <2>2. ASSUME NEW n \in Inodes, path' = n,
               IF NeedsNewFile(it) THEN n \notin OpenFiles ELSE n = path,
               item' = [item EXCEPT ![i] = [DlSetError(@) EXCEPT !.fd = n]]
        PROVE  /\ path' \in Inodes /\ (IF NeedsNewFile(it) THEN path' \notin OpenFiles ELSE path' = path)
               /\ \E m \in ItemType : /\ item' = [item EXCEPT ![i] = m] /\ m.status = FIST_DLERROR
                                      /\ m.checked = it.checked /\ m.clen = it.clen /\ m.date = it.date
    <3> DEFINE m == [e EXCEPT !.fd = n]
    <3>1. item' = [item EXCEPT ![i] = m]
      BY <2>2
    <3> HIDE DEF e
    <3>2. m \in ItemType /\ m.status = e.status /\ m.checked = e.checked /\ m.clen = e.clen
          /\ m.date = e.date
      BY <1>4 DEF ItemType
    <3> HIDE DEF m
    <3> QED
      BY <1>4, <2>2, <3>1, <3>2
  <2> QED
    BY <2>1, <2>2 DEF OpenError
<1>6. PICK n \in ItemType : /\ item' = [item EXCEPT ![i] = n] /\ n.status = FIST_DLERROR
                            /\ n.checked = it.checked /\ n.clen = it.clen /\ n.date = it.date
  BY <1>5
<1>7. it.checked > 0 => path' = path
  <2> SUFFICES ASSUME it.checked > 0 PROVE path' = path
    OBVIOUS
  <2>1. /\ ~it.replace /\ it.clen = Lengths[it.date] /\ Len(File) <= it.clen
        /\ it.checked <= Len(File) /\ it.date # NoDate
    BY <1>1, <1>2 DEF ItemContent
  <2>2. Lengths[it.date] \in Nat
    BY <1>2, <2>1, LengthsType DEF ItemType
  <2>3. path # NoInode /\ SizeOnDisk = Len(File) /\ Len(File) \in Nat
    BY <1>2, <1>3, <2>1, FileType
  <2>4. ~NeedsNewFile(it)
    BY <2>1, <2>2, <2>3 DEF NeedsNewFile
  <2> QED
    BY <1>1, <1>5, <2>3, <2>4
<1>8. /\ \A m \in Inodes : m \in OpenFiles' => data'[m] = data[m]
      /\ \A m \in Inodes : m \notin OpenFiles' => data'[m] = << >>
      /\ path' \in OpenFiles'
  BY <1>1, <1>3, ReachableContent DEF OpenFiles
<1>9. NewFilesEmpty'
  BY <1>8 DEF NewFilesEmpty
<1>10. File' = File \/ File' = << >>
  <2>1. CASE path' = path
    BY <1>1, <1>3, <2>1, FileReachable
  <2>2. CASE path' = NoInode
    BY <2>2 DEF File
  <2>3. CASE path' \in Inodes /\ path' \notin OpenFiles
    <3>1. data'[path'] = << >>
      BY <1>1, <1>8, <2>3 DEF Content, NewFilesEmpty
    <3> QED
      BY <3>1 DEF File
  <2> QED
    BY <1>5, <2>1, <2>2, <2>3
<1>11. DiskContent(File', head')
  BY <1>1, <1>10 DEF DiskContent, OneVersion, Content
<1>12. ItemContent(n, path', File', head')
  <2>1. CASE it.checked > 0
    <3>1. path' = path /\ File' = File
      BY <1>1, <1>3, <1>7, <2>1, FileReachable
    <3>2. n.status > FIST_COMPLETE
      BY <1>6
    <3> QED
      BY <1>1, <1>2, <1>6, <3>1, <3>2, FailedContent
  <2>2. CASE ~(it.checked > 0)
    BY <1>2, <1>6, <2>2 DEF ItemContent
  <2> QED
    BY <2>1, <2>2
<1>13. n.checked >= it.checked /\ n.status >= FIST_DLGOTHEAD
  BY <1>2, <1>6
<1> QED
  BY <1>1, <1>6, <1>7, <1>9, <1>11, <1>12, <1>13, ReceiveContent

\* ~tDlJob: the item lives on without this job, or is gone with it.
LEMMA JobEndsContent ==
    ASSUME Structure, Content, ~suspect, NEW r \in Readers, NEW it, JobEnds(r, it), ItemInv(it),
           path' = path, data' = Reachable, DiskContent(File, head'),
           it.checked = item[job[r].it].checked, it.date = item[job[r].it].date,
           it = item[job[r].it] \/ it.status >= FIST_COMPLETE,
           job[r].it = reg => ItemContent(it, path, File, head'),
           job[r].it # reg /\ reg # NoItem => ItemContent(item[reg], path, File, head')
    PROVE  Content'
<1> DEFINE i == job[r].it
           gone == ~Referenced(i, reg', reader', job')
           last == Downloads(i, job') = {}
           n == IF gone THEN FreeItem ELSE DlRefCountDec(it, last)
<1>0. /\ item \in [Items -> ItemType] /\ job \in [Readers -> JobType]
      /\ reader \in [Readers -> ReaderType] /\ reg \in Items \cup {NoItem} /\ NoItem \notin Items
      /\ Typed /\ i \in Items /\ it \in ItemType /\ i # NoItem
  BY TransferAssumption DEF Structure, Typed, JobEnds
<1>1. /\ item' = [item EXCEPT ![i] = n] /\ job' = [job EXCEPT ![r] = NoJob] /\ reg' = reg
  BY DEF JobEnds, Dropped
<1>2. i = reg => ~gone
  BY <1>1 DEF Referenced
<1>3. ~gone => n = it \/ n = DlSetError(it)
  BY DEF DlRefCountDec
<1>4. /\ DlSetError(it) \in ItemType /\ DlSetError(it).status = FIST_DLERROR
      /\ DlSetError(it).checked = it.checked /\ DlSetError(it).clen = it.clen
      /\ DlSetError(it).date = it.date
  BY <1>0, DlSetErrorFields
<1> HIDE DEF gone, n
<1>5. /\ item'[i] = n /\ \A k \in Items : k # i => item'[k] = item[k]
      /\ \A s \in Readers : s # r => job'[s] = job[s]
      /\ job'[r] = NoJob /\ job'[r].it = NoItem
  BY <1>0, <1>1, NoJobType
<1>6. /\ \A s \in Readers : reader'[s].it = reader[s].it /\ reader'[s].got = reader[s].got
                              /\ reader'[s].fd = reader[s].fd
      /\ \A s \in Readers : reader[s].it # NoItem => reader'[s] = reader[s]
  <2>1. ASSUME NEW s \in Readers
        PROVE  /\ reader'[s].it = reader[s].it /\ reader'[s].got = reader[s].got
               /\ reader'[s].fd = reader[s].fd
               /\ reader[s].it # NoItem => reader'[s] = reader[s]
    <3>1. CASE reader'[s] = reader[s]
      BY <3>1
    <3>2. CASE s = r /\ reader[r].pc = "closing" /\ reader'[r] = [reader[r] EXCEPT !.pc = "idle"]
      <4>1. reader[s].it = NoItem
        BY <3>2 DEF Structure, ReaderShape
      <4> QED
        BY <1>0, <3>2, <4>1 DEF ReaderType
    <3> QED
      BY <3>1, <3>2 DEF JobEnds
  <2> QED
    BY <2>1
<1>7. /\ \A k \in Items : Users(k, reader') = Users(k, reader)
      /\ \A k \in Items : Downloads(k, job') \subseteq Downloads(k, job)
      /\ r \in Downloads(i, job)
  BY <1>0, <1>5, <1>6 DEF Users, Downloads
<1>8. File' = File /\ NewFilesEmpty'
  BY <1>0, FileReachable
<1>9. Detached'
  <2> SUFFICES ASSUME NEW k \in Items, k # reg, Referenced(k, reg', reader', job')
               PROVE  item'[k].status >= FIST_COMPLETE
    BY <1>1 DEF Detached
  <2>1. Referenced(k, reg, reader, job)
    BY <1>1, <1>7 DEF Referenced
  <2>2. item[k].status >= FIST_COMPLETE
    BY <2>1 DEF Content, Detached
  <2>3. CASE k # i
    BY <1>5, <2>2, <2>3
  <2>4. CASE k = i
    <3>1. n = it \/ n = DlSetError(it)
      BY <1>3, <2>4 DEF gone
    <3>2. it.status >= FIST_COMPLETE
      BY <2>2, <2>4
    <3> QED
      BY <1>4, <1>5, <2>4, <3>1, <3>2
  <2> QED
    BY <2>3, <2>4
<1>10. reg # NoItem => ItemContent(item'[reg], path, File, head')
  <2>1. CASE i # reg
    BY <1>0, <1>5, <2>1
  <2>2. CASE i = reg
    <3>1. n = it \/ n = DlSetError(it)
      BY <1>2, <1>3, <2>2
    <3>2. ItemContent(DlSetError(it), path, File, head')
      <4> DEFINE e == DlSetError(it)
                 h == head'
      <4>1. e \in ItemType /\ e.status > FIST_COMPLETE /\ e.checked = it.checked
            /\ e.date = it.date /\ e.clen = it.clen /\ ItemContent(it, path, File, h)
        BY <1>4, <2>2
      <4> HIDE DEF e, h
      <4>2. ItemContent(e, path, File, h)
        BY <1>0, <4>1, FailedContent
      <4> QED
        BY <4>2 DEF e, h
    <3> QED
      BY <1>5, <2>2, <3>1, <3>2
  <2> QED
    BY <2>1, <2>2
<1>11. ASSUME NEW s \in Readers, job'[s].it = reg, reg # NoItem
       PROVE  JobContent(job'[s], item'[reg], File)
  <2>1. s # r /\ job'[s] = job[s]
    BY <1>5, <1>11
  <2>2. JobContent(job[s], item[reg], File)
    BY <1>11, <2>1 DEF Content
  <2>3. CASE item'[reg] = item[reg]
    BY <2>1, <2>2, <2>3
  <2>4. CASE ~(item'[reg].status < FIST_DLGOTHEAD)
    BY <2>4 DEF JobContent
  <2>5. item'[reg] = item[reg] \/ ~(item'[reg].status < FIST_DLGOTHEAD)
    <3>1. reg # i => item'[reg] = item[reg]
      BY <1>0, <1>5, <1>11
    <3>2. reg = i => n = it \/ n = DlSetError(it)
      BY <1>2, <1>3
    <3>3. it.status >= FIST_COMPLETE => ~(it.status < FIST_DLGOTHEAD)
      BY <1>0 DEF ItemType, FiStatus
    <3> QED
      BY <1>4, <1>5, <3>1, <3>2, <3>3
  <2> QED
    BY <2>3, <2>4, <2>5
<1>12. ASSUME NEW s \in Readers
       PROVE  IF reader'[s].it = NoItem THEN reader'[s].got = << >> /\ reader'[s].fd = NoInode
              ELSE ReaderContent(reader'[s], item'[reg], path)
  <2>1. CASE reader[s].it = NoItem
    BY <1>6, <2>1 DEF Content
  <2>2. CASE reader[s].it # NoItem
    <3>1. /\ reader'[s] = reader[s] /\ ReaderContent(reader[s], item[reg], path)
          /\ reader[s] \in ReaderType /\ reg # NoItem
      BY <1>0, <1>6, <2>2 DEF Content, Structure, ReaderShape
    <3>2. /\ item'[reg].checked = item[reg].checked /\ item'[reg].date = item[reg].date
          /\ item'[reg] \in ItemType /\ item[reg] \in ItemType
      <4>1. CASE reg # i
        BY <1>0, <1>5, <3>1, <4>1
      <4>2. CASE reg = i
        BY <1>0, <1>2, <1>3, <1>4, <1>5, <4>2
      <4> QED
        BY <4>1, <4>2
    <3>3. item'[reg].checked >= item[reg].checked
      BY <3>2 DEF ItemType
    <3> DEFINE m == item'[reg]
    <3>4. m \in ItemType /\ m.checked >= item[reg].checked /\ m.date = item[reg].date
      BY <3>2, <3>3
    <3> HIDE DEF m
    <3>5. ReaderContent(reader[s], m, path)
      BY <3>1, <3>2, <3>4, ReaderContentKept
    <3> QED
      BY <2>2, <3>1, <3>5 DEF m
  <2> QED
    BY <2>1, <2>2
<1> QED
  BY <1>1, <1>8, <1>9, <1>10, <1>11, <1>12 DEF Content

\* A job that is given up.
LEMMA JobDiesContent ==
    ASSUME Structure, Content, NEW r \in Readers, ~suspect', JobDies(r)
    PROVE  Content'
<1> DEFINE it == item[job[r].it]
<1>1. /\ job[r].it \in Items /\ it \in ItemType /\ ItemInv(it)
      /\ reader \in [Readers -> ReaderType]
  BY JobContext DEF JobDies, Structure, Typed
<1>2. JobEnds(r, it)
  BY <1>1 DEF JobEnds, JobDies
<1>3. ~suspect /\ path' = path /\ head' = head /\ data' = Reachable
  BY DEF JobDies
<1>4. /\ DiskContent(File, head') /\ (job[r].it = reg => ItemContent(it, path, File, head'))
      /\ reg # NoItem => ItemContent(item[reg], path, File, head')
  BY <1>1, <1>3, TransferAssumption DEF Content
<1> QED
  BY <1>1, <1>2, <1>3, <1>4, JobEndsContent

\* STATE_FINISHJOB: a header that is stored now has the length of the file.
LEMMA FinishJobContent ==
    ASSUME Structure, Content, NEW r \in Readers, ~suspect', FinishJob(r)
    PROVE  Content'
<1> DEFINE i == job[r].it
           it == item[i]
           f == DlFinish(it)
           v == job[r].ver
<1>1. /\ job[r] \in JobType /\ i \in Items /\ it \in ItemType
      /\ ItemInv(it) /\ Writes(job[r], it) /\ JobShape(job[r])
      /\ it.status # FIST_FRESH /\ reader \in [Readers -> ReaderType]
  BY JobContext DEF FinishJob, Structure, Typed
<1>2. /\ job[r].pc = "body" /\ (job[r].left = 0 \/ ~job[r].store) /\ job[r].assigned
      /\ job[r].pc # "none"
  BY <1>1 DEF FinishJob, JobShape
<1>3. /\ f \in ItemType /\ ItemInv(f) /\ f.checked = it.checked
      /\ f.status >= FIST_COMPLETE /\ f.date = it.date
      /\ it.clen >= 0 => f.clen = it.clen
      /\ it.status > FIST_COMPLETE => f = it
  BY <1>1, <1>2, FinishedItem
<1>4. /\ UNCHANGED <<upstream, path, reg, reader, suspect>> /\ data' = Reachable /\ ~suspect
      /\ job' = [job EXCEPT ![r] = NoJob] /\ item' = Dropped(i, f)
      /\ head' = IF it.status <= FIST_COMPLETE /\ it.clen < 0 THEN HeadOf(f) ELSE head
  BY DEF FinishJob
<1>5. it.status <= FIST_COMPLETE =>
        /\ f.status = FIST_COMPLETE /\ f.clen = (IF it.clen < 0 THEN it.checked ELSE it.clen)
        /\ f.fd = it.fd
  BY <1>1, DlFinishFields
<1> HIDE DEF f
<1>6. JobEnds(r, f)
  BY <1>1, <1>3, <1>4 DEF JobEnds
<1>7. CASE it.status < FIST_COMPLETE
  <2>1. i = reg /\ reg \in Items /\ ItemContent(it, path, File, head)
    BY <1>2, <1>4, <1>7, WriterIsRegistered
  <2>2. job[r].store
    BY <1>1, <1>2, <1>7 DEF Writes, ItemType, FiStatus
  <2>3. /\ v \in Versions /\ v # NoDate /\ it.date = v /\ Lengths[v] \in Nat /\ Lengths[v] > 0
        /\ it.checked = Lengths[v] /\ it.fd # NoInode
    <3>1. /\ it.date = v /\ it.checked + job[r].left = Lengths[v] /\ job[r].left = 0
          /\ it.fd = NoInode => job[r].left > 0
      BY <1>1, <1>2, <2>2 DEF Writes
    <3>2. v \in Versions
      BY <1>1, <1>2 DEF JobShape
    <3> QED
      BY <1>1, <3>1, <3>2, LengthsType DEF ItemType
  <2>4. it.fd = path /\ OneVersion(File, v) /\ head.date \in {NoDate, v}
    BY <1>1, <1>7, <2>1, <2>3 DEF ItemContent, ItemType, FiStatus
  <2>5. it.status <= FIST_COMPLETE
    BY <1>1, <1>7 DEF ItemType, FiStatus
  <2>6. head'.date \in {NoDate, v} /\ DiskContent(File, head')
    <3>1. CASE it.clen < 0
      <4>1. head' = HeadOf(f)
        BY <1>4, <2>5, <3>1
      <4>2. head'.date = v
        BY <1>3, <2>3, <4>1 DEF HeadOf
      <4> QED
        BY <2>3, <2>4, <4>2 DEF DiskContent
    <3>2. CASE ~(it.clen < 0)
      BY <1>4, <2>4, <3>2 DEF Content
    <3> QED
      BY <3>1, <3>2
  <2>7. f.clen = Lengths[v]
    BY <1>1, <1>5, <2>3, <2>5 DEF ItemInv, ItemType
  <2> DEFINE h == head'
  <2>8. h.date \in {NoDate, v}
    BY <2>6
  <2> HIDE DEF h
  <2>9. ItemContent(f, path, File, h)
    BY <1>3, <1>5, <2>1, <2>3, <2>4, <2>5, <2>7, <2>8 DEF ItemContent
  <2>10. ItemContent(f, path, File, head')
    BY <2>9 DEF h
  <2> QED
    BY <1>3, <1>4, <1>6, <2>1, <2>6, <2>10, JobEndsContent
<1>8. CASE it.status = FIST_COMPLETE
  <2>1. it.checked = it.clen /\ f.clen = it.clen
    BY <1>1, <1>5, <1>8 DEF ItemInv, ItemType
  <2>2. it.clen < 0 => head'.date = NoDate /\ head'.len < 0
    <3>1. it.clen < 0 => it.date = NoDate /\ head' = HeadOf(f)
      BY <1>1, <1>4, <1>8 DEF ItemInv
    <3> QED
      BY <1>3, <2>1, <3>1 DEF HeadOf
  <2>3. ~(it.clen < 0) => head' = head
    BY <1>4
  <2>4. head'.date = head.date \/ head'.date = NoDate
    BY <2>2, <2>3
  <2>5. DiskContent(File, head')
    <3>1. CASE it.clen < 0
      <4> DEFINE len == head'.len
      <4>1. len < 0 /\ len \in Int /\ head'.date = NoDate
        BY <1>1, <1>3, <1>4, <1>8, <2>1, <2>2, <3>1 DEF HeadOf, ItemType
      <4>2. ~(len >= 0)
        <5> HIDE DEF len
        <5> QED
          BY <4>1
      <4> QED
        BY <4>1, <4>2 DEF DiskContent
    <3>2. CASE ~(it.clen < 0)
      BY <1>4, <2>3, <3>2 DEF Content
    <3> QED
      BY <3>1, <3>2
  <2> DEFINE h == head'
  <2>6. h.date = head.date \/ h.date = NoDate
    BY <2>4
  <2> HIDE DEF h
  <2>7. i = reg => ItemContent(f, path, File, h)
    <3> SUFFICES ASSUME i = reg PROVE ItemContent(f, path, File, h)
      OBVIOUS
    <3>1. ItemContent(it, path, File, head)
      BY <1>1, <1>4, TransferAssumption DEF Content
    <3> QED
      BY <1>3, <1>5, <1>8, <2>1, <2>6, <3>1 DEF ItemContent
  <2>8. reg # NoItem => ItemContent(item[reg], path, File, h)
    BY <1>4, <2>6 DEF Content, ItemContent
  <2>9. /\ i = reg => ItemContent(f, path, File, head')
        /\ reg # NoItem => ItemContent(item[reg], path, File, head')
    BY <2>7, <2>8 DEF h
  <2> QED
    BY <1>3, <1>4, <1>6, <2>5, <2>9, JobEndsContent
<1>9. CASE it.status > FIST_COMPLETE
  <2>1. f = it /\ head' = head
    BY <1>1, <1>3, <1>4, <1>9 DEF ItemType, FiStatus
  <2>2. /\ DiskContent(File, head') /\ (i = reg => ItemContent(f, path, File, head'))
        /\ reg # NoItem => ItemContent(item[reg], path, File, head')
    BY <1>1, <1>4, <2>1, TransferAssumption DEF Content
  <2> QED
    BY <1>3, <1>4, <1>6, <2>2, JobEndsContent
<1> QED
  BY <1>1, <1>7, <1>8, <1>9 DEF ItemType, FiStatus

-----------------------------------------------------------------------------
(* The steps of readers preserve the content *)

\* A step of a reader that keeps its item preserves the content.
LEMMA ReaderMovesContent ==
    ASSUME Structure, Content, ~suspect, NEW r \in Readers, NEW rd, ReaderMoves(r, rd),
           File' = File, NewFilesEmpty', ReaderContent(rd, item[reg], path)
    PROVE  Content'
<1>1. /\ reader \in [Readers -> ReaderType]
      /\ UNCHANGED <<path, head, item, reg, job, suspect>>
      /\ reader' = [reader EXCEPT ![r] = rd] /\ rd.it = reader[r].it /\ rd.it # NoItem
  BY DEF Structure, Typed, ReaderMoves
<1>2. /\ reader'[r] = rd /\ \A s \in Readers : s # r => reader'[s] = reader[s]
      /\ \A s \in Readers : reader'[s].it = reader[s].it
  BY <1>1
<1>3. \A k \in Items : Users(k, reader') = Users(k, reader)
  BY <1>2 DEF Users
<1>4. Detached'
  BY <1>1, <1>3 DEF Content, Detached, Referenced
<1>5. \A s \in Readers :
        IF reader'[s].it = NoItem THEN reader'[s].got = << >> /\ reader'[s].fd = NoInode
        ELSE ReaderContent(reader'[s], item[reg], path)
  BY <1>1, <1>2 DEF Content
<1> QED
  BY <1>1, <1>4, <1>5 DEF Content

\* A reader that opens no other file than that of the path.
LEMMA ReaderFiles ==
    ASSUME Structure, NewFilesEmpty, NEW r \in Readers, NEW rd \in ReaderType,
           reader' = [reader EXCEPT ![r] = rd], UNCHANGED <<path, data, item>>,
           rd.fd = reader[r].fd \/ reader[r].fd = NoInode
    PROVE  File' = File /\ NewFilesEmpty'
<1>1. reader \in [Readers -> ReaderType] /\ NoInode \notin Inodes
  BY TransferAssumption DEF Structure, Typed
<1>2. \A s \in Readers : reader[s].fd \in {reader'[s].fd, NoInode}
  BY <1>1
<1>3. OpenFiles \subseteq OpenFiles' \cup {NoInode}
  BY <1>2 DEF OpenFiles
<1>4. NewFilesEmpty'
  BY <1>1, <1>3 DEF NewFilesEmpty
<1> QED
  BY <1>4, FileKept

\* What sendfile() sends is checked and of the item's version.
LEMMA SentContent ==
    ASSUME NEW rd \in ReaderType, NEW it \in ItemType, NEW p, NEW f \in Seq(Versions), NEW h,
           ReaderContent(rd, it, p), ItemContent(it, p, f, h), rd.lim > Len(rd.got)
    PROVE  LET a == (IF rd.lim < Len(f) THEN rd.lim ELSE Len(f)) - Len(rd.got) IN
           /\ a = rd.lim - Len(rd.got) /\ a > 0 /\ a \in Nat /\ Len(rd.got) \in Nat
           /\ it.checked > 0
           /\ \A count \in 1..a :
                LET g == rd.got \o SubSeq(f, Len(rd.got) + 1, Len(rd.got) + count) IN
                /\ g \in Seq(Versions) /\ Len(g) = Len(rd.got) + count /\ Len(g) <= it.checked
                /\ OneVersion(g, it.date) /\ g # << >> /\ Len(g) <= rd.lim
<1> DEFINE m == Len(rd.got)
           a == (IF rd.lim < Len(f) THEN rd.lim ELSE Len(f)) - m
<1>1. rd.got \in Seq(Versions) /\ rd.lim \in Nat /\ m \in Nat /\ Len(f) \in Nat /\ it.checked \in Int
  BY LenProperties DEF ReaderType, ItemType
<1>2. rd.lim > 0 /\ rd.lim <= it.checked
  BY <1>1 DEF ReaderContent
<1>3. it.checked > 0 /\ it.checked <= Len(f) /\ \A k \in 1..it.checked : f[k] = it.date
  BY <1>1, <1>2 DEF ItemContent
<1>4. a = rd.lim - m /\ a > 0 /\ a \in Nat
  BY <1>1, <1>2, <1>3
<1>5. ASSUME NEW count \in 1..a
      PROVE  LET g == rd.got \o SubSeq(f, m + 1, m + count) IN
             /\ g \in Seq(Versions) /\ Len(g) = m + count /\ Len(g) <= it.checked
             /\ OneVersion(g, it.date) /\ g # << >> /\ Len(g) <= rd.lim
  <2> DEFINE s == SubSeq(f, m + 1, m + count)
             g == rd.got \o s
  <2>1. count \in Nat /\ count >= 1 /\ m + count <= rd.lim /\ m + count <= it.checked
        /\ m + count <= Len(f)
    BY <1>1, <1>2, <1>3, <1>4
  <2>2. /\ s \in Seq(Versions) /\ Len(s) = count
        /\ \A k \in 1..count : s[k] = f[m + k]
    <3>1. m + 1 \in 1..(Len(f) + 1) /\ m + count \in m..Len(f)
      BY <1>1, <2>1
    <3> QED
      BY <1>1, <2>1, <3>1, SubSeqProperties
  <2> HIDE DEF s
  <2>3. /\ g \in Seq(Versions) /\ Len(g) = m + count
        /\ \A k \in 1..(m + count) : g[k] = IF k <= m THEN rd.got[k] ELSE s[k - m]
    BY <1>1, <2>1, <2>2, ConcatProperties
  <2> HIDE DEF g
  <2>4. ASSUME NEW k \in 1..Len(g) PROVE g[k] = it.date
    <3>1. CASE k <= m
      <4>1. k \in 1..m /\ g[k] = rd.got[k]
        BY <1>1, <2>1, <2>3, <3>1
      <4> QED
        BY <4>1 DEF ReaderContent, OneVersion
    <3>2. CASE ~(k <= m)
      <4>1. k - m \in 1..count /\ g[k] = s[k - m] /\ m + (k - m) = k /\ k \in 1..it.checked
        BY <1>1, <2>1, <2>3, <3>2
      <4> QED
        BY <1>3, <2>2, <4>1
    <3> QED
      BY <3>1, <3>2
  <2>5. OneVersion(g, it.date)
    BY <2>4 DEF OneVersion
  <2>6. g # << >>
    BY <1>1, <2>1, <2>3
  <2> QED
    BY <2>1, <2>3, <2>5, <2>6 DEF g, s
<1> QED
  BY <1>1, <1>3, <1>4, <1>5

\* What holds when a reader that has an item does something.
LEMMA ReaderContext ==
    ASSUME Structure, Content, ~suspect, NEW r \in Readers,
           reader[r].pc \notin {"idle", "closing"}
    PROVE  /\ reader[r] \in ReaderType /\ reader \in [Readers -> ReaderType] /\ Typed
           /\ reader[r].it = reg /\ reg \in Items /\ item[reg] \in ItemType /\ ItemInv(item[reg])
           /\ ReaderContent(reader[r], item[reg], path)
           /\ ItemContent(item[reg], path, File, head) /\ NewFilesEmpty
           /\ reader[r].pc \in {"send", "sendfile", "chunk", "chunkdata"} =>
                /\ reader[r].mode # "none"
                /\ item[reg].status <= FIST_COMPLETE => item[reg].checked >= 0
           /\ reader[r].pc = "chunkdata" => reader[r].fd # NoInode
<1>1. reader[r] \in ReaderType /\ reader \in [Readers -> ReaderType] /\ Typed /\ ReaderShape(r)
      /\ Follows(r) /\ NoItem \notin Items
  BY TransferAssumption DEF Structure, Typed
<1>2. reader[r].it # NoItem /\ reader[r].it = reg /\ reg \in Items
  BY <1>1 DEF ReaderShape, ReaderType
<1>3. item[reg] \in ItemType /\ ItemInv(item[reg])
  BY <1>1, <1>2 DEF Structure, Typed
<1>4. /\ ReaderContent(reader[r], item[reg], path) /\ NewFilesEmpty
      /\ ItemContent(item[reg], path, File, head)
  BY <1>1, <1>2 DEF Content
<1>5. /\ reader[r].pc \in {"send", "sendfile", "chunk", "chunkdata"} =>
           /\ reader[r].mode # "none"
           /\ item[reg].status <= FIST_COMPLETE => item[reg].checked >= 0
      /\ reader[r].pc = "chunkdata" => reader[r].fd # NoInode
  BY <1>1, <1>2 DEF ReaderShape, Follows
<1> QED
  BY <1>1, <1>2, <1>3, <1>4, <1>5

\* Nothing was sent yet and nothing will be.
LEMMA ErrorReaderContent ==
    ASSUME Structure, Content, ~suspect', NEW r \in Readers, AddJobFail(r) \/ AwaitError(r)
    PROVE  Content'
<1> DEFINE rd == [reader[r] EXCEPT !.pc = "err"]
<1>1. /\ reader' = [reader EXCEPT ![r] = rd] /\ UNCHANGED <<path, data, item>> /\ ~suspect
      /\ reader[r].pc \in {"add", "await"}
  BY DEF AddJobFail, AwaitError, diskvars
<1>2. /\ reader[r] \in ReaderType /\ reader \in [Readers -> ReaderType]
      /\ ReaderContent(reader[r], item[reg], path) /\ NewFilesEmpty
  BY <1>1, ReaderContext
<1>3. ReaderMoves(r, reader'[r])
  BY ReaderActions
<1>4. /\ rd \in ReaderType /\ rd.pc = "err" /\ rd.it = reader[r].it /\ rd.mode = reader[r].mode
      /\ rd.lim = reader[r].lim /\ rd.fd = reader[r].fd /\ rd.got = reader[r].got
  BY <1>2 DEF ReaderType
<1> HIDE DEF rd
<1>5. reader'[r] = rd
  BY <1>1, <1>2
<1>6. File' = File /\ NewFilesEmpty'
  BY <1>1, <1>2, <1>4, ReaderFiles
<1>7. ReaderContent(rd, item[reg], path)
  BY <1>2, <1>4 DEF ReaderContent
<1> QED
  BY <1>1, <1>3, <1>5, <1>6, <1>7, ReaderMovesContent

\* The response header: nothing was sent yet.
LEMMA CookResponseHeaderContent ==
    ASSUME Structure, Content, ~suspect', NEW r \in Readers, CookResponseHeader(r)
    PROVE  Content'
<1> DEFINE it == item[reader[r].it]
           rd == Response(reader[r], it)
<1>1. /\ reader' = [reader EXCEPT ![r] = rd] /\ UNCHANGED <<path, data, item>> /\ ~suspect
      /\ reader[r].pc = "await"
  BY DEF CookResponseHeader, diskvars
<1>2. /\ reader[r] \in ReaderType /\ reader \in [Readers -> ReaderType]
      /\ ReaderContent(reader[r], item[reg], path) /\ NewFilesEmpty
      /\ it \in ItemType
  BY <1>1, ReaderContext
<1>3. ReaderMoves(r, reader'[r])
  BY ReaderActions
<1>4. /\ rd \in ReaderType /\ rd.it = reader[r].it
      /\ rd.lim = reader[r].lim /\ rd.fd = reader[r].fd /\ rd.got = reader[r].got
      /\ \/ rd.pc = "err" /\ rd.mode = reader[r].mode
         \/ rd.pc = "chunk" /\ rd.mode = "chunked"
         \/ rd.pc = "send" /\ rd.mode = "plain"
  <2>1. CASE ~it.good
    <3>1. rd = [reader[r] EXCEPT !.pc = "err"]
      BY <2>1 DEF Response
    <3> QED
      BY <1>2, <3>1 DEF ReaderType
  <2>2. CASE it.good /\ it.clen < 0 /\ it.status = FIST_DLRECEIVING
    <3>1. rd = [reader[r] EXCEPT !.pc = "chunk", !.mode = "chunked"]
      BY <2>2 DEF Response
    <3> QED
      BY <1>2, <3>1 DEF ReaderType
  <2>3. CASE it.good /\ ~(it.clen < 0 /\ it.status = FIST_DLRECEIVING)
    <3>1. rd = [reader[r] EXCEPT !.pc = "send", !.mode = "plain", !.ann = it.clen]
      BY <2>3 DEF Response
    <3> QED
      BY <1>2, <3>1 DEF ReaderType, ItemType
  <2> QED
    BY <2>1, <2>2, <2>3
<1> HIDE DEF rd
<1>5. reader'[r] = rd
  BY <1>1, <1>2
<1>6. File' = File /\ NewFilesEmpty'
  BY <1>1, <1>2, <1>4, ReaderFiles
<1>7. ReaderContent(rd, item[reg], path)
  <2>1. reader[r].mode = "none" /\ reader[r].got = << >> /\ reader[r].fd = NoInode
    BY <1>1, <1>2 DEF ReaderContent
  <2>2. OneVersion(rd.got, item[reg].date)
    BY <1>2, <1>4 DEF ReaderContent
  <2> QED
    BY <1>1, <1>2, <1>4, <2>1, <2>2 DEF ReaderContent
<1> QED
  BY <1>1, <1>3, <1>5, <1>6, <1>7, ReaderMovesContent

\* STATE_SEND_DATA: the checked size is the limit.
LEMMA SendCheckContent ==
    ASSUME Structure, Content, ~suspect', NEW r \in Readers, SendCheck(r)
    PROVE  Content'
<1> DEFINE it == item[reader[r].it]
           fin == (it.status = FIST_COMPLETE)
           lim == it.checked
           rd == [reader[r] EXCEPT !.pc = "sendfile", !.lim = lim, !.final = fin]
<1>1. /\ UNCHANGED <<path, data, item>> /\ ~suspect
      /\ reader[r].pc = "send" /\ it.checked > Len(reader[r].got)
  BY DEF SendCheck, diskvars, Pos
<1>2. /\ reader[r] \in ReaderType /\ reader \in [Readers -> ReaderType]
      /\ ReaderContent(reader[r], item[reg], path) /\ NewFilesEmpty
      /\ it \in ItemType /\ it = item[reg]
  BY <1>1, ReaderContext
<1>3. ReaderMoves(r, reader'[r])
  BY ReaderActions
<1>4. reader' = [reader EXCEPT ![r] = rd]
  BY <1>2 DEF SendCheck
<1>5. fin \in BOOLEAN /\ lim \in Nat /\ lim > 0 /\ lim > Len(reader[r].got)
  BY <1>1, <1>2, LenProperties DEF ItemType, ReaderType
<1>6. lim = it.checked
  OBVIOUS
<1> HIDE DEF fin, lim
<1>7. /\ rd \in ReaderType /\ rd.pc = "sendfile" /\ rd.it = reader[r].it
      /\ rd.mode = reader[r].mode
      /\ rd.lim = lim /\ rd.fd = reader[r].fd /\ rd.got = reader[r].got
  BY <1>2, <1>5 DEF ReaderType
<1> HIDE DEF rd
<1>8. reader'[r] = rd
  BY <1>2, <1>4
<1>9. File' = File /\ NewFilesEmpty'
  BY <1>1, <1>2, <1>4, <1>7, ReaderFiles
<1>10. ReaderContent(rd, item[reg], path)
  <2>1. lim <= it.checked
    BY <1>5, <1>6
  <2> QED
    BY <1>1, <1>2, <1>5, <1>6, <1>7, <2>1 DEF ReaderContent
<1> QED
  BY <1>1, <1>3, <1>8, <1>9, <1>10, ReaderMovesContent

\* The last chunk was sent: the item is complete, and so is what was sent.
LEMMA ChunkEndContent ==
    ASSUME Structure, Content, ~suspect', NEW r \in Readers, ChunkEnd(r)
    PROVE  Content'
<1> DEFINE it == item[reader[r].it]
           rd == [reader[r] EXCEPT !.pc = "ok"]
<1>1. /\ reader' = [reader EXCEPT ![r] = rd] /\ UNCHANGED <<path, data, item>> /\ ~suspect
      /\ reader[r].pc = "chunk" /\ it.checked = Len(reader[r].got) /\ it.status = FIST_COMPLETE
  BY DEF ChunkEnd, diskvars, Pos
<1>2. /\ reader[r] \in ReaderType /\ reader \in [Readers -> ReaderType]
      /\ ReaderContent(reader[r], item[reg], path) /\ NewFilesEmpty
      /\ it \in ItemType /\ it = item[reg] /\ ItemInv(it) /\ reader[r].mode # "none"
      /\ ItemContent(it, path, File, head) /\ it.checked >= 0
  BY <1>1, ReaderContext
<1>3. ReaderMoves(r, reader'[r])
  BY ReaderActions
<1>4. it.date # NoDate /\ it.checked = Lengths[it.date]
  <2>1. it.clen = it.checked /\ it.clen >= 0
    BY <1>1, <1>2 DEF ItemInv
  <2> QED
    BY <1>2, <2>1 DEF ItemInv, ItemContent
<1>5. /\ rd \in ReaderType /\ rd.pc = "ok" /\ rd.it = reader[r].it /\ rd.mode = reader[r].mode
      /\ rd.lim = reader[r].lim /\ rd.fd = reader[r].fd /\ rd.got = reader[r].got
  BY <1>2 DEF ReaderType
<1> HIDE DEF rd
<1>6. reader'[r] = rd
  BY <1>1, <1>2
<1>7. File' = File /\ NewFilesEmpty'
  BY <1>1, <1>2, <1>5, ReaderFiles
<1>8. ReaderContent(rd, item[reg], path)
  BY <1>1, <1>2, <1>4, <1>5 DEF ReaderContent
<1> QED
  BY <1>1, <1>3, <1>6, <1>7, <1>8, ReaderMovesContent

\* STATE_SEND_CHUNK_HEADER: the checked size is the limit.
LEMMA ChunkHeaderContent ==
    ASSUME Structure, Content, ~suspect', NEW r \in Readers, ChunkHeader(r)
    PROVE  Content'
<1> DEFINE it == item[reader[r].it]
           lim == it.checked
           rd == [reader[r] EXCEPT !.pc = "chunkdata", !.lim = lim, !.fd = path]
<1>1. /\ UNCHANGED <<path, item>> /\ data' = Reachable /\ ~suspect /\ path # NoInode
      /\ reader[r].pc = "chunk" /\ it.checked # Len(reader[r].got)
      /\ it.status <= FIST_COMPLETE
  BY DEF ChunkHeader, Pos
<1>2. /\ reader[r] \in ReaderType /\ reader \in [Readers -> ReaderType] /\ Typed
      /\ ReaderContent(reader[r], item[reg], path)
      /\ it \in ItemType /\ it = item[reg] /\ it.checked >= 0 /\ reader[r].mode # "none"
  BY <1>1, ReaderContext
<1>3. ReaderMoves(r, reader'[r])
  BY ReaderActions
<1>4. reader' = [reader EXCEPT ![r] = rd]
  BY <1>2 DEF ChunkHeader
<1>5. lim \in Nat /\ lim > 0 /\ lim > Len(reader[r].got) /\ path \in Inodes \cup {NoInode}
  <2>1. /\ reader[r].got \in Seq(Versions) /\ Len(reader[r].got) \in Nat
        /\ Len(reader[r].got) = 0 <=> reader[r].got = << >>
    BY <1>2, LenOfEmpty DEF ReaderType
  <2>2. Len(reader[r].got) <= it.checked
    BY <1>2, <2>1 DEF ReaderContent
  <2> QED
    BY <1>1, <1>2, <2>1, <2>2 DEF ItemType, Typed
<1>6. lim = it.checked
  OBVIOUS
<1> HIDE DEF lim
<1>7. /\ rd \in ReaderType /\ rd.pc = "chunkdata" /\ rd.it = reader[r].it
      /\ rd.mode = reader[r].mode
      /\ rd.lim = lim /\ rd.fd = path /\ rd.got = reader[r].got
  BY <1>2, <1>5 DEF ReaderType
<1> HIDE DEF rd
<1>8. reader'[r] = rd
  BY <1>2, <1>4
<1>9. File' = File /\ NewFilesEmpty'
  BY <1>1, <1>2, FileReachable
<1>10. ReaderContent(rd, item[reg], path)
  <2>1. lim <= it.checked
    BY <1>5, <1>6
  <2> QED
    BY <1>1, <1>2, <1>5, <1>6, <1>7, <2>1 DEF ReaderContent
<1> QED
  BY <1>1, <1>3, <1>8, <1>9, <1>10, ReaderMovesContent

\* sendfile() for a reader that found data to send, from the file of the path.
LEMMA SendingContext ==
    ASSUME Structure, Content, ~suspect, NEW r \in Readers,
           reader[r].pc \in {"sendfile", "chunkdata"}
    PROVE  /\ SourceFile(r) = path /\ path # NoInode /\ File = data[path]
           /\ reader[r].pc = "chunkdata" => reader[r].fd = path
           /\ Available(r, path) = reader[r].lim - Pos(r) /\ Available(r, path) > 0
           /\ Pos(r) \in Nat
           /\ \A count \in Counts(r, path) :
                LET g == reader[r].got \o SubSeq(data[path], Pos(r) + 1, Pos(r) + count) IN
                /\ g \in Seq(Versions) /\ Len(g) = Pos(r) + count /\ Len(g) <= item[reg].checked
                /\ OneVersion(g, item[reg].date) /\ g # << >> /\ Len(g) <= reader[r].lim
<1> DEFINE rd == reader[r]
           it == item[reg]
           a == (IF rd.lim < Len(File) THEN rd.lim ELSE Len(File)) - Len(rd.got)
<1>1. /\ rd \in ReaderType /\ it \in ItemType /\ Typed /\ ReaderContent(rd, it, path)
      /\ ItemContent(it, path, File, head) /\ (rd.pc = "chunkdata" => rd.fd # NoInode)
  BY ReaderContext
<1>2. rd.lim > Len(rd.got)
  BY <1>1 DEF ReaderContent
<1>3. File \in Seq(Versions) /\ Len(File) \in Nat
  BY <1>1, FileType
<1>4. /\ a = rd.lim - Len(rd.got) /\ a > 0 /\ a \in Nat /\ Len(rd.got) \in Nat
      /\ it.checked > 0
      /\ \A count \in 1..a :
           LET g == rd.got \o SubSeq(File, Len(rd.got) + 1, Len(rd.got) + count) IN
           /\ g \in Seq(Versions) /\ Len(g) = Len(rd.got) + count /\ Len(g) <= it.checked
           /\ OneVersion(g, it.date) /\ g # << >> /\ Len(g) <= rd.lim
  BY <1>1, <1>2, <1>3, SentContent
<1>5. Len(File) > 0
  BY <1>1, <1>3, <1>4 DEF ItemContent, ItemType
<1>6. path # NoInode /\ File = data[path]
  BY <1>1, <1>5, FileType
<1>7. /\ rd.fd # NoInode => rd.fd = path
      /\ SourceFile(r) = path
  BY <1>1 DEF ReaderContent, SourceFile
<1>8. Available(r, path) = a /\ Counts(r, path) = 1..a /\ Pos(r) = Len(rd.got)
  BY <1>4, <1>6 DEF Available, Counts, Pos
<1> HIDE DEF a
<1> QED
  BY <1>1, <1>4, <1>6, <1>7, <1>8

\* STATE_SEND_DATA: some of the blocks below the limit.
LEMMA SendFileContent ==
    ASSUME Structure, Content, ~suspect', NEW r \in Readers, SendFile(r)
    PROVE  Content'
<1>1. /\ UNCHANGED <<path, data, item>> /\ ~suspect /\ reader[r].pc = "sendfile"
  BY DEF SendFile, diskvars
<1>2. /\ reader[r] \in ReaderType /\ reader \in [Readers -> ReaderType]
      /\ ReaderContent(reader[r], item[reg], path) /\ NewFilesEmpty
      /\ item[reg] \in ItemType
  BY <1>1, ReaderContext
<1>3. ReaderMoves(r, reader'[r])
  BY ReaderActions
<1>4. SourceFile(r) = path /\ path # NoInode
  BY <1>1, SendingContext
<1>5. PICK count \in Counts(r, path) :
        reader' = [reader EXCEPT ![r] =
          [Sent(r, path, count) EXCEPT
             !.pc = IF reader[r].final /\ Pos(r) + count = reader[r].lim THEN "ok" ELSE "send",
             !.lim = 0, !.final = FALSE]]
  BY <1>4 DEF SendFile
<1> DEFINE g == reader[r].got \o SubSeq(data[path], Pos(r) + 1, Pos(r) + count)
           pc == IF reader[r].final /\ Pos(r) + count = reader[r].lim THEN "ok" ELSE "send"
           rd == [reader[r] EXCEPT !.fd = path, !.got = g, !.pc = pc, !.lim = 0, !.final = FALSE]
<1>6. /\ g \in Seq(Versions) /\ Len(g) <= item[reg].checked /\ g # << >>
      /\ OneVersion(g, item[reg].date) /\ Len(g) \in Nat /\ Len(g) > 0
  <2>1. /\ g \in Seq(Versions) /\ Len(g) <= item[reg].checked /\ g # << >>
        /\ OneVersion(g, item[reg].date)
    BY <1>1, <1>5, SendingContext
  <2> HIDE DEF g
  <2> QED
    BY <2>1, LenOfEmpty
<1>7. reader' = [reader EXCEPT ![r] = rd] /\ pc \in {"ok", "send"}
  <2>1. Sent(r, path, count) = [reader[r] EXCEPT !.fd = path, !.got = g]
    BY DEF Sent, Pos
  <2> QED
    BY <1>2, <1>5, <2>1 DEF ReaderType
<1>8. path \in Inodes \cup {NoInode}
  BY DEF Structure, Typed
<1> HIDE DEF g, pc
<1>9. /\ rd \in ReaderType /\ rd.pc = pc /\ rd.it = reader[r].it /\ rd.mode = reader[r].mode
      /\ rd.lim = 0 /\ rd.fd = path /\ rd.got = g
  BY <1>2, <1>6, <1>7, <1>8 DEF ReaderType
<1> HIDE DEF rd
<1>10. reader'[r] = rd
  BY <1>2, <1>7
<1>11. reader[r].fd = NoInode \/ reader[r].fd = path
  BY <1>2 DEF ReaderContent
<1>12. File' = File /\ NewFilesEmpty'
  BY <1>1, <1>2, <1>7, <1>9, <1>11, ReaderFiles
<1>13. ReaderContent(rd, item[reg], path)
  <2>1. rd.mode = "plain"
    BY <1>1, <1>2, <1>9 DEF ReaderContent
  <2>2. item[reg].checked > 0
    BY <1>2, <1>6 DEF ItemType
  <2> QED
    BY <1>6, <1>7, <1>9, <2>1, <2>2 DEF ReaderContent
<1> QED
  BY <1>1, <1>3, <1>10, <1>12, <1>13, ReaderMovesContent

\* STATE_SEND_CHUNK_DATA: some of the blocks below the limit.
LEMMA ChunkDataContent ==
    ASSUME Structure, Content, ~suspect', NEW r \in Readers, ChunkData(r)
    PROVE  Content'
<1>1. /\ UNCHANGED <<path, data, item>> /\ ~suspect /\ reader[r].pc = "chunkdata"
  BY DEF ChunkData, diskvars
<1>2. /\ reader[r] \in ReaderType /\ reader \in [Readers -> ReaderType]
      /\ ReaderContent(reader[r], item[reg], path) /\ NewFilesEmpty
      /\ item[reg] \in ItemType /\ reader[r].mode # "none"
  BY <1>1, ReaderContext
<1>3. ReaderMoves(r, reader'[r])
  BY ReaderActions
<1>4. reader[r].fd = path /\ path # NoInode
  BY <1>1, SendingContext
<1>5. PICK count \in Counts(r, path) :
        reader' = [reader EXCEPT ![r] =
          [Sent(r, path, count) EXCEPT
             !.pc = IF Pos(r) + count = reader[r].lim THEN "chunk" ELSE "chunkdata",
             !.lim = IF Pos(r) + count = reader[r].lim THEN 0 ELSE @]]
  BY <1>4 DEF ChunkData
<1> DEFINE g == reader[r].got \o SubSeq(data[path], Pos(r) + 1, Pos(r) + count)
           all == Pos(r) + count = reader[r].lim
           pc == IF all THEN "chunk" ELSE "chunkdata"
           lim == IF all THEN 0 ELSE reader[r].lim
           rd == [reader[r] EXCEPT !.fd = path, !.got = g, !.pc = pc, !.lim = lim]
<1>6. /\ g \in Seq(Versions) /\ Len(g) <= item[reg].checked /\ g # << >>
      /\ OneVersion(g, item[reg].date) /\ Len(g) \in Nat /\ Len(g) > 0
      /\ Len(g) <= reader[r].lim /\ Len(g) = Pos(r) + count
  <2>1. /\ g \in Seq(Versions) /\ Len(g) <= item[reg].checked /\ g # << >>
        /\ OneVersion(g, item[reg].date) /\ Len(g) <= reader[r].lim /\ Len(g) = Pos(r) + count
    BY <1>1, <1>5, SendingContext
  <2> HIDE DEF g
  <2> QED
    BY <2>1, LenOfEmpty
<1>7. reader' = [reader EXCEPT ![r] = rd]
  <2>1. Sent(r, path, count) = [reader[r] EXCEPT !.fd = path, !.got = g]
    BY DEF Sent, Pos
  <2>2. [Sent(r, path, count) EXCEPT
             !.pc = IF Pos(r) + count = reader[r].lim THEN "chunk" ELSE "chunkdata",
             !.lim = IF Pos(r) + count = reader[r].lim THEN 0 ELSE @] = rd
    BY <1>2, <2>1 DEF ReaderType
  <2> QED
    BY <1>5, <2>2
<1>8. path \in Inodes \cup {NoInode}
  BY DEF Structure, Typed
<1>9. /\ lim \in Nat /\ lim <= reader[r].lim /\ pc \in {"chunk", "chunkdata"}
      /\ pc = "chunkdata" => lim > Len(g)
  <2>1. reader[r].lim \in Nat
    BY <1>2 DEF ReaderType
  <2> HIDE DEF g
  <2> QED
    BY <1>6, <2>1
<1> HIDE DEF g, pc, lim
<1>10. /\ rd \in ReaderType /\ rd.pc = pc /\ rd.it = reader[r].it /\ rd.mode = reader[r].mode
      /\ rd.lim = lim /\ rd.fd = path /\ rd.got = g
  BY <1>2, <1>6, <1>8, <1>9 DEF ReaderType
<1> HIDE DEF rd
<1>11. reader'[r] = rd
  BY <1>2, <1>7
<1>12. File' = File /\ NewFilesEmpty'
  BY <1>1, <1>2, <1>4, <1>7, <1>10, ReaderFiles
<1>13. ReaderContent(rd, item[reg], path)
  <2>1. item[reg].checked > 0 /\ item[reg].checked \in Int /\ reader[r].lim \in Nat
    BY <1>2, <1>6 DEF ItemType, ReaderType
  <2>2. lim > 0 => lim <= item[reg].checked
    BY <1>2, <1>9, <2>1 DEF ReaderContent
  <2> QED
    BY <1>2, <1>6, <1>9, <1>10, <2>1, <2>2 DEF ReaderContent
<1> QED
  BY <1>1, <1>3, <1>11, <1>12, <1>13, ReaderMovesContent

-----------------------------------------------------------------------------
(* The other steps preserve the content *)

\* ~Impl of a connection ends its downloader.
LEMMA CloseContent ==
    ASSUME Structure, Content, ~suspect', NEW r \in Readers, Close(r)
    PROVE  Content'
<1> DEFINE i == job[r].it
           rd == [reader[r] EXCEPT !.pc = "idle"]
<1>1. /\ job[r] \in JobType /\ reader[r] \in ReaderType /\ reader \in [Readers -> ReaderType]
      /\ job \in [Readers -> JobType] /\ item \in [Items -> ItemType] /\ Typed
  BY DEF Structure, Typed
<1>2. /\ ~suspect /\ path' = path /\ head' = head /\ data' = Reachable /\ reg' = reg
      /\ reader[r].pc = "closing" /\ reader' = [reader EXCEPT ![r] = rd]
  BY <1>1 DEF Close
<1>3. /\ rd \in ReaderType /\ rd.it = reader[r].it /\ rd.got = reader[r].got
      /\ rd.fd = reader[r].fd /\ reader[r].it = NoItem
  BY <1>1, <1>2 DEF ReaderType, Structure, ReaderShape
<1>4. /\ reader'[r] = rd /\ reader' \in [Readers -> ReaderType]
      /\ \A s \in Readers : s # r => reader'[s] = reader[s]
  BY <1>1, <1>2, <1>3
<1>5. CASE i # NoItem
  <2>1. i \in Items /\ job[r].pc # "none"
    BY <1>1, <1>5, NoJobType DEF JobType, Structure, JobShape
  <2>2. /\ item[i] \in ItemType /\ ItemInv(item[i])
    BY <2>1, JobContext
  <2>3. JobEnds(r, item[i])
    BY <1>2, <1>4, <1>5, <2>1, <2>2 DEF JobEnds, Close
  <2>4. /\ DiskContent(File, head') /\ (i = reg => ItemContent(item[i], path, File, head'))
        /\ reg # NoItem => ItemContent(item[reg], path, File, head')
    BY <1>2, <1>5 DEF Content
  <2> QED
    BY <1>2, <2>2, <2>3, <2>4, JobEndsContent
<1>6. CASE i = NoItem
  <2>1. job[r] = NoJob
    BY <1>1, <1>6, TransferAssumption DEF Structure, JobShape
  <2>2. job' = job /\ item' = item
    BY <1>1, <1>6, <2>1 DEF Close
  <2>3. \A s \in Readers : reader'[s].it = reader[s].it
    BY <1>3, <1>4
  <2>4. \A k \in Items : Users(k, reader') = Users(k, reader)
    BY <2>3 DEF Users
  <2>5. Detached'
    BY <1>2, <2>2, <2>4 DEF Content, Detached, Referenced
  <2>6. File' = File /\ NewFilesEmpty'
    BY <1>1, <1>2, FileReachable
  <2>7. \A s \in Readers :
          IF reader'[s].it = NoItem THEN reader'[s].got = << >> /\ reader'[s].fd = NoInode
          ELSE ReaderContent(reader'[s], item[reg], path)
    BY <1>2, <1>3, <1>4 DEF Content
  <2> QED
    BY <1>2, <2>2, <2>5, <2>6, <2>7 DEF Content
<1> QED
  BY <1>5, <1>6

\* The holder is gone: if it was the last, the item is not the path's any more.
LEMMA LeaveContent ==
    ASSUME Structure, Content, ~suspect', NEW r \in Readers, NEW closed \in BOOLEAN,
           Leave(r, closed), reader[r].pc \notin {"idle", "closing"}
    PROVE  Content'
<1> DEFINE i == reader[r].it
           it == item[i]
           last == Users(i, reader) = {r}
           gone == ~Referenced(i, reg', reader', job')
           n == IF gone THEN FreeItem ELSE IF last THEN Stopped(it) ELSE it
           rd == [IdleReader EXCEPT !.pc = IF closed /\ job[r].pc # "none" THEN "closing" ELSE "idle"]
<1>0. /\ item \in [Items -> ItemType] /\ reader \in [Readers -> ReaderType] /\ Typed
      /\ i \in Items /\ i = reg /\ NoItem \notin Items /\ it \in ItemType /\ ItemInv(it)
      /\ reader[r].it # NoItem
  <2>1. ~suspect
    BY DEF Leave
  <2>2. reader[r].it = reg /\ reg \in Items /\ item[reg] \in ItemType /\ ItemInv(item[reg])
    BY <2>1, ReaderContext
  <2> QED
    BY <2>2, TransferAssumption DEF Structure, Typed
<1>1. rd.it = NoItem /\ rd.fd = NoInode /\ rd.got = << >>
  <2> DEFINE c == IdleReader
             pc == IF closed /\ job[r].pc # "none" THEN "closing" ELSE "idle"
  <2>1. rd = [c EXCEPT !.pc = pc] /\ pc \in {"idle", "closing"}
    OBVIOUS
  <2>2. c \in ReaderType /\ c.it = NoItem /\ c.fd = NoInode /\ c.got = << >>
    BY IdleReaderType
  <2> HIDE DEF c, pc, rd
  <2> QED
    BY <2>1, <2>2 DEF ReaderType
<1>2. /\ reader' = [reader EXCEPT ![r] = rd]
      /\ reg' = (IF last THEN NoItem ELSE reg)
      /\ item' = [item EXCEPT ![i] = n]
      /\ UNCHANGED <<upstream, path, head, job, suspect>> /\ data' = Reachable
  BY <1>0 DEF Leave
<1> HIDE DEF rd
<1>3. (\A s \in Readers : s # r => reader'[s] = reader[s]) /\ reader'[r] = rd
  BY <1>0, <1>2
<1>4. File' = File /\ NewFilesEmpty' /\ ~suspect
  BY <1>0, <1>2, FileReachable
<1>5. \A k \in Items : Users(k, reader') \subseteq Users(k, reader)
  BY <1>0, <1>1, <1>3 DEF Users
<1>6. /\ ~last => ~gone /\ n = it
      /\ last /\ ~gone => n.status >= FIST_COMPLETE
  <2>1. ~last => ~gone
    BY <1>0, <1>2 DEF Referenced
  <2>2. Stopped(it).status >= FIST_COMPLETE
    <3>1. Stopped(it).status = (IF it.status < FIST_COMPLETE THEN FIST_DLSTOP ELSE it.status)
      BY <1>0, StoppedFields
    <3> QED
      BY <1>0, <3>1 DEF ItemType, FiStatus
  <2> QED
    BY <2>1, <2>2
<1>7. item'[i] = n /\ \A k \in Items : k # i => item'[k] = item[k]
  BY <1>0, <1>2
<1> HIDE DEF n
<1>8. ASSUME NEW k \in Items, k # reg', Referenced(k, reg', reader', job')
      PROVE  item'[k].status >= FIST_COMPLETE
  <2>1. CASE k # i
    <3>1. Referenced(k, reg, reader, job)
      BY <1>2, <1>5, <1>8 DEF Referenced
    <3>2. item[k].status >= FIST_COMPLETE
      BY <1>0, <1>4, <2>1, <3>1 DEF Content, Detached
    <3> QED
      BY <1>7, <2>1, <3>2
  <2>2. CASE k = i
    BY <1>0, <1>2, <1>6, <1>7, <1>8, <2>2
  <2> QED
    BY <2>1, <2>2
<1>9. Detached'
  BY <1>8 DEF Detached
<1>10. CASE last
  <2>1. reg' = NoItem
    BY <1>2, <1>10
  <2>2. \A s \in Readers : s # r => reader[s].it = NoItem
    BY <1>0, <1>10 DEF Users, Structure, ReaderShape
  <2>3. \A s \in Readers : reader'[s].it = NoItem /\ reader'[s].got = << >> /\ reader'[s].fd = NoInode
    BY <1>1, <1>3, <1>4, <2>2 DEF Content
  <2> QED
    BY <1>2, <1>4, <1>9, <2>1, <2>3 DEF Content
<1>11. CASE ~last
  <2>1. reg' = reg /\ item' = item
    BY <1>0, <1>2, <1>6, <1>11
  <2>2. \A s \in Readers :
          IF reader'[s].it = NoItem THEN reader'[s].got = << >> /\ reader'[s].fd = NoInode
          ELSE ReaderContent(reader'[s], item[reg], path)
    BY <1>1, <1>3, <1>4 DEF Content
  <2> QED
    BY <1>2, <1>4, <1>9, <2>1, <2>2 DEF Content
<1> QED
  BY <1>10, <1>11

\* fileitem_with_storage::Setup takes over what the disk has.
LEMMA AfterSetupContent ==
    ASSUME Structure, DiskContent(File, head), NEW it \in ItemType, it = FreeItem
    PROVE  ItemContent(AfterSetup(it), path, File, head)
<1> DEFINE s == AfterSetup(it)
<1>0. Typed /\ HeadInv
  BY DEF Structure
<1>1. /\ s \in ItemType /\ s.fd = NoInode
      /\ \/ /\ s.status = FIST_INITED /\ s.cached = -1 /\ s.checked = -1
            /\ s.clen = -1 /\ s.replace
         \/ /\ s.status = FIST_INITED /\ s.cached = SizeOnDisk /\ s.checked = -1
            /\ s.clen = head.len /\ s.date = head.date /\ s.vol /\ ~s.replace
         \/ /\ s.status = FIST_COMPLETE /\ s.cached = SizeOnDisk
            /\ s.checked = SizeOnDisk /\ s.clen = SizeOnDisk /\ head.len = SizeOnDisk
            /\ head.len >= 0 /\ s.date = head.date
  BY <1>0, AfterSetupFields
<1> HIDE DEF s
<1>2. SizeOnDisk \in Int /\ (SizeOnDisk >= 0 => path # NoInode /\ SizeOnDisk = Len(File))
  <2>1. path = NoInode => SizeOnDisk = -1
    BY DEF SizeOnDisk
  <2>2. path # NoInode => SizeOnDisk = Len(File) /\ Len(File) \in Nat
    BY <1>0, FileType
  <2> QED
    BY <2>1, <2>2
<1>3. head.len >= 0 => head.date # NoDate /\ head.len = Lengths[head.date] /\ OneVersion(File, head.date)
  BY <1>0 DEF HeadInv, DiskContent, Typed, HeadType
<1>4. ItemContent(s, path, File, head)
  <2>1. CASE s.status = FIST_INITED /\ s.cached = -1 /\ s.checked = -1 /\ s.clen = -1 /\ s.replace
    BY <1>1, <2>1 DEF ItemContent
  <2>2. CASE /\ s.status = FIST_INITED /\ s.cached = SizeOnDisk /\ s.checked = -1
             /\ s.clen = head.len /\ s.date = head.date /\ s.vol /\ ~s.replace
    BY <1>1, <1>2, <1>3, <2>2 DEF ItemContent, DiskContent
  <2>3. CASE /\ s.status = FIST_COMPLETE /\ s.cached = SizeOnDisk
             /\ s.checked = SizeOnDisk /\ s.clen = SizeOnDisk /\ head.len = SizeOnDisk
             /\ head.len >= 0 /\ s.date = head.date
    <3>1. s.checked = Len(File) /\ s.date # NoDate /\ s.checked = Lengths[s.date]
          /\ OneVersion(File, s.date) /\ s.checked \in Int
      BY <1>2, <1>3, <2>3
    <3> QED
      BY <1>1, <2>3, <3>1 DEF ItemContent, OneVersion
  <2> QED
    BY <1>1, <2>1, <2>2, <2>3
<1> QED
  BY <1>4 DEF s

\* job::Prepare: Setup of a new item takes over what the disk has.
LEMMA PrepareContent ==
    ASSUME Structure, Content, ~suspect', NEW r \in Readers, NEW i \in Items, Prepare(r, i)
    PROVE  Content'
<1> DEFINE n == AfterSetup(item[i])
           rd == [IdleReader EXCEPT !.it = i,
                    !.pc = IF n.status < FIST_DLGOTHEAD THEN "add" ELSE "await"]
<1>0. /\ item \in [Items -> ItemType] /\ job \in [Readers -> JobType]
      /\ reader \in [Readers -> ReaderType] /\ reg \in Items \cup {NoItem}
      /\ NoItem \notin Items /\ NoInode \notin Inodes /\ Typed /\ item[i] \in ItemType
  BY TransferAssumption DEF Structure, Typed
<1>1. /\ reader[r].pc = "idle" /\ ~suspect
      /\ reg = i \/ (reg = NoItem /\ ~Referenced(i, reg, reader, job))
      /\ reg' = i /\ item' = [item EXCEPT ![i] = n]
      /\ reader' = [reader EXCEPT ![r] = rd]
      /\ UNCHANGED <<upstream, path, data, head, job, suspect>>
  BY DEF Prepare, diskvars
<1>2. reg = i => n = item[i] /\ ItemContent(n, path, File, head)
  <2> SUFFICES ASSUME reg = i PROVE n = item[i] /\ ItemContent(n, path, File, head)
    OBVIOUS
  <2>1. item[i].status # FIST_FRESH
    BY DEF Structure, ItemShape, Referenced
  <2>2. item[i].status > FIST_FRESH
    BY <1>0, <2>1 DEF ItemType, FiStatus
  <2>3. n = item[i]
    BY <2>2 DEF AfterSetup
  <2> QED
    BY <1>0, <1>1, <2>3 DEF Content
<1>3. reg # i => n.fd = NoInode /\ item[i].fd = NoInode /\ ItemContent(n, path, File, head)
  <2> SUFFICES ASSUME reg # i
               PROVE  n.fd = NoInode /\ item[i].fd = NoInode /\ ItemContent(n, path, File, head)
    OBVIOUS
  <2>1. item[i] = FreeItem
    BY <1>1 DEF Structure, ItemShape
  <2>2. n.fd = NoInode /\ item[i].fd = NoInode
    BY <1>0, <2>1, AfterSetupFields, FreeItemType DEF Structure
  <2>3. DiskContent(File, head)
    BY <1>1 DEF Content
  <2> QED
    BY <1>0, <2>1, <2>2, <2>3, AfterSetupContent
<1>4. /\ rd \in ReaderType /\ rd.it = i /\ rd.mode = "none" /\ rd.pc \in {"add", "await"}
      /\ rd.fd = NoInode /\ rd.got = << >> /\ rd.lim = 0
  <2> DEFINE c == IdleReader
             pc == IF n.status < FIST_DLGOTHEAD THEN "add" ELSE "await"
  <2>1. pc \in {"add", "await"} /\ rd = [c EXCEPT !.it = i, !.pc = pc]
    OBVIOUS
  <2>2. c \in ReaderType /\ c.mode = "none" /\ c.fd = NoInode /\ c.got = << >> /\ c.lim = 0
    BY IdleReaderType
  <2> HIDE DEF c, pc, rd, n
  <2> QED
    BY <2>1, <2>2 DEF ReaderType
<1> HIDE DEF n, rd
<1>5. /\ \A s \in Readers : s # r => reader'[s] = reader[s]
      /\ reader'[r] = rd /\ item'[i] = n
      /\ \A k \in Items : k # i => item'[k] = item[k]
  BY <1>0, <1>1
<1>6. reader[r].it = NoItem /\ reader[r].fd = NoInode
  BY <1>1 DEF Structure, ReaderShape, Content
<1>7. File' = File /\ NewFilesEmpty'
  <2>1. /\ \A s \in Readers : reader'[s].fd = reader[s].fd
        /\ \A k \in Items : item'[k].fd = item[k].fd
    BY <1>1, <1>2, <1>3, <1>4, <1>5, <1>6
  <2>2. OpenFiles' = OpenFiles
    BY <1>1, <2>1 DEF OpenFiles
  <2> QED
    BY <1>1, <2>2, FileKept DEF NewFilesEmpty, Content
<1>8. Detached'
  <2> SUFFICES ASSUME NEW k \in Items, k # i, Referenced(k, reg', reader', job')
               PROVE  item'[k].status >= FIST_COMPLETE
    BY <1>1 DEF Detached
  <2>1. Users(k, reader') = Users(k, reader)
    BY <1>0, <1>4, <1>5, <1>6 DEF Users
  <2>2. Referenced(k, reg, reader, job) /\ k # reg
    BY <1>0, <1>1, <2>1 DEF Referenced
  <2>3. item[k].status >= FIST_COMPLETE
    BY <1>1, <2>2 DEF Content, Detached
  <2> QED
    BY <1>5, <2>3
<1>9. ItemContent(item'[reg'], path', File', head') /\ DiskContent(File', head')
  BY <1>1, <1>2, <1>3, <1>5, <1>7 DEF Content
<1>10. ASSUME NEW s \in Readers, job'[s].it = reg'
       PROVE  JobContent(job'[s], item'[reg'], File')
  <2>1. reg = i
    BY <1>1, <1>10 DEF Referenced, Downloads
  <2> QED
    BY <1>0, <1>1, <1>2, <1>5, <1>7, <1>10, <2>1 DEF Content
<1>11. ReaderContent(rd, n, path)
  <2>1. OneVersion(rd.got, n.date)
    BY <1>4 DEF OneVersion
  <2> QED
    BY <1>4, <2>1 DEF ReaderContent
<1>12. ASSUME NEW s \in Readers
       PROVE  IF reader'[s].it = NoItem THEN reader'[s].got = << >> /\ reader'[s].fd = NoInode
              ELSE ReaderContent(reader'[s], item'[reg'], path')
  <2>1. CASE s = r
    BY <1>0, <1>1, <1>4, <1>5, <1>11, <2>1
  <2>2. CASE s # r /\ reader[s].it = NoItem
    BY <1>1, <1>5, <2>2 DEF Content
  <2>3. CASE s # r /\ reader[s].it # NoItem
    <3>1. reg = i
      BY <1>1, <2>3 DEF Structure, ReaderShape
    <3>2. ReaderContent(reader[s], item[reg], path)
      BY <1>1, <2>3 DEF Content
    <3> QED
      BY <1>1, <1>2, <1>5, <2>3, <3>1, <3>2
  <2> QED
    BY <2>1, <2>2, <2>3
<1> QED
  BY <1>1, <1>7, <1>8, <1>9, <1>10, <1>12 DEF Content

\* A new job has asked for nothing yet.
LEMMA AddJobContent ==
    ASSUME Structure, Content, ~suspect', NEW r \in Readers, AddJob(r)
    PROVE  Content'
<1> DEFINE i == reader[r].it
           j == [NoJob EXCEPT !.pc = "queued", !.it = i]
           rd == [reader[r] EXCEPT !.pc = "await"]
<1>0. /\ item \in [Items -> ItemType] /\ job \in [Readers -> JobType]
      /\ reader \in [Readers -> ReaderType] /\ NoItem \notin Items
  BY TransferAssumption DEF Structure, Typed
<1>1. /\ job' = [job EXCEPT ![r] = j] /\ reader' = [reader EXCEPT ![r] = rd] /\ ~suspect
      /\ UNCHANGED <<upstream, path, data, head, item, reg, suspect>> /\ reader[r].pc = "add"
  BY DEF AddJob, diskvars
<1>2. /\ i = reg /\ reg \in Items /\ ReaderContent(reader[r], item[reg], path)
      /\ reader[r] \in ReaderType /\ NewFilesEmpty
  BY <1>1, ReaderContext
<1>3. j.pc = "queued" /\ j.it = i
  <2> DEFINE c == NoJob
  <2>1. c \in JobType /\ j = [c EXCEPT !.pc = "queued", !.it = i]
    BY NoJobType
  <2> HIDE DEF c, j
  <2> QED
    BY <2>1 DEF JobType
<1>4. /\ rd \in ReaderType /\ rd.pc = "await" /\ rd.it = i /\ rd.mode = reader[r].mode
      /\ rd.lim = reader[r].lim /\ rd.fd = reader[r].fd /\ rd.got = reader[r].got
  BY <1>0 DEF ReaderType
<1> HIDE DEF j, rd
<1>5. /\ \A s \in Readers : s # r => reader'[s] = reader[s] /\ job'[s] = job[s]
      /\ reader'[r] = rd /\ job'[r] = j
      /\ \A s \in Readers : reader'[s].it = reader[s].it
  BY <1>0, <1>1, <1>4
<1>6. File' = File /\ NewFilesEmpty'
  BY <1>1, <1>2, <1>4, ReaderFiles
<1>7. Detached'
  <2>1. \A k \in Items : Users(k, reader') = Users(k, reader)
    BY <1>5 DEF Users
  <2>2. \A k \in Items : k # reg => Downloads(k, job') \subseteq Downloads(k, job)
    BY <1>2, <1>3, <1>5 DEF Downloads
  <2> QED
    BY <1>1, <2>1, <2>2 DEF Content, Detached, Referenced
<1>8. \A s \in Readers : job'[s].it = reg => JobContent(job'[s], item[reg], File)
  <2>1. JobContent(j, item[reg], File)
    BY <1>3 DEF JobContent
  <2> QED
    BY <1>0, <1>1, <1>2, <1>5, <2>1 DEF Content
<1>9. ReaderContent(rd, item[reg], path)
  BY <1>1, <1>2, <1>4 DEF ReaderContent
<1>10. \A s \in Readers :
        IF reader'[s].it = NoItem THEN reader'[s].got = << >> /\ reader'[s].fd = NoInode
        ELSE ReaderContent(reader'[s], item[reg], path)
  BY <1>0, <1>1, <1>2, <1>4, <1>5, <1>9 DEF Content
<1> QED
  BY <1>1, <1>6, <1>7, <1>8, <1>10 DEF Content

\* KillLastFile takes the item from its readers, not the content.
LEMMA MarkFaultyContent ==
    ASSUME Structure, Content, ~suspect', NEW i \in Items, MarkFaulty(i)
    PROVE  Content'
<1> DEFINE it == item[i]
           e == DlSetError(it)
<1>0. /\ item \in [Items -> ItemType] /\ it \in ItemType /\ ItemInv(it) /\ ~suspect
      /\ item' = [item EXCEPT ![i] = e] /\ NoItem \notin Items
      /\ reg \in Items \cup {NoItem} /\ reader \in [Readers -> ReaderType]
      /\ UNCHANGED <<upstream, path, data, head, reg, reader, job, suspect>>
  BY TransferAssumption DEF Structure, Typed, MarkFaulty, diskvars
<1>1. /\ e \in ItemType /\ e.status = FIST_DLERROR /\ e.checked = it.checked
      /\ e.clen = it.clen /\ e.date = it.date /\ e.fd = it.fd
  BY <1>0, DlSetErrorFields
<1> HIDE DEF e
<1>2. item'[i] = e /\ \A k \in Items : k # i => item'[k] = item[k]
  BY <1>0
<1>3. File' = File /\ NewFilesEmpty'
  BY <1>0, <1>1, SameFiles DEF Content
<1>4. Detached'
  BY <1>0, <1>1, <1>2 DEF Content, Detached
<1>5. reg # NoItem => ItemContent(item'[reg], path, File, head)
  <2>1. CASE reg = i
    <3>1. ItemContent(it, path, File, head)
      BY <1>0, <2>1 DEF Content
    <3>2. ItemContent(e, path, File, head)
      BY <1>0, <1>1, <3>1, FailedContent
    <3> QED
      BY <1>2, <2>1, <3>2
  <2>2. CASE reg # i
    BY <1>0, <1>2, <2>2 DEF Content
  <2> QED
    BY <2>1, <2>2
<1>6. ASSUME NEW s \in Readers, job[s].it = reg, reg # NoItem
      PROVE  JobContent(job[s], item'[reg], File)
  <2>1. CASE reg = i
    BY <1>1, <1>2, <2>1 DEF JobContent
  <2>2. CASE reg # i
    BY <1>0, <1>2, <1>6, <2>2 DEF Content
  <2> QED
    BY <2>1, <2>2
<1>7. ASSUME NEW s \in Readers, reader[s].it # NoItem
      PROVE  ReaderContent(reader[s], item'[reg], path)
  <2>1. /\ ReaderContent(reader[s], item[reg], path) /\ reader[s] \in ReaderType
        /\ reg \in Items /\ item[reg] \in ItemType
    BY <1>0, <1>7 DEF Content, Structure, ReaderShape
  <2>2. CASE reg = i
    <3>1. e.checked >= it.checked
      BY <1>0, <1>1 DEF ItemType
    <3>2. ReaderContent(reader[s], e, path)
      BY <1>0, <1>1, <2>1, <2>2, <3>1, ReaderContentKept
    <3> QED
      BY <1>2, <2>2, <3>2
  <2>3. CASE reg # i
    BY <1>2, <2>1, <2>3
  <2> QED
    BY <2>2, <2>3
<1>8. \A s \in Readers : reader[s].it = NoItem => reader[s].got = << >> /\ reader[s].fd = NoInode
  BY <1>0 DEF Content
<1>9. DiskContent(File, head)
  BY <1>0 DEF Content
<1> QED
  BY <1>0, <1>3, <1>4, <1>5, <1>6, <1>7, <1>8, <1>9 DEF Content

\* The disk is as it was, and nothing else is left.
LEMMA CrashContent ==
    ASSUME Structure, Content, ~suspect', Crash
    PROVE  Content'
<1>0. /\ reg' = NoItem /\ reader' = [r \in Readers |-> IdleReader]
      /\ job' = [r \in Readers |-> NoJob] /\ item' = [i \in Items |-> FreeItem]
      /\ UNCHANGED <<upstream, path, head, suspect>> /\ ~suspect
      /\ data' = [n \in Inodes |-> IF n = path THEN data[n] ELSE << >>]
  BY DEF Crash
<1>1. path \in Inodes \cup {NoInode} /\ NoItem \notin Items
  BY TransferAssumption DEF Structure, Typed
<1>2. File' = File
  BY <1>0, <1>1, FileKept
<1>3. path \in OpenFiles'
  BY <1>0 DEF OpenFiles
<1>4. NewFilesEmpty'
  BY <1>0, <1>3 DEF NewFilesEmpty
<1>5. Detached'
  BY <1>0, <1>1, IdleReaderType, NoJobType DEF Detached, Referenced, Users, Downloads
<1>6. \A r \in Readers : reader'[r].it = NoItem /\ reader'[r].got = << >> /\ reader'[r].fd = NoInode
  BY <1>0, IdleReaderType
<1> QED
  BY <1>0, <1>2, <1>4, <1>5, <1>6 DEF Content

\* Nothing of the content is about the version that the server has.
LEMMA QuietContent ==
    ASSUME Content, UNCHANGED <<path, data, head, item, reg, reader, job, suspect>>
    PROVE  Content'
<1>1. File' = File
  BY FileKept
<1>2. NewFilesEmpty' = NewFilesEmpty
  BY DEF NewFilesEmpty, OpenFiles
<1>3. Detached' = Detached
  BY DEF Detached
<1> QED
  BY <1>1, <1>2, <1>3 DEF Content

-----------------------------------------------------------------------------
(* The content theorems *)

\* A file without a usable header says nothing.
LEMMA ContentInit == Init => Content
<1> SUFFICES ASSUME Init PROVE Content
  OBVIOUS
<1> USE TransferAssumption
<1>1. head.date = NoDate /\ head.len = -1
  BY DEF Init, NoHead, DamagedHead
<1>2. DiskContent(File, head)
  BY <1>1 DEF DiskContent
<1>3. path \in OpenFiles
  BY DEF OpenFiles
<1>4. NewFilesEmpty
  BY <1>3 DEF Init, NewFilesEmpty
<1>5. Detached
  BY IdleReaderType, NoJobType DEF Init, Detached, Referenced, Users, Downloads
<1>6. \A r \in Readers : reader[r].it = NoItem /\ reader[r].got = << >> /\ reader[r].fd = NoInode
  BY IdleReaderType DEF Init
<1>7. reg = NoItem
  BY DEF Init
<1> QED
  BY <1>2, <1>4, <1>5, <1>6, <1>7 DEF Content

\* Every step preserves the content, unless it is one of those that suspect
\* stands for.
LEMMA ContentNext == Structure /\ AheadInv /\ Content /\ [Next]_vars => Content'
<1> SUFFICES ASSUME Structure, AheadInv, Content, [Next]_vars PROVE Content'
  OBVIOUS
<1>0. CASE suspect'
  BY <1>0 DEF Content
<1>a. CASE ~suspect'
  <2> USE <1>a
  <2>1. CASE UNCHANGED vars
    BY <2>1, QuietContent DEF vars, diskvars
  <2>2. ASSUME NEW r \in Readers, NEW i \in Items, Prepare(r, i) PROVE Content'
    BY <2>2, PrepareContent
  <2>3. ASSUME NEW r \in Readers, AddJob(r) PROVE Content'
    BY <2>3, AddJobContent
  <2>4. ASSUME NEW r \in Readers, AddJobFail(r) \/ AwaitError(r) PROVE Content'
    BY <2>4, ErrorReaderContent
  <2>5. ASSUME NEW r \in Readers, CookResponseHeader(r) PROVE Content'
    BY <2>5, CookResponseHeaderContent
  <2>6. ASSUME NEW r \in Readers, SendCheck(r) PROVE Content'
    BY <2>6, SendCheckContent
  <2>7. ASSUME NEW r \in Readers, SendFile(r) PROVE Content'
    BY <2>7, SendFileContent
  <2>8. ASSUME NEW r \in Readers, ChunkEnd(r) PROVE Content'
    BY <2>8, ChunkEndContent
  <2>9. ASSUME NEW r \in Readers, ChunkHeader(r) PROVE Content'
    BY <2>9, ChunkHeaderContent
  <2>10. ASSUME NEW r \in Readers, ChunkData(r) PROVE Content'
    BY <2>10, ChunkDataContent
  <2>11. ASSUME NEW r \in Readers,
               AppendRequest(r) \/ HeaderBusy(r) \/ AddDataStopped(r) \/ Requeue(r)
        PROVE  Content'
    BY <2>11, QuietJobContent
  <2>12. ASSUME NEW r \in Readers, NEW chunked \in BOOLEAN, Header200(r, chunked) PROVE Content'
    BY <2>12, Header200Content
  <2>13. ASSUME NEW r \in Readers, Header206(r) PROVE Content'
    BY <2>13, Header206Content
  <2>14. ASSUME NEW r \in Readers,
               Header206Unexpected(r) \/ Header416(r) \/ HeaderErrorResuming(r)
        PROVE  Content'
    <3>1. job[r].pc = "sent" /\ ~Busy(job[r], item[job[r].it]) /\ HeaderFails(r)
      BY <2>14 DEF Header206Unexpected, Header416, HeaderErrorResuming
    <3> QED
      BY <3>1, HeaderFailsContent
  <2>15. ASSUME NEW r \in Readers, Header416Restart(r) PROVE Content'
    BY <2>15, Header416RestartContent
  <2>16. ASSUME NEW r \in Readers, HeaderError(r) PROVE Content'
    BY <2>16, HeaderErrorContent
  <2>17. ASSUME NEW r \in Readers, HeaderProbe(r) PROVE Content'
    BY <2>17, HeaderProbeContent
  <2>18. ASSUME NEW r \in Readers, NEW n \in Inodes, OpenNew(r, n) PROVE Content'
    BY <2>18, OpenNewContent
  <2>19. ASSUME NEW r \in Readers, OpenInPlace(r) PROVE Content'
    BY <2>19, OpenInPlaceContent
  <2>20. ASSUME NEW r \in Readers, OpenError(r) PROVE Content'
    BY <2>20, OpenErrorContent
  <2>21. ASSUME NEW r \in Readers, WriteError(r) PROVE Content'
    BY <2>21, WriteErrorContent
  <2>22. ASSUME NEW r \in Readers, AddData(r) PROVE Content'
    BY <2>22, AddDataContent
  <2>31. ASSUME NEW r \in Readers, NEW n \in Inodes, FirstWriteFails(r, n) PROVE Content'
    BY <2>31, FirstWriteFailsContent
  <2>32. ASSUME NEW r \in Readers, NEW n \in Inodes, FirstWriteInterrupted(r, n) PROVE Content'
    BY <2>32 DEF FirstWriteInterrupted
  <2>33. ASSUME NEW r \in Readers, AddDataInterrupted(r) PROVE Content'
    BY <2>33 DEF AddDataInterrupted
  <2>23. ASSUME NEW r \in Readers, FinishJob(r) PROVE Content'
    BY <2>23, FinishJobContent
  <2>24. ASSUME NEW r \in Readers, JobDies(r) PROVE Content'
    BY <2>24, JobDiesContent
  <2>25. ASSUME NEW r \in Readers, Disconnect(r) PROVE Content'
    <3>1. Leave(r, TRUE) /\ reader[r].pc \notin {"idle", "closing"}
      BY <2>25 DEF Disconnect
    <3> QED
      BY <3>1, LeaveContent
  <2>26. ASSUME NEW r \in Readers, StreamOk(r) PROVE Content'
    <3>1. PICK closed \in BOOLEAN : Leave(r, closed)
      BY <2>26 DEF StreamOk
    <3>2. reader[r].pc \notin {"idle", "closing"}
      BY <2>26 DEF StreamOk
    <3> QED
      BY <3>1, <3>2, LeaveContent
  <2>27. ASSUME NEW r \in Readers, Close(r) PROVE Content'
    BY <2>27, CloseContent
  <2>28. ASSUME NEW i \in Items, MarkFaulty(i) PROVE Content'
    BY <2>28, MarkFaultyContent
  <2>29. CASE UpstreamChange
    BY <2>29, QuietContent DEF UpstreamChange
  <2>30. CASE Crash
    BY <2>30, CrashContent
  <2> QED
    BY <2>1, <2>2, <2>3, <2>4, <2>5, <2>6, <2>7, <2>8, <2>9, <2>10, <2>11, <2>12, <2>13,
       <2>14, <2>15, <2>16, <2>17, <2>18, <2>19, <2>20, <2>21, <2>22, <2>23, <2>24, <2>25,
       <2>26, <2>27, <2>28, <2>29, <2>30, <2>31, <2>32, <2>33 DEF Next
<1> QED
  BY <1>0, <1>a

\* As long as no file was damaged, what the disk, the items, the requests and
\* the readers say of a file's content agrees with the file.
THEOREM ContentHolds == Spec => []Content
<1>1. Init => Content
  BY ContentInit
<1>2. Structure /\ AheadInv /\ Content /\ [Next]_vars => Content'
  BY ContentNext
<1> QED
  BY <1>1, <1>2, StructureHolds, AheadHolds, PTL DEF Spec

\* A sequence of one version, as far as it goes, is the start of that version.
LEMMA StartOfVersion ==
    ASSUME NEW v \in Versions, NEW s \in Seq(Versions), OneVersion(s, v), Len(s) <= Lengths[v]
    PROVE  s = SubSeq(Whole(v), 1, Len(s)) /\ (Len(s) = Lengths[v] => s = Whole(v))
<1> DEFINE m == Len(s)
           w == Whole(v)
<1>1. /\ Lengths[v] \in Nat /\ w \in Seq(Versions) /\ Len(w) = Lengths[v] /\ m \in Nat
      /\ \A k \in 1..Lengths[v] : w[k] = v
  BY LengthsType, LenProperties DEF Whole
<1> HIDE DEF w
<1>2. 1 \in 1..(Len(w) + 1) /\ m \in 0..Len(w)
  BY <1>1
<1> DEFINE u == SubSeq(w, 1, m)
<1>3. u \in Seq(Versions) /\ Len(u) = m /\ \A k \in 1..m : u[k] = v
  BY <1>1, <1>2, SubSeqProperties
<1> HIDE DEF u
<1>4. \A k \in 1..m : s[k] = v
  BY DEF OneVersion
<1>5. s = u
  BY <1>3, <1>4, SeqEqual
<1>6. Len(s) = Lengths[v] => s = w
  BY <1>1, <1>4, SeqEqual
<1> QED
  BY <1>5, <1>6 DEF u, w

\* Whenever the program is killed, Setup of the next one may trust a data
\* file that is as long as its header says: it is one whole version.
THEOREM DiskSoundHolds == Spec => []DiskSound
<1>1. ASSUME Structure, Content PROVE DiskSound
  <2> SUFFICES ASSUME ~suspect, path # NoInode, head.len = Len(data[path])
               PROVE  head.date # NoDate /\ data[path] = Whole(head.date)
    BY DEF DiskSound
  <2>1. Typed /\ HeadInv /\ DiskContent(File, head)
    BY <1>1 DEF Structure, Content
  <2>2. File = data[path] /\ File \in Seq(Versions) /\ Len(File) \in Nat
    BY <2>1, FileType
  <2>3. head.date # NoDate /\ head.date \in Versions /\ OneVersion(File, head.date)
    BY <2>1, <2>2 DEF DiskContent, Typed, HeadType
  <2>4. Len(File) = Lengths[head.date] /\ Lengths[head.date] \in Nat
    BY <2>1, <2>2, <2>3, LengthsType DEF HeadInv
  <2>5. File = Whole(head.date)
    BY <2>2, <2>3, <2>4, StartOfVersion
  <2> QED
    BY <2>2, <2>3, <2>5
<1> QED
  BY <1>1, StructureHolds, ContentHolds, PTL

\* sendfile() and the chunk sender find in the file what the item reported as
\* checked when SendData looked.
THEOREM CheckedIsReadableHolds == Spec => []CheckedIsReadable
<1>1. ASSUME Structure, Content PROVE CheckedIsReadable
  <2> SUFFICES ASSUME ~suspect, NEW r \in Readers
               PROVE  /\ reader[r].pc = "sendfile" =>
                           SourceFile(r) # NoInode /\ Available(r, SourceFile(r)) > 0
                      /\ reader[r].pc = "chunkdata" => Available(r, reader[r].fd) > 0
    BY DEF CheckedIsReadable
  <2> QED
    BY <1>1, SendingContext
<1> QED
  BY <1>1, StructureHolds, ContentHolds, PTL

\* What a client has received is the start of one version of the file, and all
\* of it if the response looks complete to the client.
THEOREM DeliveredWholeHolds == Spec => []DeliveredWhole
<1>1. ASSUME Structure, Content PROVE DeliveredWhole
  <2> SUFFICES ASSUME ~suspect, NEW r \in Readers
               PROVE  \E v \in Versions :
                        /\ Len(reader[r].got) <= Lengths[v]
                        /\ reader[r].got = SubSeq(Whole(v), 1, Len(reader[r].got))
                        /\ Served(reader[r]) => reader[r].got = Whole(v)
    BY DEF DeliveredWhole
  <2> DEFINE rd == reader[r]
             it == item[reg]
  <2>0. rd \in ReaderType /\ rd.got \in Seq(Versions) /\ Len(rd.got) \in Nat
        /\ (Len(rd.got) = 0 <=> rd.got = << >>) /\ ReaderShape(r) /\ Follows(r)
    BY <1>1, LenOfEmpty DEF Structure, Typed, ReaderType
  <2>1. ASSUME rd.got = << >>, ~Served(rd)
        PROVE  \E v \in Versions :
                 /\ Len(rd.got) <= Lengths[v]
                 /\ rd.got = SubSeq(Whole(v), 1, Len(rd.got))
                 /\ Served(rd) => rd.got = Whole(v)
    <3>1. 1 \in Versions /\ Lengths[1] \in Nat /\ Len(rd.got) <= Lengths[1]
      BY <2>0, <2>1, OneIsVersion, LengthsType
    <3>2. OneVersion(rd.got, 1)
      BY <2>0, <2>1 DEF OneVersion
    <3>3. rd.got = SubSeq(Whole(1), 1, Len(rd.got))
      BY <2>0, <3>1, <3>2, StartOfVersion
    <3> QED
      BY <2>1, <3>1, <3>3
  <2>2. CASE rd.it = NoItem
    <3>1. rd.got = << >> /\ rd.mode = "none"
      BY <1>1, <2>0, <2>2 DEF Content, ReaderShape
    <3> QED
      BY <2>1, <3>1 DEF Served
  <2>3. CASE rd.it # NoItem
    <3>1. /\ rd.it = reg /\ reg \in Items /\ it \in ItemType /\ ItemInv(it)
          /\ ReaderContent(rd, it, path) /\ ItemContent(it, path, File, head)
      BY <1>1, <2>0, <2>3, ReaderContext DEF ReaderShape
    <3>2. it.checked \in Int /\ it.clen \in Int /\ it.date \in Versions \cup {NoDate}
      BY <3>1 DEF ItemType
    <3>3. /\ rd.got # << >> => it.date # NoDate /\ Len(rd.got) <= Lengths[it.date]
      <4>1. rd.got # << >> => Len(rd.got) <= it.checked /\ it.checked > 0
        BY <2>0, <3>1, <3>2 DEF ReaderContent
      <4>2. it.checked > 0 => it.date # NoDate /\ it.checked <= Lengths[it.date]
        BY <3>1 DEF ItemContent
      <4> QED
        BY <2>0, <3>2, <4>1, <4>2, LengthsType
    <3>4. Served(rd) => it.date # NoDate /\ Len(rd.got) = Lengths[it.date]
      <4>1. CASE rd.mode = "plain" /\ Len(rd.got) = rd.ann
        <5>1. it.clen = Len(rd.got)
          BY <2>0, <3>1, <4>1 DEF Follows
        <5>2. it.date # NoDate
          BY <2>0, <3>1, <5>1 DEF ItemContent
        <5> QED
          BY <2>0, <3>1, <5>1, <5>2 DEF ItemInv
      <4>2. CASE rd.mode = "chunked" /\ rd.pc = "ok"
        BY <3>1, <4>2 DEF ReaderContent
      <4> QED
        BY <4>1, <4>2 DEF Served
    <3>5. CASE it.date = NoDate
      BY <2>1, <3>3, <3>4, <3>5
    <3>6. CASE it.date # NoDate
      <4>1. it.date \in Versions /\ Lengths[it.date] \in Nat /\ Len(rd.got) <= Lengths[it.date]
        BY <2>0, <3>2, <3>3, <3>6, LengthsType
      <4>2. OneVersion(rd.got, it.date)
        BY <3>1 DEF ReaderContent
      <4>3. /\ rd.got = SubSeq(Whole(it.date), 1, Len(rd.got))
            /\ Len(rd.got) = Lengths[it.date] => rd.got = Whole(it.date)
        BY <2>0, <4>1, <4>2, StartOfVersion
      <4> QED
        BY <3>4, <4>1, <4>3
    <3> QED
      BY <3>5, <3>6
  <2> QED
    BY <2>2, <2>3
<1> QED
  BY <1>1, StructureHolds, ContentHolds, PTL
=============================================================================
