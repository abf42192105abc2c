---------------------------- MODULE IndexUpdate ----------------------------
(***************************************************************************)
(* How a maintenance task brings the index files of the cache up to date   *)
(* and reads them (cacheman.cc): the phase of an expiration that decides   *)
(* which files of the cache are still referenced.  One run, on the index   *)
(* files of one release: Release or InRelease, the list of diffs, and the  *)
(* variants of one index, compressed in several ways or kept in several    *)
(* directories.  Clients of the cache go on fetching index files.          *)
(*                                                                         *)
(* The content of a file is the version of the archive that it describes;  *)
(* its format, and what it says about single packages, is left out: a file *)
(* that was read covers all packages of its version.                       *)
(***************************************************************************)
EXTENDS Integers, Sequences, FiniteSets, SequencesExt

CONSTANTS
    Release, InRelease, DiffIndex,  \* the files' names
    Variants,     \* the variants of the index, as paths
    Order,        \* all files in the order of m_metaFilesRel
    BySuffix,     \* the variants in the order .xz .bz2 .gz .lzma, then all
    ByKind,       \* the variants, uncompressed ones first, then as BySuffix
    Compressed,   \* variants with one of these suffixes
    Dir, Base,    \* directory and file name of a variant
    HashOf,       \* the variant whose by-hash names are in the cache
    Alternative,  \* fixmap: from a file to the one to try instead
    Deprecated,   \* variants of an architecture that the release has dropped
    Current,      \* the version the servers have
    None,         \* no such file
    Follow404,    \* cfg::follow404
    Starts,       \* cases to start with, see Case
    MaxFaults,    \* bound: failures of the network, the disk or the registry
    MaxClients    \* bound: index files that clients fetch meanwhile

Releases == {Release, InRelease}
Files == Releases \cup {DiffIndex} \cup Variants
Versions == 0..Current

\* What a run finds and does not change: the files in the cache, versions of
\* HashOf that the cache has by hash, releases in the side store, the servers'
\* files, the variants of less than 42000 bytes, the files of the administrator's
\* ignore_list, the variants that a visit of their directory adds when they are
\* missing (SHA256SUMS of installer images), and the options of the task
\* (m_bByPath, m_bForceDownload, m_bSkipIxUpdate, m_bErrAbort).
Case == [disk : [Files -> Versions \cup {None}], blobs : SUBSET Versions,
         snapshots : SUBSET Versions, offers : SUBSET Files,
         small : SUBSET Variants, ignored : SUBSET Files,
         wanted : SUBSET Variants, byPath : BOOLEAN, force : BOOLEAN,
         skip : BOOLEAN, errAbort : BOOLEAN]

ASSUME IndexAssumption ==
    /\ Current \in Nat /\ None \notin Versions
    /\ Release # InRelease /\ DiffIndex \notin Releases \cup Variants
    /\ Releases \cap Variants = {}
    /\ Order \in Seq(Files) /\ ToSet(Order) = Files
    /\ BySuffix \in Seq(Variants) /\ ByKind \in Seq(Variants)
    /\ Compressed \subseteq Variants
    /\ HashOf \in Variants /\ Deprecated \subseteq Variants
    /\ DOMAIN Alternative \subseteq Files
    /\ \A f \in DOMAIN Alternative : Alternative[f] \in Files
    /\ Follow404 \in BOOLEAN
    /\ Starts \subseteq Case

VARIABLES
    disk,       \* the version in each file, or None
    snapshots,  \* versions of old Release files in the side store
    given,      \* the case
    fl,         \* m_metaFilesRel: tIfileAttribs
    ring,       \* variants that are chained by their bro pointers
    errors,     \* m_nErrorCount
    obsolete,   \* m_killBill
    inTrash,    \* m_forceKeepInTrash
    heard,      \* index files that were read to their end
    stop,       \* CheckStopSignal()
    pc, todo,   \* the phase, and what its loop has still to visit
    faults, clients,
    muted,      \* history: a disabled variant has disabled a fresh one
    spared      \* history: files that were not read, and the error forgiven

vars == <<disk, snapshots, given, fl, ring, errors, obsolete, inTrash,
          heard, stop, pc, todo, faults, clients, muted, spared>>

-----------------------------------------------------------------------------
(* State *)

\* attr_dummy_pure
NoFlags == [ondisk |-> FALSE, uptodate |-> FALSE, ignore |-> FALSE,
            parsed |-> FALSE, forgive |-> FALSE]

Init ==
    /\ given \in Starts
    /\ disk = given.disk /\ snapshots = given.snapshots
    /\ fl = [f \in Files |-> NoFlags]
    /\ ring = {} /\ errors = 0 /\ obsolete = {} /\ inTrash = {} /\ heard = {}
    /\ stop = FALSE /\ pc = "walk" /\ todo = <<>>
    /\ faults = 0 /\ clients = 0 /\ muted = FALSE /\ spared = {}

\* Somebody cancels the task, or the daemon is shut down.
Cancel ==
    /\ ~stop
    /\ pc \notin {"walk", "review", "end"}
    /\ stop' = TRUE
    /\ UNCHANGED <<disk, snapshots, given, fl, ring, errors, obsolete,
                   inTrash, heard, pc, todo, faults, clients, muted, spared>>

\* The first place in todo that has one of the files S, and what follows it:
\* the flags that a loop looks at are changed by the task alone, so it passes
\* the other files in no time.
First(k, S) ==
    /\ k \in DOMAIN todo
    /\ todo[k] \in S
    /\ \A j \in 1..(k - 1) : todo[j] \notin S

Rest(k) == SubSeq(todo, k + 1, Len(todo))

Ahead(S) == \E k \in DOMAIN todo : todo[k] \in S

\* A client fetches an index file while the task runs.
ClientFetch(f) ==
    /\ clients < MaxClients
    /\ pc \notin {"walk", "install", "read", "reading", "review", "end"}
    /\ f \in given.offers /\ disk[f] # Current
    /\ disk' = [disk EXCEPT ![f] = Current]
    /\ clients' = clients + 1
    /\ UNCHANGED <<snapshots, given, fl, ring, errors, obsolete, inTrash,
                   heard, stop, pc, todo, faults, muted, spared>>

-----------------------------------------------------------------------------
(* Download                                                                *)

\* What happens to a request: nothing to do, the file, no such file, an error
\* of the network or of the registry, or no way to start it at all.
Fates(f) ==
    IF fl[f].uptodate \/ given.skip THEN {"skip"}
    ELSE (IF f \in given.offers THEN {"got"} ELSE {"missing"})
           \cup (IF faults < MaxFaults THEN {"error", "nostart"} ELSE {})

\* IsDeprecatedArchFile: the release is known to be fresh, and lists no such
\* architecture.
IsDeprecatedArchFile(f) ==
    f \in Deprecated /\ \E r \in Releases : fl[r].uptodate /\ disk[r] # None

\* The first error is followed by other sources of the same file, when their
\* URL can be guessed; the last answer counts.
Verdict(f, fate) ==
    IF fate \in {"skip", "got"} THEN "OK"
    ELSE IF fate = "nostart" THEN "NOSTART"
    ELSE IF (Follow404 /\ fate = "missing") \/ IsDeprecatedArchFile(f) THEN "GONE"
    ELSE IF fl[f].forgive THEN "OK"
    ELSE "FAIL_REMOTE"

\* DL_HINT_GUESS_REPLACEMENT: another file is tried instead of a missing one.
TriesAlternative(f, fate, hint) ==
    /\ hint
    /\ fate = "missing"
    /\ Verdict(f, fate) # "OK"
    /\ f \in DOMAIN Alternative

\* The ways a call of Download(f) can go: what became of the request and, after
\* a missing file, of the one for its alternative.
Plans(f, hint) ==
    LET tried == {fate \in Fates(f) : TriesAlternative(f, fate, hint)} IN
    {<<fate>> : fate \in Fates(f) \ tried}
      \cup UNION {{<<fate, second>> : second \in Fates(Alternative[f])} : fate \in tried}

\* The file that a plan has ended with, and what became of it.
Target(f, plan) == IF Len(plan) = 2 THEN Alternative[f] ELSE f
Final(plan) == plan[Len(plan)]

\* "if (ret == eDlResult::OK && bIsVolatileFile) SetFlags().uptodate = true"
FlagsAfter(f, plan) ==
    LET t == Target(f, plan) IN
    IF Final(plan) # "skip" /\ Verdict(t, Final(plan)) = "OK"
    THEN [fl EXCEPT ![t].uptodate = TRUE] ELSE fl

\* What Download returns.  A failed download runs into the same "return
\* eDlResult::OK" as every other one; only one that could not be started is
\* reported.
Reported(plan) == IF Final(plan) = "nostart" THEN "FAIL" ELSE "OK"

\* What else Download changes.  The missing file is given up for good when its
\* alternative is reported as OK.
Downloaded(f, plan) ==
    LET t == Target(f, plan)
        tried == {<<f, plan[1]>>, <<t, Final(plan)>>}
    IN
    /\ disk' = IF Final(plan) = "got" THEN [disk EXCEPT ![t] = Current] ELSE disk
    /\ inTrash' = inTrash \cup {x[1] : x \in {x \in tried : Verdict(x[1], x[2]) = "GONE"}}
    /\ obsolete' = IF t # f /\ Reported(plan) = "OK" THEN obsolete \cup {f} ELSE obsolete
    /\ faults' = IF Final(plan) \in {"error", "nostart"} THEN faults + 1 ELSE faults

-----------------------------------------------------------------------------
(* Inject and SyncSiblings                                                 *)

\* The group of the variants: the uncompressed ones, and those of the others
\* that are on disk; nothing if none of them is, or no release file.
Paths(g) ==
    {f \in Variants : /\ f \in Compressed => g[f].ondisk
                      /\ \E t \in Variants : g[t].ondisk
                      /\ \E r \in Releases : g[r].ondisk}

\* The siblings in the same folder, or everywhere without path checks, need no
\* update and are not read.
Disabled(g, src) ==
    {t \in Paths(g) \ {src} : g[t].ondisk /\ (Dir[t] = Dir[src] \/ ~given.byPath)}

\* With path checks, files of the same name elsewhere get a copy, unless they
\* are fresh.
Copied(d, g, src) ==
    {t \in Paths(g) \ {src} :
       /\ g[t].ondisk /\ ~g[t].uptodate
       /\ given.byPath /\ Dir[t] # Dir[src] /\ Base[t] = Base[src]
       /\ d[src] # None}

\* Targets for which Inject fails: the item is in use, or the copy cannot be
\* stored; they are left as they are, or with nothing that is of use.
Lost(targets) == {lost \in SUBSET targets : lost # {} => faults < MaxFaults}

\* The source shares what it has, whether it is disabled itself or not; d and g
\* are the files and their flags before.  The result of Inject is not looked at.
SyncSiblings(d, g, src) ==
    \E lost \in Lost(Copied(d, g, src)) : \E gone \in SUBSET lost :
      LET new == Copied(d, g, src) \ lost IN
      /\ disk' = [f \in Files |-> IF f \in new THEN d[src]
                                 ELSE IF f \in gone THEN None ELSE d[f]]
      /\ fl' = [f \in Files |->
                  [g[f] EXCEPT !.ignore = @ \/ f \in Disabled(g, src),
                               !.uptodate = @ \/ f \in new]]
      /\ faults' = IF lost = {} THEN faults ELSE faults + 1
      /\ muted' = (muted \/ (/\ g[src].ignore
                            /\ \E t \in Disabled(g, src) : g[t].uptodate /\ ~g[t].ignore))

-----------------------------------------------------------------------------
(* The walk through the cache                                              *)

\* AddIFileCandidate, what expiration::ProcessRegular adds to it, and the hints
\* that are loaded afterwards.
Found(f) ==
    [NoFlags EXCEPT !.ondisk = (disk[f] # None \/ f \in given.wanted),
                    !.forgive = \/ f = DiffIndex /\ disk[f] # None
                                \/ f \in given.wanted /\ disk[f] = None
                                \/ f \in given.ignored]

\* GetGoodReleaseFiles: InRelease wins, the other one is not read.
GoodReleases(g) == IF g[InRelease].ondisk THEN <<InRelease>>
                   ELSE IF g[Release].ondisk THEN <<Release>> ELSE <<>>

Preferred(g) ==
    [g EXCEPT ![Release].ignore = @ \/ (g[InRelease].ondisk /\ g[Release].ondisk)]

Walk ==
    /\ pc = "walk"
    /\ LET g == [f \in Files |-> Found(f)] IN
         IF given.force
         THEN fl' = g /\ pc' = "forced" /\ todo' = Order
         ELSE fl' = Preferred(g) /\ pc' = "release" /\ todo' = GoodReleases(g)
    /\ UNCHANGED <<disk, snapshots, given, ring, errors, obsolete,
                   inTrash, heard, stop, faults, clients, muted, spared>>

OnDisk == {f \in Files : fl[f].ondisk}

\* m_bForceDownload: all of them as they are, and no more.
Forced ==
    /\ pc = "forced"
    /\ \E k \in DOMAIN todo : \E plan \in Plans(todo[k], FALSE) :
         /\ First(k, OnDisk)
         /\ Downloaded(todo[k], plan)
         /\ fl' = FlagsAfter(todo[k], plan)
         /\ errors' = IF Reported(plan) = "FAIL" /\ ~fl[todo[k]].forgive
                      THEN errors + 1 ELSE errors
         /\ todo' = Rest(k)
    /\ UNCHANGED <<snapshots, given, ring, heard, stop, pc, clients, muted, spared>>

ForcedDone ==
    /\ pc = "forced"
    /\ ~Ahead(OnDisk)
    /\ pc' = "read" /\ todo' = <<>>
    /\ UNCHANGED <<disk, snapshots, given, fl, ring, errors, obsolete,
                   inTrash, heard, stop, faults, clients, muted, spared>>

-----------------------------------------------------------------------------
(* Release files and by-hash names                                         *)

\* ProcessByHashReleaseFileRestoreFiles for a release of version v: the file
\* is restored from its copy by hash when it is missing or has another size.
Restorable(v) == v \in given.blobs /\ disk[HashOf] # v

\* Inject leaves a file alone that was already updated.
Restored(v) ==
    IF Restorable(v) /\ ~fl[HashOf].uptodate
    THEN /\ disk' = [disk EXCEPT ![HashOf] = v]
         /\ fl' = [fl EXCEPT ![HashOf].uptodate = fl[HashOf].ondisk]
    ELSE UNCHANGED <<disk, fl>>

\* "ByHash error": a header is unreadable, or the target is in use.
RestoreFails ==
    /\ pc = "release"
    /\ todo # <<>>
    /\ disk[todo[1]] # None /\ Restorable(disk[todo[1]])
    /\ faults < MaxFaults
    /\ faults' = faults + 1
    /\ errors' = errors + 1
    /\ todo' = Tail(todo)
    /\ UNCHANGED <<disk, snapshots, given, fl, ring, obsolete, inTrash,
                   heard, stop, pc, clients, muted, spared>>

RestoreFiles ==
    /\ pc = "release"
    /\ todo # <<>>
    /\ Restored(disk[todo[1]])
    /\ pc' = "update"
    /\ UNCHANGED <<snapshots, given, ring, errors, obsolete, inTrash,
                   heard, stop, todo, faults, clients, muted, spared>>

\* A cancelled task leaves UpdateVolatileFiles only after a failed download.
UpdateRelease ==
    /\ pc = "update"
    /\ \E plan \in Plans(todo[1], TRUE) :
         /\ Downloaded(todo[1], plan)
         /\ fl' = FlagsAfter(todo[1], plan)
         /\ errors' = IF Reported(plan) = "FAIL" THEN errors + 1 ELSE errors
         /\ IF Reported(plan) = "FAIL" /\ stop
            THEN pc' = "read" /\ todo' = <<>>
            ELSE pc' = "release" /\ todo' = Tail(todo)
    /\ UNCHANGED <<snapshots, given, ring, heard, stop, clients, muted, spared>>

ReleasesDone ==
    /\ pc = "release"
    /\ todo = <<>>
    /\ pc' = "snapshots"
    /\ UNCHANGED <<disk, snapshots, given, fl, ring, errors, obsolete,
                   inTrash, heard, stop, todo, faults, clients, muted, spared>>

\* FixMissingByHashLinks: releases that were replaced are remembered until the
\* files they name are restored.  The first error ends it, and is ignored.
FixMissingByHashLinks ==
    /\ pc = "snapshots"
    /\ \E v \in snapshots :
         \/ /\ Restored(v)
            /\ snapshots' = snapshots \ {v}
            /\ UNCHANGED <<pc, faults>>
         \/ /\ Restorable(v) /\ faults < MaxFaults
            /\ faults' = faults + 1
            /\ pc' = "extract"
            /\ UNCHANGED <<disk, fl, snapshots>>
    /\ UNCHANGED <<given, ring, errors, obsolete, inTrash, heard, stop,
                   todo, clients, muted, spared>>

SnapshotsDone ==
    /\ pc = "snapshots"
    /\ snapshots = {}
    /\ pc' = "extract"
    /\ UNCHANGED <<disk, snapshots, given, fl, ring, errors, obsolete,
                   inTrash, heard, stop, todo, faults, clients, muted, spared>>

-----------------------------------------------------------------------------
(* Groups of equivalent files                                              *)

\* A list of diffs without any file to apply them to.
Stranded ==
    /\ fl[DiffIndex].ondisk
    /\ GoodReleases(fl) # <<>>
    /\ \A f \in Compressed : disk[f] = None

ExtractGroups ==
    /\ pc = "extract"
    /\ pc' = IF Stranded THEN "base" ELSE "sync"
    /\ todo' = IF Stranded THEN ByKind ELSE <<>>
    /\ UNCHANGED <<disk, snapshots, given, fl, ring, errors, obsolete,
                   inTrash, heard, stop, faults, clients, muted, spared>>

\* "No base file to use patching on": the first file that is reported as
\* downloaded is taken to be on disk.
FetchBase ==
    /\ pc = "base"
    /\ \E k \in DOMAIN todo : \E plan \in Plans(todo[k], FALSE) :
         /\ First(k, Compressed)
         /\ Downloaded(todo[k], plan)
         /\ fl' = IF Reported(plan) = "OK"
                  THEN [FlagsAfter(todo[k], plan) EXCEPT ![todo[k]].ondisk = TRUE]
                  ELSE fl
         /\ todo' = IF Reported(plan) = "OK" THEN <<>> ELSE Rest(k)
    /\ UNCHANGED <<snapshots, given, ring, errors, heard, stop, pc,
                   clients, muted, spared>>

BaseDone ==
    /\ pc = "base"
    /\ ~Ahead(Compressed)
    /\ pc' = "sync" /\ todo' = <<>>
    /\ UNCHANGED <<disk, snapshots, given, fl, ring, errors, obsolete,
                   inTrash, heard, stop, faults, clients, muted, spared>>

\* Bug for the mutation check: they are taken for fresh without comparing.
QuickCheckedAll(g) ==
    IF GoodReleases(g) = <<>> THEN g
    ELSE [f \in Files |-> [g[f] EXCEPT !.uptodate = @ \/ (f \in given.small /\ g[f].ondisk)]]

\* Small files are compared with the release file at once.
QuickChecked(g) ==
    LET good == GoodReleases(g) IN
    IF good = <<>> THEN g
    ELSE [f \in Files |->
            [g[f] EXCEPT !.uptodate =
               @ \/ (f \in given.small /\ g[f].ondisk /\ disk[f] = disk[good[1]])]]

\* The flags of the group's files; those of small files were looked up, too.
Members(g) == {f \in Paths(g) : g[f].ondisk \/ f \in given.small}

SyncGroups ==
    /\ pc = "sync"
    /\ ~stop
    /\ ~(errors > 0 /\ given.errAbort)
    /\ fl' = QuickChecked(fl)
    /\ ring' = Members(fl)
    /\ pc' = "share" /\ todo' = Order
    /\ UNCHANGED <<disk, snapshots, given, errors, obsolete, inTrash, heard,
                   stop, faults, clients, muted, spared>>

\* "share it's knowledge between different members of the group"
FreshPaths == {f \in Paths(fl) : fl[f].uptodate}

ShareKnowledge ==
    /\ pc = "share"
    /\ \E k \in DOMAIN todo :
         /\ First(k, FreshPaths)
         /\ SyncSiblings(disk, fl, todo[k])
         /\ todo' = Rest(k)
    /\ UNCHANGED <<snapshots, given, ring, errors, obsolete, inTrash, heard,
                   stop, pc, clients, spared>>

ShareDone ==
    /\ pc = "share"
    /\ ~Ahead(FreshPaths)
    /\ pc' = "patch" /\ todo' = <<>>
    /\ UNCHANGED <<disk, snapshots, given, fl, ring, errors, obsolete,
                   inTrash, heard, stop, faults, clients, muted, spared>>

SyncLeaves ==
    /\ pc = "sync"
    /\ stop \/ (errors > 0 /\ given.errAbort)
    /\ pc' = "read"
    /\ UNCHANGED <<disk, snapshots, given, fl, ring, errors, obsolete,
                   inTrash, heard, stop, todo, faults, clients, muted, spared>>

-----------------------------------------------------------------------------
(* PatchOne                                                                *)

NeedsPatch ==
    /\ fl[DiffIndex].ondisk
    /\ \E f \in Paths(fl) : fl[f].ondisk /\ ~fl[f].ignore /\ ~fl[f].uptodate

\* Nothing was patched with the first n of the candidates: no file, or not the
\* state the list of diffs leads to, and the patches do not fit to it, cannot
\* be fetched, or do not give what is expected.
NotPatched(n) ==
    \A k \in 1..n : ByKind[k] \in Paths(fl) => disk[ByKind[k]] # disk[DiffIndex]

\* What the loops over the groups look at.
GroupOrder ==
    IF \E r \in Releases : fl[r].ondisk THEN BySuffix \o <<DiffIndex>> ELSE <<>>

\* The first file that has the state already is declared fresh ...
PatchFresh ==
    /\ pc = "patch" /\ NeedsPatch
    /\ \E k \in DOMAIN ByKind :
         LET f == ByKind[k] IN
         /\ f \in Paths(fl) /\ disk[f] = disk[DiffIndex]
         /\ NotPatched(k - 1)
         /\ SyncSiblings(disk, [fl EXCEPT ![f].uptodate = TRUE], f)
    /\ pc' = "group" /\ todo' = GroupOrder
    /\ UNCHANGED <<snapshots, given, ring, errors, obsolete, inTrash, heard,
                   stop, clients, spared>>

\* ... and with the first one that can be patched the new file is made, in a
\* place of its own.
PatchWorks ==
    /\ pc = "patch" /\ NeedsPatch
    /\ \E k \in DOMAIN ByKind :
         LET f == ByKind[k] IN
         /\ f \in Paths(fl) /\ disk[f] # None /\ disk[f] < disk[DiffIndex]
         /\ NotPatched(k - 1)
    /\ pc' = "install" /\ todo' = Order
    /\ UNCHANGED <<disk, snapshots, given, fl, ring, errors, obsolete, inTrash,
                   heard, stop, faults, clients, muted, spared>>

\* It is installed as every uncompressed variant, unless that one is fresh.
RawPaths == Paths(fl) \ Compressed

InstallPatched ==
    /\ pc = "install"
    /\ \E k \in DOMAIN todo :
         LET t == todo[k]
             new == ~fl[t].uptodate
         IN /\ First(k, RawPaths)
            /\ SyncSiblings(IF new THEN [disk EXCEPT ![t] = disk[DiffIndex]] ELSE disk,
                            IF new THEN [fl EXCEPT ![t].uptodate = TRUE, ![t].ondisk = TRUE]
                            ELSE fl, t)
            /\ todo' = Rest(k)
    /\ UNCHANGED <<snapshots, given, ring, errors, obsolete, inTrash, heard,
                   stop, pc, clients, spared>>

\* Or it cannot be installed there, and the siblings are left alone.
InstallFails ==
    /\ pc = "install"
    /\ faults < MaxFaults
    /\ \E k \in DOMAIN todo :
         /\ First(k, RawPaths) /\ ~fl[todo[k]].uptodate
         /\ disk' \in {disk, [disk EXCEPT ![todo[k]] = None]}
         /\ todo' = Rest(k)
    /\ faults' = faults + 1
    /\ UNCHANGED <<snapshots, given, fl, ring, errors, obsolete, inTrash, heard,
                   stop, pc, clients, muted, spared>>

PatchDone ==
    /\ \/ pc = "patch" /\ (NeedsPatch => NotPatched(Len(ByKind)))
       \/ pc = "install" /\ ~Ahead(RawPaths)
    /\ pc' = "group" /\ todo' = GroupOrder
    /\ UNCHANGED <<disk, snapshots, given, fl, ring, errors, obsolete, inTrash,
                   heard, stop, faults, clients, muted, spared>>

-----------------------------------------------------------------------------
(* Downloading what is left                                                *)

\* Files that are neither missing nor disabled.
Considered == {f \in Files : fl[f].ondisk /\ ~fl[f].ignore}

\* The group's own loop: a fresh file makes its siblings dispensable, one that
\* is reported as failed is not read.
GroupDownload ==
    /\ pc = "group"
    /\ \E k \in DOMAIN todo : \E plan \in Plans(todo[k], FALSE) :
         LET f == todo[k]
             lost == Reported(plan) = "FAIL"
             g == FlagsAfter(f, plan)
         IN /\ First(k, Considered) /\ ~fl[f].uptodate
            /\ Downloaded(f, plan)
            /\ fl' = IF lost THEN [g EXCEPT ![f].ignore = TRUE] ELSE g
            /\ errors' = IF lost /\ ~fl[f].forgive THEN errors + 1 ELSE errors
            /\ spared' = IF lost /\ fl[f].forgive THEN spared \cup {f} ELSE spared
            /\ pc' = IF lost THEN "group" ELSE "shared"
            /\ todo' = IF lost THEN Rest(k) ELSE Rest(k - 1)
    /\ UNCHANGED <<snapshots, given, ring, heard, stop, clients, muted>>

GroupShare ==
    /\ pc \in {"group", "shared"}
    /\ \E k \in DOMAIN todo :
         LET f == todo[k] IN
         /\ First(k, Considered) /\ (pc = "group" => fl[f].uptodate)
         /\ IF fl[f].uptodate /\ f \in Variants THEN SyncSiblings(disk, fl, f)
            ELSE UNCHANGED <<disk, fl, faults, muted>>
         /\ todo' = Rest(k)
    /\ pc' = "group"
    /\ UNCHANGED <<snapshots, given, ring, errors, obsolete, inTrash,
                   heard, stop, clients, spared>>

GroupDone ==
    /\ pc = "group"
    /\ ~Ahead(Considered)
    /\ pc' = "rest" /\ todo' = Order
    /\ UNCHANGED <<disk, snapshots, given, fl, ring, errors, obsolete,
                   inTrash, heard, stop, faults, clients, muted, spared>>

Wanted == {f \in Considered : ~fl[f].uptodate}

\* "fetch all remaining stuff, at least the relevant parts"
RestDownload ==
    /\ pc = "rest"
    /\ \E k \in DOMAIN todo : \E plan \in Plans(todo[k], TRUE) :
         /\ First(k, Wanted)
         /\ Downloaded(todo[k], plan)
         /\ fl' = FlagsAfter(todo[k], plan)
         /\ errors' = IF Reported(plan) = "FAIL" /\ ~fl[todo[k]].forgive
                      THEN errors + 1 ELSE errors
         /\ todo' = Rest(k)
    /\ UNCHANGED <<snapshots, given, ring, heard, stop, pc, clients, muted, spared>>

RestDone ==
    /\ pc = "rest"
    /\ ~Ahead(Wanted)
    /\ pc' = "read" /\ todo' = <<>>
    /\ UNCHANGED <<disk, snapshots, given, fl, ring, errors, obsolete,
                   inTrash, heard, stop, faults, clients, muted, spared>>

-----------------------------------------------------------------------------
(* ProcessSeenIndexFiles                                                   *)

\* CheckAndReportError() || CheckStopSignal()
GivesUp == stop \/ (errors > 0 /\ given.errAbort)

StartReading ==
    /\ pc = "read"
    /\ fl' = Preferred(fl)
    /\ IF GivesUp THEN pc' = "end" /\ todo' = <<>>
       ELSE pc' = "reading" /\ todo' = Order
    /\ UNCHANGED <<disk, snapshots, given, ring, errors, obsolete,
                   inTrash, heard, stop, faults, clients, muted, spared>>

\* Bug for the mutation check: files that were not updated are not read.
ReadableFresh ==
    {f \in Files : ~fl[f].ignore /\ fl[f].uptodate /\ (given.byPath \/ ~fl[f].parsed)}

Readable ==
    {f \in Files : /\ ~fl[f].ignore
                   /\ fl[f].ondisk \/ fl[f].uptodate
                   /\ given.byPath \/ ~fl[f].parsed}

\* ParseAndProcessMetaFile has handed out every entry of the file.
ReadsAll(f) ==
    /\ disk[f] # None
    /\ heard' = heard \cup {f}
    /\ UNCHANGED <<errors, faults, spared>>

\* It cannot be opened, or is damaged.
ReadsBad(f) ==
    /\ \/ disk[f] = None /\ UNCHANGED faults
       \/ disk[f] # None /\ faults < MaxFaults /\ faults' = faults + 1
    /\ errors' = IF fl[f].forgive THEN errors ELSE errors + 1
    /\ spared' = IF fl[f].forgive THEN spared \cup {f} ELSE spared
    /\ UNCHANGED heard

\* "equivalent checks done before": without path checks a file that was read
\* stands for the whole ring.
AlreadyParsed(f) ==
    [t \in Files |-> [fl[t] EXCEPT !.parsed = @ \/ t = f \/ {t, f} \subseteq ring]]

ReadIndex ==
    /\ pc = "reading" /\ ~stop
    /\ \E k \in DOMAIN todo :
         /\ First(k, Readable)
         /\ \/ /\ ReadsAll(todo[k])
               /\ fl' = IF given.byPath THEN fl ELSE AlreadyParsed(todo[k])
            \/ ReadsBad(todo[k]) /\ UNCHANGED fl
         /\ todo' = Rest(k)
    /\ UNCHANGED <<disk, snapshots, given, ring, obsolete, inTrash, stop,
                   pc, clients, muted>>

\* What is not covered now is reviewed for removal.
ReadingDone ==
    /\ pc = "reading"
    /\ stop \/ ~Ahead(Readable)
    /\ pc' = IF GivesUp THEN "end" ELSE "review"
    /\ todo' = <<>>
    /\ UNCHANGED <<disk, snapshots, given, fl, ring, errors, obsolete,
                   inTrash, heard, stop, faults, clients, muted, spared>>

-----------------------------------------------------------------------------
Task ==
    \/ Walk \/ Forced \/ ForcedDone \/ RestoreFails \/ RestoreFiles \/ UpdateRelease
    \/ ReleasesDone \/ FixMissingByHashLinks \/ SnapshotsDone \/ ExtractGroups
    \/ FetchBase \/ BaseDone \/ SyncGroups \/ SyncLeaves \/ ShareKnowledge \/ ShareDone
    \/ PatchFresh \/ PatchWorks \/ InstallPatched \/ InstallFails \/ PatchDone
    \/ GroupDownload \/ GroupShare \/ GroupDone \/ RestDownload \/ RestDone
    \/ StartReading \/ ReadIndex \/ ReadingDone

Next == Task \/ Cancel \/ \E f \in Files : ClientFetch(f)

Spec == Init /\ [][Next]_vars /\ WF_vars(Task)

-----------------------------------------------------------------------------
(* Properties                                                              *)

Reviewed == pc = "review" /\ errors = 0

\* Files of which S are in the cache, and none of them was read; nor was the
\* reason an error that the task forgives (files of ignore_list, and those it
\* pretends to have).
Unread(S) ==
    /\ \E f \in S : fl[f].ondisk
    /\ heard \cap S = {} /\ spared \cap S = {}

\* The updating and skipping of equivalent files never leaves a group without
\* a reader: when the candidates for removal are reviewed after a run without
\* errors and some variant of the index is in the cache, one of them was read,
\* or could not be and the error is one to forgive; otherwise all packages of
\* the archive look unreferenced.  The same goes for the release files, which
\* cover the index files.  The exception: SyncSiblings does not look at the
\* flags of its source, so a fresh variant that was disabled itself disables
\* the one that was to be read instead (GroupRead).
GroupHeard ==
    Reviewed => (muted \/ ~Unread(Variants)) /\ ~Unread(Releases)

\* "only skipping when file was processed correctly": the variants of an index
\* are skipped for the sake of one that was read, without the exception of
\* GroupHeard.
GroupRead ==
    Reviewed => ~Unread(Variants)

\* The cache had no list of diffs and no by-hash name of an older release.
NoLeftover ==
    given.disk[DiffIndex] \in {None, Current} /\ given.blobs \subseteq {Current}

\* The index that is read is the one of the release: when nothing has failed,
\* the servers have all files, and no leftover of an older release is in the
\* cache, then a variant of the version of the release file has been read,
\* whatever mixture of versions the cache had and whatever clients have fetched
\* before patches were installed and the files read.  The servers' version is
\* the same throughout a run.  (With leftovers, the code may declare an old
\* variant fresh.)
CoverKept ==
    Reviewed /\ ~muted /\ faults = 0 /\ given.offers = Files /\ NoLeftover /\ ~given.skip =>
      \A r \in heard \cap Releases :
        (\E f \in Variants : fl[f].ondisk) =>
           \E t \in heard \cap Variants : disk[t] = disk[r]
=============================================================================
