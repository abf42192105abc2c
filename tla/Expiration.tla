---------------------------- MODULE Expiration ----------------------------
(***************************************************************************)
(* The expiration tasks (expiration.cc): finding package files that no     *)
(* index refers to, remembering them in the file _expending_dat and        *)
(* removing those that stay unreferenced for more than Threshold days.     *)
(* Clients fetch files, the archive changes and the daemon may die at any  *)
(* moment; what survives is the cache, the index on disk, the two lists    *)
(* and the failure count.                                                  *)
(*                                                                         *)
(* A date is the number of days since then, counted up to Threshold + 1.   *)
(* The clock is m_gMaintTimeNow, a global that every maintenance request   *)
(* sets, so days also pass for a task that is running: downloads and       *)
(* checksums may take that long, the last pass over the candidates is      *)
(* taken to end within the day.  The clock does not go back.               *)
(* UpdateVolatileFiles, the subject of module IndexUpdate, either brings   *)
(* the index up to date, or leaves the old one, or fails.                  *)
(***************************************************************************)
EXTENDS MaintTask, Sequences, SequencesExt

CONSTANTS
    Pkgs,          \* package files
    Order,         \* the same, in the order of m_trashFile2dir2Info
    Package,       \* name and architecture of those that are .deb files
    Version,       \* and their version
    KeepNVer,      \* cfg::keepnver, or zero when there is no dpkg
    Whitelist,     \* files that match FILE_WHITELIST
    Threshold,     \* cfg::extreshhold, in days
    TradeOff,      \* cfg::exstarttradeoff is set
    Commands,      \* the commands that sessions give
    Daily,         \* the one of the daily job
    Contents,      \* what a client may leave in a file
    Found,         \* what the files are at first
    MaxEvents,     \* bound: events from outside: fetches, changes, faults
    None

Kinds == {"expire", "purge", "purgeDamaged", "truncDamaged"}

\* The files that tPkgId::Set accepts.
Debs == DOMAIN Package

ASSUME NoneAssumption == None \notin Nat

ASSUME ExpirationAssumption ==
    /\ Threshold \in Nat /\ KeepNVer \in Nat /\ TradeOff \in BOOLEAN
    /\ Order \in Seq(Pkgs) /\ ToSet(Order) = Pkgs
    /\ Debs \subseteq Pkgs /\ Version \in [Debs -> Nat] /\ Whitelist \subseteq Pkgs
    /\ Daily \in Commands /\ Daily.kind = "expire" /\ ~Daily.purgeNow
    /\ Commands \subseteq [kind : Kinds, purgeNow : BOOLEAN, incomplete : BOOLEAN,
                           truncate : BOOLEAN, byPath : BOOLEAN,
                           byChecksum : BOOLEAN, ignoreTradeOff : BOOLEAN,
                           errAbort : BOOLEAN]

VARIABLES
    disk,       \* what is in each file
    refs,       \* files that the archive's index refers to
    index,      \* files that the index in the cache refers to
    pending,    \* _expending_dat: since when a file is unreferenced
    damaged,    \* _expending_damaged
    failing,    \* _exfail_cnt exists
    traffic,    \* enough was downloaded since the last run
    pc,         \* of the running task
    todo,       \* what its loop has still to visit
    trash,      \* m_trashFile2dir2Info: file to nLostAt
    covered,    \* files whose entry there was erased, because an index refers
                \* to them and they are good; the file's name stays a key
    forced,     \* m_forceKeepInTrash
    tagged,     \* entries written to the new _expending_dat
    errors,     \* m_nErrorCount > 0
    events,
    age,        \* history: days since the current run has seen the cache
    since       \* history: since when all complete regular runs found a file
                \* unreferenced or damaged

cacheVars == <<disk, refs, index>>
listVars == <<pending, damaged, failing, traffic>>
runVars == <<pc, todo, trash, forced, tagged, errors, covered, age>>
vars == <<taskVars, cacheVars, listVars, runVars, events, since>>

-----------------------------------------------------------------------------
Old == Threshold + 1
Dates == 0..Old
Older(t) == IF t = None \/ t = Old THEN t ELSE t + 1

TypeOK ==
    /\ disk \in [Pkgs -> {"none", "part", "whole", "long", "rotten", "nolength"}]
    /\ refs \subseteq Pkgs /\ index \subseteq Pkgs
    /\ pending \in [Pkgs -> Dates \cup {None}]
    /\ trash \in [Pkgs -> Dates \cup {None}]
    /\ tagged \in [Pkgs -> Dates \cup {None}]
    /\ since \in [Pkgs -> Dates \cup {None}]
    /\ covered \subseteq Pkgs /\ age \in Dates

First(S) == SelectSeq(Order, LAMBDA p : p \in S)[1]

Nobody == [p \in Pkgs |-> None]

Init ==
    /\ TaskInit
    /\ disk = Found
    /\ refs = Pkgs \ {First(Pkgs)} /\ index = Pkgs
    /\ pending = Nobody /\ damaged = {} /\ failing = FALSE /\ traffic = TRUE
    /\ pc = "none" /\ todo = {} /\ trash = Nobody /\ forced = {}
    /\ tagged = Nobody /\ errors = FALSE
    /\ events = 0 /\ since = Nobody /\ covered = {} /\ age = 0

Event == events < MaxEvents /\ events' = events + 1

-----------------------------------------------------------------------------
(* The world outside                                                       *)

\* A client fetches a file, completely or not; the servers keep some files
\* longer than the index refers to them.
Fetch(p) ==
    /\ disk[p] \in {"none", "part"}
    /\ Event
    /\ \E c \in Contents : disk' = [disk EXCEPT ![p] = c]
    /\ traffic' = TRUE
    /\ UNCHANGED <<taskVars, refs, index, pending, damaged, failing, runVars, since>>

ArchiveChanges(p) ==
    /\ Event
    /\ refs' = IF p \in refs THEN refs \ {p} ELSE refs \cup {p}
    /\ UNCHANGED <<taskVars, disk, index, listVars, runVars, since>>

Traffic ==
    /\ ~traffic
    /\ traffic' = TRUE
    /\ UNCHANGED <<taskVars, cacheVars, pending, damaged, failing, runVars, events,
                   since>>

Day ==
    /\ pc # "review"
    /\ pending' = [p \in Pkgs |-> Older(pending[p])]
    /\ trash' = [p \in Pkgs |-> Older(trash[p])]
    /\ age' = Older(age)
    /\ since' = [p \in Pkgs |-> Older(since[p])]
    /\ UNCHANGED <<taskVars, cacheVars, damaged, failing, traffic, pc, todo, forced,
                   tagged, errors, covered, events>>

\* The daemon is killed, or shut down, and started again.  What was written to
\* _expending_dat may have reached the disk or not.
Crash ==
    /\ IF down THEN UNCHANGED events ELSE Event
    /\ TaskRestart
    /\ pending' \in IF pc = "review" /\ \A s \in Workers : ~cmd[s].purgeNow
                    THEN {[p \in Pkgs |-> IF p \in S THEN tagged[p] ELSE None] :
                            S \in SUBSET Pkgs}
                    ELSE {pending}
    /\ pc' = "none" /\ todo' = {} /\ trash' = Nobody /\ forced' = {}
    /\ tagged' = Nobody /\ errors' = FALSE /\ covered' = {} /\ age' = 0
    /\ traffic' \in {traffic, FALSE}
    /\ UNCHANGED <<cacheVars, damaged, failing, since>>

\* tDeleter, which needs no registration: the file is removed with its header,
\* or its data is cut off.
Delete(p) ==
    /\ Event
    /\ disk[p] # "none"
    /\ \E left \in {"none", "part"} : disk' = [disk EXCEPT ![p] = left]
    /\ UNCHANGED <<taskVars, refs, index, listVars, runVars, since>>

-----------------------------------------------------------------------------
(* Sessions                                                                *)

Ask(s, c) ==
    /\ \E id \in Ids : Register(s, c, id)
    /\ IF c = Daily THEN UNCHANGED events ELSE Event
    /\ UNCHANGED <<cacheVars, listVars, runVars, since>>

AskInVain(s) ==
    /\ Event
    /\ \E id \in Ids : RegisterFails(s, id)
    /\ UNCHANGED <<cacheVars, listVars, runVars, since>>

Visit(s) ==
    /\ Event
    /\ Attach(s)
    /\ UNCHANGED <<cacheVars, listVars, runVars, since>>

Listen(s) ==
    /\ Follow(s) \/ FollowFails(s) \/ LogEnds(s)
    /\ UNCHANGED <<cacheVars, listVars, runVars, events, since>>

Stop ==
    /\ SigAbort \/ Shutdown
    /\ Event
    /\ UNCHANGED <<cacheVars, listVars, runVars, since>>

Work(s) == st[s] = "working"

\* Action(): which of the tasks it is.
Start(s) ==
    /\ Begin(s)
    /\ pc' = IF cmd[s].kind = "expire" THEN "tradeoff" ELSE cmd[s].kind
    /\ todo' = IF cmd[s].kind \in {"purgeDamaged", "truncDamaged"} THEN damaged ELSE {}
    /\ trash' = Nobody /\ forced' = {} /\ tagged' = Nobody
    /\ errors' = FALSE /\ covered' = {} /\ age' = 0
    /\ UNCHANGED <<cacheVars, listVars, events, since>>

End(s) ==
    /\ pc = "done"
    /\ Finish(s)
    /\ pc' = "none" /\ todo' = {} /\ trash' = Nobody /\ forced' = {}
    /\ tagged' = Nobody /\ errors' = FALSE /\ covered' = {} /\ age' = 0
    /\ UNCHANGED <<cacheVars, listVars, events, since>>

-----------------------------------------------------------------------------
(* Expiration                                                              *)

\* The check of costs versus benefit.
CheckTradeOff(s) ==
    /\ Work(s) /\ pc = "tradeoff"
    /\ pc' = IF TradeOff /\ ~cmd[s].ignoreTradeOff /\ ~cmd[s].byChecksum /\ ~traffic
             THEN "done" ELSE "walk"
    /\ UNCHANGED <<taskVars, cacheVars, listVars, todo, trash, forced, tagged,
                   errors, covered, events, age, since>>

\* BuildCacheFileList: every file is a candidate for removal at first.  A
\* cancelled task goes to save_fail_count.
BuildCacheFileList(s) ==
    /\ Work(s) /\ pc = "walk"
    /\ trash' = [p \in Pkgs |-> IF disk[p] = "none" THEN None ELSE 0]
    /\ age' = 0
    /\ pc' = IF CheckStopSignal THEN "save" ELSE "update"
    /\ UNCHANGED <<taskVars, cacheVars, listVars, todo, forced, tagged, errors,
                   covered, events, since>>

\* LoadHints and UpdateVolatileFiles.
UpdateVolatileFiles(s) ==
    /\ Work(s) /\ pc = "update"
    /\ \/ index' = refs /\ UNCHANGED <<errors, events>>
       \/ Event /\ UNCHANGED <<index, errors>>
       \/ Event /\ errors' = TRUE /\ UNCHANGED index
    /\ pc' = IF CheckStopSignal THEN "save" ELSE "check"
    /\ UNCHANGED <<taskVars, disk, refs, listVars, todo, trash, forced, tagged,
                   covered, age, since>>

\* CheckAndReportError() || CheckStopSignal()
GivesUp(s) == (errors /\ cmd[s].errAbort) \/ CheckStopSignal

\* The list of damaged files is started anew.
CheckErrors(s) ==
    /\ Work(s) /\ pc = "check"
    /\ damaged' = {}
    /\ pc' = IF GivesUp(s) THEN "save" ELSE "read"
    /\ todo' = index
    /\ UNCHANGED <<taskVars, cacheVars, pending, failing, traffic, trash, forced,
                   tagged, errors, covered, events, age, since>>

\* DetectUncovered: what becomes of a file that an index refers to.
Incomplete(c) ==
    IF ~c.incomplete THEN "good" ELSE IF c.truncate THEN "truncate" ELSE "bad"

Detect(p, c) ==
    IF p \in forced THEN "bad"
    ELSE CASE disk[p] = "none" -> "gone"
           [] disk[p] = "nolength" -> "bad"
           [] disk[p] = "part" /\ (c.byPath \/ c.byChecksum) -> Incomplete(c)
           [] disk[p] = "long" /\ (c.byPath \/ c.byChecksum) -> "bad"
           [] disk[p] = "rotten" /\ c.byChecksum -> "bad"
           [] OTHER -> "good"

\* HandlePkgEntry, called by ProcessSeenIndexFiles for an entry of the index.
HandlePkgEntry(s, p) ==
    /\ Work(s) /\ pc = "read"
    /\ p \in todo /\ p = First(todo)
    /\ todo' = todo \ {p}
    /\ LET verdict == IF trash[p] = None THEN "unknown" ELSE Detect(p, cmd[s]) IN
         /\ trash' = IF verdict \in {"good", "truncate"}
                     THEN [trash EXCEPT ![p] = None] ELSE trash
         /\ covered' = IF verdict \in {"good", "truncate"} THEN covered \cup {p}
                       ELSE covered
         /\ damaged' = IF verdict = "bad" /\ p \notin forced THEN damaged \cup {p}
                       ELSE damaged
         /\ forced' = IF verdict = "gone" THEN forced \cup {p} ELSE forced
         /\ disk' = IF verdict = "truncate" THEN [disk EXCEPT ![p] = "part"] ELSE disk
    /\ UNCHANGED <<taskVars, refs, index, pending, failing, traffic, pc, tagged,
                   errors, events, age, since>>

ReadingFails(s) ==
    /\ Work(s) /\ pc = "read"
    /\ Event
    /\ errors' = TRUE
    /\ todo' = {}
    /\ UNCHANGED <<taskVars, cacheVars, listVars, pc, trash, forced, tagged,
                   covered, age, since>>

ReadingDone(s) ==
    /\ Work(s) /\ pc = "read"
    /\ todo = {} \/ CheckStopSignal
    /\ pc' = IF GivesUp(s) THEN "save" ELSE "open"
    /\ todo' = {}
    /\ UNCHANGED <<taskVars, cacheVars, listVars, trash, forced, tagged, errors,
                   covered, events, age, since>>

\* Bug for the mutation check: the dates are not carried over.
PreviousLost(t) == t

\* Bug for the mutation check: files that are no candidates get the date, too.
PreviousAll(t) == [p \in Pkgs |-> IF pending[p] # None THEN pending[p] ELSE t[p]]

\* LoadPreviousData(false): a candidate keeps the date when it was found first.
\* A listed file that is no candidate gets an entry without a date (None here,
\* the loop of RemoveAndStoreStatus skips it), see Entries.
Previous(t) ==
    [p \in Pkgs |-> IF pending[p] # None /\ t[p] # None THEN pending[p] ELSE t[p]]

Entries(t) == {p \in Pkgs : t[p] # None \/ pending[p] # None}

Place(p) == CHOOSE i \in DOMAIN Order : Order[i] = p

\* The group of p among the .deb names in the map: its neighbours in the order
\* of the hash map, up to the next other package.
Group(names, p) ==
    {q \in names :
        \A r \in names :
            \/ Place(p) <= Place(r) /\ Place(r) <= Place(q)
            \/ Place(q) <= Place(r) /\ Place(r) <= Place(p)
            => Package[r] = Package[p]}

\* The highest versions of each group; names of files that an index refers to
\* count.
KeptVersions(names) ==
    {p \in names :
        Cardinality({q \in Group(names, p) : Version[q] > Version[p]}) < KeepNVer}

\* DropExceptionalVersions: the entries of those are lost only as of now, also
\* the entry of a listed file that is referenced again.
Exceptional(t) ==
    IF KeepNVer = 0 THEN t
    ELSE LET kept == KeptVersions((Entries(t) \cup covered) \cap Debs) \cap Entries(t)
         IN [p \in Pkgs |-> IF p \in kept THEN 0 ELSE t[p]]

\* Candidates that the loop of RemoveAndStoreStatus does not skip.
Candidates(t) == {p \in Pkgs : t[p] # None /\ (p \in Whitelist => p \in forced)}

\* RemoveAndStoreStatus opens _expending_dat and so truncates it, but for
\* purgeNow.
OpenStatus(s) ==
    /\ Work(s) /\ pc = "open"
    /\ LET t == IF cmd[s].purgeNow THEN Previous(trash) ELSE Exceptional(Previous(trash))
       IN /\ trash' = t
          /\ todo' = Candidates(t)
          /\ since' = IF cmd[s].purgeNow THEN since
                      ELSE [p \in Pkgs |->
                              IF trash[p] = None \/ p \in covered THEN None
                              ELSE IF since[p] = None THEN age ELSE since[p]]
    /\ pending' = IF cmd[s].purgeNow THEN pending ELSE Nobody
    /\ pc' = "review"
    /\ UNCHANGED <<taskVars, cacheVars, damaged, failing, traffic, forced, tagged,
                   errors, covered, age, events>>

\* A run that is not suppressed uses up what was downloaded.
TrafficAfter(c) ==
    IF TradeOff /\ ~c.ignoreTradeOff /\ ~c.byChecksum THEN FALSE ELSE traffic

\* "Unable to open ... attempting to recreate": in vain, and the old file may be
\* removed by it.  No package file is removed.
OpenFails(s) ==
    /\ Work(s) /\ pc = "open"
    /\ ~cmd[s].purgeNow
    /\ Event
    /\ pending' \in {pending, Nobody}
    /\ traffic' = TrafficAfter(cmd[s])
    /\ pc' = "save"
    /\ UNCHANGED <<taskVars, cacheVars, damaged, failing, todo, trash, forced,
                   tagged, errors, covered, age, since>>

\* TIMEEXPIRED
TimeExpired(t) == t > Threshold

\* One candidate: removed with its header file, or tagged.
Review(s, p) ==
    /\ Work(s) /\ pc = "review"
    /\ p \in todo /\ p = First(todo)
    /\ todo' = todo \ {p}
    /\ \/ /\ cmd[s].purgeNow \/ TimeExpired(trash[p])
          /\ disk' = [disk EXCEPT ![p] = "none"]
          /\ UNCHANGED tagged
       \/ /\ ~cmd[s].purgeNow /\ ~TimeExpired(trash[p])
          /\ tagged' = [tagged EXCEPT ![p] = trash[p]]
          /\ UNCHANGED disk
    /\ UNCHANGED <<taskVars, refs, index, listVars, pc, trash, forced, errors,
                   covered, events, age, since>>

\* _expending_dat is closed; maintenance logs and temporary files are removed.
Reviewed(s) ==
    /\ Work(s) /\ pc = "review"
    /\ todo = {}
    /\ pending' = IF cmd[s].purgeNow THEN pending ELSE tagged
    /\ traffic' = TrafficAfter(cmd[s])
    /\ pc' = "save"
    /\ UNCHANGED <<taskVars, cacheVars, damaged, failing, todo, trash, forced,
                   tagged, errors, covered, events, age, since>>

\* save_fail_count
SaveFailCount(s) ==
    /\ Work(s) /\ pc = "save"
    /\ failing' = errors
    /\ pc' = "done"
    /\ UNCHANGED <<taskVars, cacheVars, pending, damaged, traffic, todo, trash,
                   forced, tagged, errors, covered, events, age, since>>

-----------------------------------------------------------------------------
(* The other tasks                                                         *)

\* workExPurge: all files of _expending_dat, which stays as it is.
PurgePending(s) ==
    /\ Work(s) /\ pc = "purge"
    /\ disk' = [p \in Pkgs |->
                  IF pending[p] # None /\ p \notin Whitelist THEN "none" ELSE disk[p]]
    /\ pc' = "done"
    /\ UNCHANGED <<taskVars, refs, index, listVars, todo, trash, forced, tagged,
                   errors, covered, events, age, since>>

\* HandleDamagedFiles: file by file, through the registry.
HandleDamaged(s, p) ==
    /\ Work(s) /\ pc \in {"purgeDamaged", "truncDamaged"}
    /\ p \in todo /\ p = First(todo)
    /\ disk' = [disk EXCEPT ![p] =
                  IF pc = "purgeDamaged" THEN "none"
                  ELSE IF disk[p] = "none" THEN "none" ELSE "part"]
    /\ todo' = todo \ {p}
    /\ UNCHANGED <<taskVars, refs, index, listVars, pc, trash, forced, tagged,
                   errors, covered, events, age, since>>

DamagedDone(s) ==
    /\ Work(s) /\ pc \in {"purgeDamaged", "truncDamaged"}
    /\ todo = {}
    /\ pc' = "done"
    /\ UNCHANGED <<taskVars, cacheVars, listVars, todo, trash, forced, tagged,
                   errors, covered, events, age, since>>

-----------------------------------------------------------------------------
Task(s) ==
    \/ Start(s) \/ CheckTradeOff(s) \/ BuildCacheFileList(s)
    \/ UpdateVolatileFiles(s) \/ CheckErrors(s)
    \/ \E p \in Pkgs : HandlePkgEntry(s, p) \/ Review(s, p) \/ HandleDamaged(s, p)
    \/ ReadingFails(s) \/ ReadingDone(s) \/ OpenStatus(s) \/ OpenFails(s)
    \/ Reviewed(s) \/ SaveFailCount(s) \/ PurgePending(s) \/ DamagedDone(s)
    \/ End(s)

Next ==
    \/ \E p \in Pkgs : Fetch(p) \/ ArchiveChanges(p) \/ Delete(p)
    \/ Traffic \/ Day \/ Crash \/ Stop
    \/ \E s \in Sessions :
         (\E c \in Commands : Ask(s, c)) \/ AskInVain(s) \/ Visit(s) \/ Listen(s) \/ Task(s)

\* A daily job asks for an expiration (debian/apt-cacher-ng.cron.daily), threads
\* run, time passes and the cache is in use.
CronJob(s) == Ask(s, Daily)

Fairness ==
    /\ \A s \in Sessions : WF_vars(Task(s)) /\ WF_vars(Listen(s)) /\ SF_vars(CronJob(s))
    /\ SF_vars(Day) /\ WF_vars(Traffic)
    /\ WF_vars(down /\ Crash)

Spec == Init /\ [][Next]_vars /\ Fairness

-----------------------------------------------------------------------------
(* Properties                                                              *)

\* The step removes p, in a regular run.  Runs that are asked to remove at once
\* (purgeNow) neither use the dates nor write down what they have found.
Removes(s, p) == Review(s, p) /\ ~cmd[s].purgeNow /\ disk[p] # disk'[p]

\* A removed file has been unreferenced or damaged in every complete run since
\* more than Threshold days, whatever the tasks, crashes and changes of the
\* archive in between; and the run that removes it has not found it referenced
\* and good.  The first does not hold of package versions when
\* KeepExtraVersions is set: DropExceptionalVersions dates files that are
\* referenced, and such a date is kept until the file is really lost.
NoEarlyRemoval ==
    [][\A s \in Sessions, p \in Pkgs :
         Removes(s, p) => /\ p \in Debs => KeepNVer # 0 \/ since[p] = Old
                          /\ p \notin Debs => since[p] = Old
                          /\ p \notin covered]_vars

\* A file that stays unreferenced is removed at last, unless it is whitelisted
\* or a version to keep.
OrphanGoes ==
    \A p \in Pkgs \ (Whitelist \cup Debs) :
      <>[](p \notin refs) => <>[](disk[p] = "none")
=============================================================================
