-------------------------- MODULE ExpirationProofs --------------------------
(***************************************************************************)
(* Proofs about MaintTask and Expiration for any number of sessions, ids   *)
(* and package files, any threshold and any configuration.                 *)
(*                                                                         *)
(* That one session works at a time needs the stamp: a session becomes the *)
(* worker only when it is zero.  That no file is removed early then rests  *)
(* on one relation that every step keeps: no date in any of the lists, on  *)
(* disk or in memory, is older than what the complete runs have seen.      *)
(* DropExceptionalVersions breaks the relation for the files it is about   *)
(* (they are dated while referenced), so it is stated for the others: all  *)
(* files if KeepExtraVersions is not set, all but the .deb files if it is. *)
(***************************************************************************)
EXTENDS Expiration, FiniteSetTheorems, TLAPS

\* What OneWorker needs to be inductive.
TaskInv ==
    /\ st \in [Sessions -> States]
    /\ \A s, t \in Workers : s = t
    /\ (stamp # 0) <=> (Workers # {})

\* Every worker has a command to work on.
CmdInv ==
    /\ cmd \in [Sessions -> Commands \cup {NoCmd}]
    /\ \A s \in Workers : cmd[s] \in Commands

Marks == [Pkgs -> Dates \cup {None}]

\* The lists of dates.
MarkInv ==
    /\ pending \in Marks /\ trash \in Marks /\ tagged \in Marks /\ since \in Marks
    /\ age \in Dates

\* Files that DropExceptionalVersions leaves alone.
Regular(p) == p \notin Debs \/ KeepNVer = 0

\* A date of m is not older than what the complete runs have seen.
Within(m, h) ==
    \A p \in Pkgs : Regular(p) /\ m[p] # None => h[p] # None /\ m[p] <= h[p]

\* Before the previous dates are loaded.
Fresh ==
    \A p \in Pkgs : /\ trash[p] \in {None, age}
                    /\ p \in covered => trash[p] = None
                    /\ since[p] # None => age <= since[p]

\* While candidates are reviewed.
Dated ==
    /\ \A p \in Pkgs : p \in covered => trash[p] \in {None, 0}
    /\ (\E s \in Workers : ~cmd[s].purgeNow) => Within(trash, since)

PhaseInv ==
    /\ Workers = {} => pc = "none"
    /\ pc \in {"tradeoff", "walk"} => covered = {}
    /\ pc \in {"update", "check", "read", "open"} => Fresh
    /\ pc \notin {"review", "save", "done"} => tagged = Nobody
    /\ pc = "review" => Dated /\ (\A p \in Pkgs : p \in todo => trash[p] # None)

DateInv == Within(pending, since) /\ Within(tagged, since)

IInv == TaskInv /\ CmdInv /\ MarkInv /\ PhaseInv /\ DateInv

-----------------------------------------------------------------------------
(* One worker                                                              *)

\* The steps of a session that are not about the cache.
SessionStep ==
    \/ \E s \in Sessions, c \in Commands, id \in Ids : Register(s, c, id)
    \/ \E s \in Sessions, id \in Ids : RegisterFails(s, id)
    \/ \E s \in Sessions : \/ Attach(s) \/ Begin(s) \/ Finish(s)
                           \/ Follow(s) \/ FollowFails(s) \/ LogEnds(s)
    \/ SigAbort \/ Shutdown \/ TaskRestart
    \/ UNCHANGED taskVars

\* A working task leaves the sessions alone.
LEMMA WorkLeavesSessions ==
    ASSUME NEW s \in Sessions, Task(s), ~Start(s), ~End(s)
    PROVE  UNCHANGED taskVars
  BY DEF Task, CheckTradeOff, BuildCacheFileList, UpdateVolatileFiles,
           CheckErrors, HandlePkgEntry, Review, HandleDamaged, ReadingFails,
           ReadingDone, OpenStatus, OpenFails, Reviewed, SaveFailCount,
           PurgePending, DamagedDone

\* Every step of Expiration is one of them for the variables of MaintTask.
LEMMA StepIsSessionStep == Next => SessionStep
  <1> SUFFICES ASSUME Next PROVE SessionStep
    OBVIOUS
  <1>1. CASE \E p \in Pkgs : Fetch(p) \/ ArchiveChanges(p) \/ Delete(p)
    BY <1>1 DEF Fetch, ArchiveChanges, Delete, SessionStep
  <1>2. CASE Traffic \/ Day
    BY <1>2 DEF Traffic, Day, SessionStep
  <1>3. CASE Crash
    BY <1>3 DEF Crash, SessionStep
  <1>4. CASE Stop
    BY <1>4 DEF Stop, SessionStep
  <1>5. ASSUME NEW s \in Sessions,
               (\E c \in Commands : Ask(s, c)) \/ AskInVain(s) \/ Visit(s) \/ Listen(s)
        PROVE  SessionStep
    BY <1>5 DEF Ask, AskInVain, Visit, Listen, SessionStep
  <1>6. ASSUME NEW s \in Sessions, Start(s) \/ End(s)
        PROVE  SessionStep
    BY <1>6 DEF Start, End, SessionStep
  <1>7. ASSUME NEW s \in Sessions, Task(s), ~Start(s), ~End(s)
        PROVE  SessionStep
    <2>1. UNCHANGED taskVars
      BY <1>7, WorkLeavesSessions
    <2> QED  BY <2>1 DEF SessionStep
  <1> QED  BY <1>1, <1>2, <1>3, <1>4, <1>5, <1>6, <1>7 DEF Next

\* No task at the start.
LEMMA TaskInvInit == Init => TaskInv
  BY DEF Init, TaskInit, TaskInv, Workers, States

\* The worker is unique and the stamp is set as long as there is one.
LEMMA TaskInvStep == TaskInv /\ SessionStep => TaskInv'
  <1> SUFFICES ASSUME TaskInv, SessionStep PROVE TaskInv'
    OBVIOUS
  <1> USE DEF TaskInv, Workers, States
  <1>1. ASSUME NEW s \in Sessions, NEW c \in Commands, NEW id \in Ids, Register(s, c, id)
        PROVE  TaskInv'
    BY <1>1, IdsAssumption DEF Register, Free
  <1>2. ASSUME NEW s \in Sessions, NEW id \in Ids, RegisterFails(s, id)
        PROVE  TaskInv'
    BY <1>2 DEF RegisterFails, Free
  <1>3. ASSUME NEW s \in Sessions, Attach(s) PROVE TaskInv'
    BY <1>3 DEF Attach
  <1>4. ASSUME NEW s \in Sessions, Begin(s) PROVE TaskInv'
    BY <1>4 DEF Begin
  <1>5. ASSUME NEW s \in Sessions, Finish(s) PROVE TaskInv'
    BY <1>5 DEF Finish
  <1>6. ASSUME NEW s \in Sessions, Follow(s) \/ FollowFails(s) \/ LogEnds(s)
        PROVE  TaskInv'
    BY <1>6 DEF Follow, FollowFails, LogEnds, Leave
  <1>7. CASE SigAbort \/ Shutdown \/ TaskRestart \/ UNCHANGED taskVars
    BY <1>7 DEF SigAbort, Shutdown, TaskRestart, taskVars
  <1> QED  BY <1>1, <1>2, <1>3, <1>4, <1>5, <1>6, <1>7 DEF SessionStep

\* A set without two different elements has at most one.
LEMMA AtMostOne ==
    ASSUME NEW S, \A s, t \in S : s = t
    PROVE  Cardinality(S) <= 1
  <1>1. CASE S = {}
    BY <1>1, FS_EmptySet
  <1>2. ASSUME NEW s \in S PROVE Cardinality(S) <= 1
    <2>1. S = {s}
      BY <1>2
    <2>2. Cardinality({s}) = 1
      BY FS_Singleton, Zenon
    <2> QED  BY <2>1, <2>2
  <1> QED  BY <1>1, <1>2

\* nBgTimestamp lets one session at a time work on the cache, and is set exactly
\* as long as one does.
THEOREM OneWorkerCorrect == Spec => []OneWorker
  <1>1. TaskInv /\ [Next]_vars => TaskInv'
    <2>1. UNCHANGED vars => SessionStep
      BY DEF vars, SessionStep
    <2> QED  BY <2>1, StepIsSessionStep, TaskInvStep
  <1>2. TaskInv => OneWorker
    BY AtMostOne DEF TaskInv, OneWorker
  <1> QED  BY TaskInvInit, <1>1, <1>2, PTL DEF Spec

-----------------------------------------------------------------------------
(* No early removal                                                        *)

\* No task, no dates.
LEMMA IInvInit == Init => IInv
  <1> SUFFICES ASSUME Init PROVE IInv
    OBVIOUS
  <1>1. TaskInv
    BY TaskInvInit
  <1>2. CmdInv
    BY DEF Init, TaskInit, CmdInv, Workers
  <1>3. MarkInv /\ DateInv
    BY ExpirationAssumption DEF Init, MarkInv, DateInv, Within, Marks, Nobody, Dates, Old
  <1>4. PhaseInv
    BY DEF Init, PhaseInv
  <1> QED  BY <1>1, <1>2, <1>3, <1>4 DEF IInv

\* Steps that leave everything the invariant speaks about alone.
dateVars == <<pending, pc, todo, trash, tagged, since, covered, age>>

\* Steps that leave sessions, lists and dates alone.
LEMMA StutterKeeps ==
    ASSUME IInv, UNCHANGED <<st, cmd, stamp>>, UNCHANGED dateVars
    PROVE  CmdInv' /\ MarkInv' /\ PhaseInv' /\ DateInv'
  BY DEF IInv, CmdInv, MarkInv, PhaseInv, DateInv, Within, Fresh, Dated, Workers,
         Nobody, dateVars

\* Sessions that come, listen and go do not touch the dates.
LEMMA SessionKeeps ==
    ASSUME IInv, NEW s \in Sessions,
           \/ \E c \in Commands : Ask(s, c)
           \/ AskInVain(s) \/ Visit(s) \/ Listen(s)
    PROVE  CmdInv' /\ MarkInv' /\ PhaseInv' /\ DateInv'
  <1> USE DEF IInv, TaskInv, States
  <1>1. UNCHANGED dateVars
    BY DEF Ask, AskInVain, Visit, Listen, runVars, listVars, dateVars
  <1>2. MarkInv' /\ DateInv'
    BY <1>1 DEF MarkInv, DateInv, Within, dateVars
  <1>3. CmdInv'
    BY DEF CmdInv, Workers, Ask, AskInVain, Visit, Listen, Register, RegisterFails,
           Attach, Follow, FollowFails, LogEnds, Leave
  <1>4. CASE \E c \in Commands : Ask(s, c)
    <2>1. Workers = {} /\ Workers' # {} /\ pc = "none"
      BY <1>4 DEF Ask, Register, Free, Workers, PhaseInv
    <2> QED  BY <1>1, <1>2, <1>3, <2>1 DEF PhaseInv, Nobody, dateVars
  <1>5. CASE AskInVain(s) \/ Visit(s) \/ Listen(s)
    <2>1. Workers' = Workers /\ cmd' = cmd
      BY <1>5 DEF AskInVain, Visit, Listen, RegisterFails, Attach, Follow,
                  FollowFails, LogEnds, Leave, Workers
    <2> QED  BY <1>1, <1>2, <1>3, <2>1 DEF PhaseInv, Fresh, Dated, Within, Nobody, dateVars
  <1> QED  BY <1>2, <1>3, <1>4, <1>5

\* A restart keeps a part of what was tagged, or the old list.
LEMMA CrashKeeps ==
    ASSUME IInv, Crash
    PROVE  CmdInv' /\ MarkInv' /\ PhaseInv' /\ DateInv'
  <1>1. CmdInv' /\ Workers' = {}
    BY DEF Crash, TaskRestart, CmdInv, Workers
  <1>2. trash' = Nobody /\ tagged' = Nobody /\ since' = since /\ pc' = "none" /\ age' = 0
    BY DEF Crash
  <1>3. pending' \in Marks /\ Within(pending', since)
    <2>1. CASE pending' = pending
      BY <2>1 DEF IInv, MarkInv, DateInv
    <2>2. ASSUME NEW S \in SUBSET Pkgs,
                 pending' = [p \in Pkgs |-> IF p \in S THEN tagged[p] ELSE None]
          PROVE  pending' \in Marks /\ Within(pending', since)
      BY <2>2 DEF IInv, MarkInv, DateInv, Within, Marks
    <2> QED  BY <2>1, <2>2 DEF Crash
  <1>4. MarkInv' /\ DateInv'
    BY <1>2, <1>3, ExpirationAssumption DEF IInv, MarkInv, DateInv, Within, Marks, Nobody,
                                            Dates, Old
  <1>5. PhaseInv'
    BY <1>2, Zenon DEF PhaseInv, Nobody
  <1> QED  BY <1>1, <1>4, <1>5

\* A day makes all dates older by as much.
LEMMA DayKeeps ==
    ASSUME IInv, Day
    PROVE  CmdInv' /\ MarkInv' /\ PhaseInv' /\ DateInv'
  <1> USE ExpirationAssumption, NoneAssumption DEF Dates, Old
  <1>1. CmdInv'
    BY DEF IInv, CmdInv, Day, Workers, taskVars
  <1>2. /\ UNCHANGED <<st, cmd, pc, todo, tagged, covered>> /\ pc # "review"
        /\ pending' = [p \in Pkgs |-> Older(pending[p])]
        /\ trash' = [p \in Pkgs |-> Older(trash[p])]
        /\ since' = [p \in Pkgs |-> Older(since[p])] /\ age' = Older(age)
    BY DEF Day, taskVars
  <1>3. /\ \A d \in Dates \cup {None} : /\ Older(d) \in Dates \cup {None}
                                        /\ Older(d) = None <=> d = None
                                        /\ d # None => d <= Older(d)
        /\ \A d, e \in Dates : d <= e => Older(d) <= Older(e)
    BY DEF Older
  <1>4. MarkInv'
    <2>1. age' \in Dates
      <3>1. age \in Dates /\ age # None
        BY DEF IInv, MarkInv
      <3> QED  BY <1>2, <1>3, <3>1
    <2>2. \A m \in Marks : [p \in Pkgs |-> Older(m[p])] \in Marks
      BY <1>3 DEF Marks
    <2> QED  BY <1>2, <2>1, <2>2 DEF IInv, MarkInv
  <1>5. DateInv'
    <2>1. \A p \in Pkgs : /\ pending'[p] = Older(pending[p]) /\ since'[p] = Older(since[p])
                          /\ pending[p] \in Dates \cup {None} /\ since[p] \in Dates \cup {None}
                          /\ tagged[p] \in Dates \cup {None}
      BY <1>2 DEF IInv, MarkInv, Marks
    <2>2. Within(pending', since')
      BY <1>3, <2>1 DEF IInv, DateInv, Within
    <2>3. Within(tagged, since')
      <3> SUFFICES ASSUME NEW p \in Pkgs, Regular(p), tagged[p] # None
                   PROVE  since'[p] # None /\ tagged[p] <= since'[p]
        BY DEF Within
      <3>1. since[p] # None /\ tagged[p] <= since[p]
        BY DEF IInv, DateInv, Within
      <3>2. since'[p] \in Dates /\ since[p] <= since'[p]
        BY <1>3, <2>1, <3>1
      <3> QED  BY <2>1, <3>1, <3>2
    <2> QED  BY <1>2, <2>2, <2>3 DEF DateInv, Within
  <1>6. Fresh => Fresh'
    <2>1. \A p \in Pkgs : /\ trash'[p] = Older(trash[p]) /\ since'[p] = Older(since[p])
                          /\ trash[p] \in Dates \cup {None} /\ since[p] \in Dates \cup {None}
                          /\ age \in Dates
      BY <1>2 DEF IInv, MarkInv, Marks
    <2> QED  BY <1>2, <1>3, <2>1 DEF Fresh
  <1>7. PhaseInv'
    BY <1>2, <1>6 DEF IInv, PhaseInv, Workers, Nobody
  <1> QED  BY <1>1, <1>4, <1>5, <1>7

\* The task begins with empty lists and ends with none.
LEMMA StartKeeps ==
    ASSUME IInv, NEW s \in Sessions, Start(s)
    PROVE  CmdInv' /\ MarkInv' /\ PhaseInv' /\ DateInv'
  <1>1. CmdInv' /\ s \in Workers' /\ cmd[s] \in Commands
    BY DEF IInv, TaskInv, States, CmdInv, Start, Begin, Workers
  <1>2. MarkInv' /\ DateInv'
    BY ExpirationAssumption DEF IInv, MarkInv, DateInv, Within, Marks, Nobody, Start, listVars,
                                Dates, Old
  <1>3. cmd[s].kind \in Kinds
    BY <1>1, ExpirationAssumption
  <1>4. pc' \in {"tradeoff", "purge", "purgeDamaged", "truncDamaged"}
    BY <1>3 DEF Start, Kinds
  <1>5. PhaseInv'
    BY <1>1, <1>4 DEF PhaseInv, Start, Nobody
  <1> QED  BY <1>1, <1>2, <1>5

\* The end of a task drops its lists.
LEMMA EndKeeps ==
    ASSUME IInv, NEW s \in Sessions, End(s)
    PROVE  CmdInv' /\ MarkInv' /\ PhaseInv' /\ DateInv'
  <1>1. CmdInv'
    BY DEF IInv, TaskInv, States, CmdInv, End, Finish, Workers
  <1>2. MarkInv' /\ DateInv'
    BY ExpirationAssumption DEF IInv, MarkInv, DateInv, Within, Marks, Nobody, End, listVars,
                                Dates, Old
  <1>3. PhaseInv'
    BY DEF PhaseInv, End, Nobody
  <1> QED  BY <1>1, <1>2, <1>3

\* A file that is found referenced and good is no candidate any more.
LEMMA EntryKeeps ==
    ASSUME IInv, NEW s \in Sessions, NEW p \in Pkgs, HandlePkgEntry(s, p)
    PROVE  MarkInv' /\ PhaseInv' /\ DateInv'
  <1>1. \/ trash' = trash /\ covered' = covered
        \/ trash' = [trash EXCEPT ![p] = None] /\ covered' = covered \cup {p}
    BY DEF HandlePkgEntry
  <1>2. UNCHANGED <<st, pending, pc, tagged, since, age>> /\ pc = "read"
    BY DEF HandlePkgEntry, taskVars
  <1>3. MarkInv' /\ DateInv'
    BY <1>1, <1>2 DEF IInv, MarkInv, DateInv, Within, Marks
  <1>4. Fresh'
    BY <1>1, <1>2 DEF IInv, PhaseInv, Fresh, MarkInv, Marks
  <1>5. PhaseInv'
    BY <1>2, <1>4 DEF IInv, PhaseInv, Workers, Nobody
  <1> QED  BY <1>3, <1>5

\* What LoadPreviousData and DropExceptionalVersions make of the candidates:
\* the date of this run, or the one of the list, or, for the versions to keep,
\* the date of today.
LEMMA LoadedDates ==
    ASSUME IInv, Fresh, NEW p \in Pkgs
    PROVE  /\ Previous(trash) \in Marks /\ Exceptional(Previous(trash)) \in Marks
           /\ Previous(trash)[p] \in {None, age, pending[p]}
           /\ trash[p] = None => Previous(trash)[p] = None
           /\ Regular(p) => Exceptional(Previous(trash))[p] = Previous(trash)[p]
           /\ p \in covered => Exceptional(Previous(trash))[p] \in {None, 0}
  <1>1. 0 \in Dates
    BY ExpirationAssumption DEF Dates, Old
  <1>2. /\ Previous(trash) \in Marks
        /\ Previous(trash)[p] \in {None, age, pending[p]}
        /\ trash[p] = None => Previous(trash)[p] = None
        /\ p \in covered => Previous(trash)[p] = None
    BY DEF IInv, MarkInv, Marks, Fresh, Previous
  <1>3. ASSUME NEW t \in Marks
        PROVE  /\ Exceptional(t) \in Marks
               /\ Exceptional(t)[p] \in {0, t[p]}
               /\ Regular(p) => Exceptional(t)[p] = t[p]
    <2>1. CASE KeepNVer = 0
      BY <2>1 DEF Exceptional
    <2>2. CASE KeepNVer # 0
      <3> DEFINE kept == KeptVersions((Entries(t) \cup covered) \cap Debs) \cap Entries(t)
      <3>1. Exceptional(t) = [q \in Pkgs |-> IF q \in kept THEN 0 ELSE t[q]]
        BY <2>2 DEF Exceptional
      <3>2. p \in kept => p \in Debs
        BY DEF KeptVersions
      <3> HIDE DEF kept
      <3> QED  BY <1>1, <2>2, <3>1, <3>2 DEF Marks, Regular
    <2> QED  BY <2>1, <2>2
  <1> QED  BY <1>2, <1>3

\* The merge with the dates of earlier runs.
LEMMA OpenKeeps ==
    ASSUME IInv, NEW s \in Sessions, OpenStatus(s)
    PROVE  MarkInv' /\ PhaseInv' /\ DateInv'
  <1> USE ExpirationAssumption, NoneAssumption DEF Dates, Old
  <1>1. /\ pc = "open" /\ pc' = "review" /\ Fresh /\ tagged = Nobody /\ s \in Workers
        /\ UNCHANGED <<st, cmd, tagged, covered, age>>
    BY DEF OpenStatus, IInv, PhaseInv, Work, Workers, taskVars
  <1>2. /\ trash' \in Marks
        /\ \A p \in Pkgs : /\ Regular(p) => /\ trash'[p] \in {None, age, pending[p]}
                                            /\ trash[p] = None => trash'[p] = None
                           /\ p \in covered => trash'[p] \in {None, 0}
    <2>1. trash' = Previous(trash) \/ trash' = Exceptional(Previous(trash))
      BY DEF OpenStatus
    <2>2. trash' \in Marks
      <3>1. CASE Pkgs = {}
        BY <2>1, <3>1 DEF Marks, Previous, Exceptional
      <3>2. ASSUME NEW p \in Pkgs PROVE trash' \in Marks
        BY <1>1, <2>1, LoadedDates
      <3> QED  BY <3>1, <3>2
    <2>3. ASSUME NEW p \in Pkgs
          PROVE  /\ Regular(p) => /\ trash'[p] \in {None, age, pending[p]}
                                  /\ trash[p] = None => trash'[p] = None
                 /\ p \in covered => trash'[p] \in {None, 0}
      <3>1. p \in covered => trash[p] = None
        BY <1>1 DEF Fresh
      <3>2. /\ Previous(trash)[p] \in {None, age, pending[p]}
            /\ trash[p] = None => Previous(trash)[p] = None
            /\ Regular(p) => Exceptional(Previous(trash))[p] = Previous(trash)[p]
            /\ p \in covered => Exceptional(Previous(trash))[p] \in {None, 0}
        BY <1>1, LoadedDates
      <3> QED  BY <2>1, <3>1, <3>2
    <2> QED  BY <2>2, <2>3
  <1>3. \A p \in Pkgs : p \in todo' => trash'[p] # None
    BY DEF OpenStatus, Candidates
  <1>4. CASE cmd[s].purgeNow
    <2>1. UNCHANGED <<pending, since>>
      BY <1>4 DEF OpenStatus
    <2>2. \A t \in Workers' : cmd'[t].purgeNow
      BY <1>1, <1>4 DEF IInv, TaskInv, Workers
    <2>3. MarkInv' /\ DateInv'
      BY <1>1, <1>2, <2>1 DEF IInv, MarkInv, DateInv, Within
    <2>4. Dated'
      BY <1>1, <1>2, <2>2 DEF Dated
    <2>5. PhaseInv'
      BY <1>1, <1>3, <2>4 DEF PhaseInv, Workers
    <2> QED  BY <2>3, <2>5
  <1>5. CASE ~cmd[s].purgeNow
    <2>1. /\ pending' = Nobody
          /\ since' = [p \in Pkgs |-> IF trash[p] = None \/ p \in covered THEN None
                                     ELSE IF since[p] = None THEN age ELSE since[p]]
      BY <1>5 DEF OpenStatus
    <2>2. MarkInv' /\ DateInv'
      BY <1>1, <1>2, <2>1 DEF IInv, MarkInv, Marks, DateInv, Within, Nobody
    <2>3. Within(trash', since')
      <3> SUFFICES ASSUME NEW p \in Pkgs, Regular(p), trash'[p] # None
                   PROVE  since'[p] # None /\ trash'[p] <= since'[p]
        BY DEF Within
      <3>1. trash[p] # None /\ p \notin covered /\ trash'[p] \in {age, pending[p]}
        BY <1>1, <1>2 DEF Fresh
      <3>2. since'[p] = IF since[p] = None THEN age ELSE since[p]
        BY <2>1, <3>1
      <3>3. /\ age \in Dates /\ pending[p] \in Dates \cup {None}
            /\ since[p] \in Dates \cup {None}
        BY DEF IInv, MarkInv, Marks
      <3>4. since[p] # None => age <= since[p]
        BY <1>1 DEF Fresh
      <3>5. pending[p] # None => since[p] # None /\ pending[p] <= since[p]
        BY DEF IInv, DateInv, Within
      <3> QED  BY <3>1, <3>2, <3>3, <3>4, <3>5
    <2>4. Dated'
      BY <1>1, <1>2, <2>3 DEF Dated, Within
    <2>5. PhaseInv'
      BY <1>1, <1>3, <2>4 DEF PhaseInv, Workers
    <2> QED  BY <2>2, <2>5
  <1> QED  BY <1>4, <1>5

\* A candidate is removed, or tagged with its date.
LEMMA ReviewKeeps ==
    ASSUME IInv, NEW s \in Sessions, NEW p \in Pkgs, Review(s, p)
    PROVE  MarkInv' /\ PhaseInv' /\ DateInv'
  <1>1. /\ UNCHANGED <<st, cmd, pending, pc, trash, since, covered, age>> /\ pc = "review"
        /\ todo' = todo \ {p} /\ s \in Workers
    BY DEF Review, taskVars, listVars, Work, Workers
  <1>2. \/ tagged' = tagged
        \/ ~cmd[s].purgeNow /\ tagged' = [tagged EXCEPT ![p] = trash[p]]
    BY DEF Review
  <1>3. MarkInv'
    BY <1>1, <1>2 DEF IInv, MarkInv, Marks
  <1>4. ~cmd[s].purgeNow => Within(trash, since)
    BY <1>1 DEF IInv, PhaseInv, Dated
  <1>5. DateInv'
    BY <1>1, <1>2, <1>4 DEF IInv, MarkInv, Marks, DateInv, Within
  <1>6. PhaseInv'
    BY <1>1 DEF IInv, PhaseInv, Dated, Within, Workers
  <1> QED  BY <1>3, <1>5, <1>6

\* The other steps of a task: they leave the dates alone, or put all files into
\* the list of candidates, or replace the list on disk by what was tagged.
LEMMA TaskKeeps ==
    ASSUME IInv, NEW s \in Sessions, Task(s)
    PROVE  CmdInv' /\ MarkInv' /\ PhaseInv' /\ DateInv'
  <1>1. CASE Start(s) \/ End(s)
    BY <1>1, StartKeeps, EndKeeps
  <1>2. CASE ~Start(s) /\ ~End(s)
    <2>0. UNCHANGED taskVars
      BY <1>2, WorkLeavesSessions
    <2>1. CmdInv'
      BY <2>0 DEF IInv, CmdInv, Workers, taskVars
    <2>2. CASE \E p \in Pkgs : HandlePkgEntry(s, p) \/ Review(s, p)
      BY <2>1, <2>2, EntryKeeps, ReviewKeeps
    <2>3. CASE OpenStatus(s)
      BY <2>1, <2>3, OpenKeeps
    <2>4. CASE BuildCacheFileList(s)
      <3>1. /\ trash' = [p \in Pkgs |-> IF disk[p] = "none" THEN None ELSE 0]
            /\ UNCHANGED <<st, pending, tagged, since, covered>> /\ age' = 0
            /\ pc = "walk" /\ pc' \in {"save", "update"}
        BY <2>4 DEF BuildCacheFileList, taskVars, listVars
      <3>2. 0 \in Dates
        BY ExpirationAssumption DEF Dates, Old
      <3>3. MarkInv' /\ DateInv'
        BY <3>1, <3>2 DEF IInv, MarkInv, Marks, DateInv, Within
      <3>4. Fresh'
        BY <3>1, ExpirationAssumption, NoneAssumption
           DEF IInv, PhaseInv, Fresh, MarkInv, Marks, Dates, Old
      <3>5. PhaseInv'
        BY <3>1, <3>4 DEF IInv, PhaseInv, Workers, Nobody
      <3> QED  BY <2>1, <3>3, <3>5
    <2>5. CASE OpenFails(s) \/ Reviewed(s)
      <3>1. /\ UNCHANGED <<st, trash, tagged, since, age>> /\ pc # "none" /\ pc' = "save"
            /\ pending' \in {pending, Nobody, tagged}
        BY <2>5 DEF OpenFails, Reviewed, taskVars
      <3>2. MarkInv' /\ DateInv'
        BY <3>1 DEF IInv, MarkInv, Marks, DateInv, Within, Nobody
      <3>3. PhaseInv'
        BY <3>1 DEF IInv, PhaseInv, Workers
      <3> QED  BY <2>1, <3>2, <3>3
    <2>6. CASE \/ CheckTradeOff(s) \/ UpdateVolatileFiles(s) \/ CheckErrors(s)
               \/ ReadingFails(s) \/ ReadingDone(s)
      <3>1. /\ UNCHANGED <<st, pending, trash, tagged, since, covered, age>>
            /\ \/ pc = "tradeoff" /\ pc' \in {"walk", "done"}
               \/ /\ pc \in {"update", "check", "read"}
                  /\ pc' \in {"save", "check", "read", "open"}
        BY <2>6 DEF CheckTradeOff, UpdateVolatileFiles, CheckErrors, ReadingFails,
                    ReadingDone, taskVars, listVars
      <3>2. MarkInv' /\ DateInv'
        BY <3>1 DEF IInv, MarkInv, DateInv, Within
      <3>3. PhaseInv'
        BY <3>1 DEF IInv, PhaseInv, Fresh, Workers, Nobody
      <3> QED  BY <2>1, <3>2, <3>3
    <2>7. CASE \/ SaveFailCount(s) \/ PurgePending(s) \/ DamagedDone(s)
               \/ \E p \in Pkgs : HandleDamaged(s, p)
      <3>1. /\ UNCHANGED <<st, pending, trash, tagged, since, age>> /\ pc # "none"
            /\ \/ pc' = "done"
               \/ pc' = pc /\ pc \in {"purgeDamaged", "truncDamaged"}
        BY <2>7 DEF SaveFailCount, PurgePending, DamagedDone, HandleDamaged,
                    taskVars, listVars
      <3>2. MarkInv' /\ DateInv'
        BY <3>1 DEF IInv, MarkInv, DateInv, Within
      <3>3. PhaseInv'
        BY <3>1 DEF IInv, PhaseInv, Workers, Nobody
      <3> QED  BY <2>1, <3>2, <3>3
    <2> QED  BY <2>2, <2>3, <2>4, <2>5, <2>6, <2>7, <1>2 DEF Task
  <1> QED  BY <1>1, <1>2 DEF Task

\* Every step keeps the invariant.
LEMMA IInvStep == IInv /\ [Next]_vars => IInv'
  <1> SUFFICES ASSUME IInv, [Next]_vars PROVE IInv'
    OBVIOUS
  <1>1. TaskInv'
    <2>1. UNCHANGED vars => SessionStep
      BY DEF vars, SessionStep
    <2> QED  BY <2>1, StepIsSessionStep, TaskInvStep DEF IInv
  <1>2. CASE \/ Traffic \/ Stop \/ UNCHANGED vars
             \/ \E p \in Pkgs : Fetch(p) \/ ArchiveChanges(p) \/ Delete(p)
    <2>1. UNCHANGED <<st, cmd, stamp>> /\ UNCHANGED dateVars
      BY <1>2 DEF Traffic, Stop, SigAbort, Shutdown, Fetch, ArchiveChanges, Delete,
                  vars, taskVars, runVars, listVars, dateVars
    <2> QED  BY <1>1, <2>1, StutterKeeps DEF IInv
  <1>3. CASE Day \/ Crash
    BY <1>1, <1>3, DayKeeps, CrashKeeps DEF IInv
  <1>4. ASSUME NEW s \in Sessions,
               \/ \E c \in Commands : Ask(s, c)
               \/ AskInVain(s) \/ Visit(s) \/ Listen(s)
        PROVE  IInv'
    BY <1>1, <1>4, SessionKeeps DEF IInv
  <1>5. ASSUME NEW s \in Sessions, Task(s) PROVE IInv'
    BY <1>1, <1>5, TaskKeeps DEF IInv
  <1> QED  BY <1>2, <1>3, <1>4, <1>5 DEF Next

\* No list of dates, neither _expending_dat on disk nor what a task has in
\* memory, ever holds a date older than what all complete runs since then have
\* found, whatever tasks, faults and crashes there were.  Said of all files if
\* KeepExtraVersions is not set, and of all but the .deb files if it is.
THEOREM DatesNeverTooOld == Spec => []DateInv
  <1>1. IInv => DateInv
    BY DEF IInv
  <1> QED  BY IInvInit, IInvStep, <1>1, PTL DEF Spec

\* A regular run of the expiration removes only files that all complete runs of
\* more than Threshold days have found unreferenced or damaged, but for the
\* .deb files if KeepExtraVersions is set, and no file that it has found
\* referenced and good itself.
THEOREM NoEarlyRemovalCorrect == Spec => NoEarlyRemoval
  <1> DEFINE Late ==
        \A s \in Sessions, p \in Pkgs :
           Removes(s, p) => /\ p \in Debs => KeepNVer # 0 \/ since[p] = Old
                            /\ p \notin Debs => since[p] = Old
                            /\ p \notin covered
  <1>1. IInv => Late
    <2> SUFFICES ASSUME IInv, NEW s \in Sessions, NEW p \in Pkgs, Removes(s, p)
                 PROVE  (Regular(p) => since[p] = Old) /\ p \notin covered
      BY DEF Regular
    <2>1. pc = "review" /\ s \in Workers /\ p \in todo /\ ~cmd[s].purgeNow
      BY DEF Removes, Review, Work, Workers
    <2>2. TimeExpired(trash[p])
      BY DEF Removes, Review
    <2>3. trash[p] # None /\ Within(trash, since)
          /\ (p \in covered => trash[p] \in {None, 0})
      BY <2>1 DEF IInv, PhaseInv, Dated
    <2>4. trash[p] \in Dates /\ since[p] \in Dates \cup {None}
      BY <2>3 DEF IInv, MarkInv, Marks
    <2>5. Regular(p) => since[p] # None /\ trash[p] <= since[p]
      BY <2>3 DEF Within
    <2> QED  BY <2>2, <2>3, <2>4, <2>5, ExpirationAssumption DEF TimeExpired, Dates, Old
  <1>2. IInv /\ [Next]_vars => [Late]_vars
    BY <1>1
  <1> QED  BY IInvInit, IInvStep, <1>2, PTL DEF Spec, NoEarlyRemoval
=============================================================================
