------------------------- MODULE IndexUpdateProofs --------------------------
(***************************************************************************)
(* Proofs about IndexUpdate, for any set of variants in any folders, any   *)
(* order of the loops, any number of faults and clients, and any state of  *)
(* the cache to start with.                                                *)
(*                                                                         *)
(* That a group is read rests on what is left when its members disable one *)
(* another: as long as nothing has failed and no disabled variant has      *)
(* disabled others, a group with a disabled member has a fresh one that is *)
(* not disabled.  That the right version is read rests on what the flag    *)
(* uptodate means: a file that has it is the one of the servers.           *)
(***************************************************************************)
EXTENDS IndexUpdate, TLAPS

(* The invariant                                                           *)

Flags == [ondisk : BOOLEAN, uptodate : BOOLEAN, ignore : BOOLEAN,
          parsed : BOOLEAN, forgive : BOOLEAN]

Disks == [Files -> Versions \cup {None}]

AllFlags == [Files -> Flags]

TypeInv ==
    /\ given \in Case
    /\ disk \in Disks
    /\ fl \in AllFlags
    /\ ring \subseteq Variants
    /\ errors \in Nat /\ faults \in Nat
    /\ heard \subseteq Files /\ spared \subseteq Files
    /\ stop \in BOOLEAN /\ muted \in BOOLEAN
    /\ todo \in Seq(Files)

\* A group with a disabled member has one that is fresh and is not disabled.
GroupKept(g, mu, sp, e) ==
    ~mu /\ sp \cap Variants = {} /\ e = 0 /\ (\E f \in Variants : g[f].ignore) =>
      \E f \in Variants : g[f].uptodate /\ ~g[f].ignore

\* Release is not read only because InRelease is.
ReleaseKept(g) ==
    ~g[InRelease].ignore /\ (g[Release].ignore => g[InRelease].ondisk)

\* What counts as read was read, or another variant was.
ParsedHeard(g, hd) ==
    \A f \in Files : g[f].parsed => f \in hd \/ (f \in Variants /\ hd \cap Variants # {})

InTodo(f, q) == \E k \in DOMAIN q : q[k] = f

\* The loop through the groups does not meet a release file.
GroupTodo(p, q) ==
    p \in {"group", "shared"} => \A k \in DOMAIN q : q[k] \in Variants \cup {DiffIndex}

\* A release file is updated.
UpdateTodo(p, q) == p = "update" => q # <<>>

\* Whatever can be read was read, has failed, or is still to be visited.  Among
\* hd are the files whose failure was forgiven.
Visited(g, hd, e, q) ==
    \A f \in Files :
      ~g[f].ignore /\ (g[f].ondisk \/ g[f].uptodate) =>
        f \in hd \/ g[f].parsed \/ e > 0 \/ InTodo(f, q)

ReadInv ==
    /\ pc \in {"reading", "review"} => Visited(fl, heard \cup spared, errors, todo)
    /\ pc = "review" => todo = <<>>

HeardInv ==
    /\ TypeInv
    /\ GroupKept(fl, muted, spared, errors)
    /\ ReleaseKept(fl)
    /\ ParsedHeard(fl, heard)
    /\ GroupTodo(pc, todo)
    /\ UpdateTodo(pc, todo)
    /\ ReadInv

\* A run in which nothing has failed and nothing was left over, as in CoverKept.
Smooth == faults = 0 /\ given.offers = Files /\ NoLeftover /\ ~given.skip

\* The flag means what it says.
FreshCurrent(g, d) == \A f \in Files : g[f].uptodate => d[f] = Current

\* The list of diffs leads to the version of the servers.
DiffCurrent(g, d) ==
    /\ d[DiffIndex] \in {None, Current}
    /\ g[DiffIndex].ondisk => d[DiffIndex] = Current

\* The release file that the others are compared with is fresh.
GoodFresh(g) == \A k \in DOMAIN GoodReleases(g) : g[GoodReleases(g)[k]].uptodate

ReleaseInv(p, g, q) ==
    /\ p \in {"release", "update"} => q = GoodReleases(g) \/ (q = <<>> /\ GoodFresh(g))
    /\ p \in {"snapshots", "extract", "base", "sync"} => GoodFresh(g)

\* All files that may be read are fresh, but those in q.
FreshBut(g, q) ==
    \A f \in Files : g[f].ondisk /\ ~g[f].ignore => g[f].uptodate \/ InTodo(f, q)

RestInv ==
    /\ pc \in {"rest", "forced"} => FreshBut(fl, todo)
    /\ pc = "read" => GivesUp \/ FreshBut(fl, <<>>)
    /\ pc \in {"reading", "review"} => FreshBut(fl, <<>>)

\* What was read is fresh.
HeardFresh(g, hd) == \A f \in hd : g[f].uptodate

\* The walk starts from the case.
WalkInv == pc = "walk" => disk = given.disk /\ fl = [f \in Files |-> NoFlags]

\* What was patched is what the list of diffs leads to.
InstallInv == pc = "install" => fl[DiffIndex].ondisk

CoverInv ==
    /\ WalkInv
    /\ InstallInv
    /\ Smooth => /\ FreshCurrent(fl, disk)
                 /\ DiffCurrent(fl, disk)
                 /\ ReleaseInv(pc, fl, todo)
                 /\ RestInv
                 /\ HeardFresh(fl, heard)
                 /\ spared = {}

-----------------------------------------------------------------------------
(* Lemmas on names, flags and lists                                        *)

\* The names are different files.
LEMMA NameFacts ==
    /\ Release \in Files /\ InRelease \in Files /\ DiffIndex \in Files
    /\ Variants \subseteq Files /\ Releases \subseteq Files
    /\ Release # InRelease /\ DiffIndex # Release /\ DiffIndex # InRelease
    /\ DiffIndex \notin Variants
    /\ Release \notin Variants /\ InRelease \notin Variants
    /\ HashOf \in Variants /\ HashOf \in Files /\ Compressed \subseteq Variants
    /\ Current \in Versions /\ None \notin Versions /\ None # Current
    /\ Order \in Seq(Files) /\ BySuffix \in Seq(Variants) /\ ByKind \in Seq(Variants)
    /\ \A f \in Files : InTodo(f, Order)
  <1>1. Current \in Versions
    BY IndexAssumption DEF Versions
  <1>2. \A f \in Files : InTodo(f, Order)
    BY IndexAssumption DEF InTodo, ToSet
  <1> QED  BY <1>1, <1>2, IndexAssumption DEF Files, Releases

\* What a loop has still to visit.
LEMMA RestFacts ==
    ASSUME NEW q \in Seq(Files), NEW k \in 0..Len(q)
    PROVE  /\ SubSeq(q, k + 1, Len(q)) \in Seq(Files)
           /\ \A j \in DOMAIN SubSeq(q, k + 1, Len(q)) :
                j + k \in DOMAIN q /\ SubSeq(q, k + 1, Len(q))[j] = q[j + k]
           /\ \A j \in DOMAIN q : j > k => InTodo(q[j], SubSeq(q, k + 1, Len(q)))
  <1> DEFINE s == SubSeq(q, k + 1, Len(q))
  <1>1. s \in Seq(Files) /\ Len(s) = Len(q) - k
    OBVIOUS
  <1>2. \A j \in 1..Len(s) : s[j] = q[j + k]
    OBVIOUS
  <1>3. ASSUME NEW j \in DOMAIN q, j > k PROVE InTodo(q[j], s)
    <2>0. j - k \in 1..Len(s) /\ j \in Int /\ k \in Int /\ (j - k) + k = j
      BY <1>1, <1>3
    <2>1. j - k \in 1..Len(s) /\ s[j - k] = q[j]
      BY <1>2, <2>0, Zenon
    <2>2. DOMAIN s = 1..Len(s)
      BY <1>1
    <2> HIDE DEF s
    <2> QED  BY <2>1, <2>2 DEF InTodo
  <1>4. DOMAIN s = 1..Len(s) /\ DOMAIN q = 1..Len(q)
    BY <1>1
  <1>5. \A j \in DOMAIN s : j + k \in DOMAIN q
    <2>1. Len(q) \in Nat /\ k \in 0..Len(q)
      OBVIOUS
    <2> HIDE DEF s
    <2> QED  BY <1>1, <1>4, <2>1
  <1> HIDE DEF s
  <1>6. /\ s \in Seq(Files)
        /\ \A j \in DOMAIN s : j + k \in DOMAIN q /\ s[j] = q[j + k]
        /\ \A j \in DOMAIN q : j > k => InTodo(q[j], s)
    BY <1>1, <1>2, <1>3, <1>4, <1>5
  <1> QED  BY <1>6 DEF s

\* The first place with a file of S: nothing of S is passed over.
LEMMA FirstFacts ==
    ASSUME TypeInv, NEW S, NEW k \in DOMAIN todo, First(k, S)
    PROVE  /\ todo[k] \in S /\ todo[k] \in Files
           /\ Rest(k) \in Seq(Files) /\ Rest(k - 1) \in Seq(Files)
           /\ \A f \in S : InTodo(f, todo) => f = todo[k] \/ InTodo(f, Rest(k))
           /\ \A f : InTodo(f, Rest(k)) \/ InTodo(f, Rest(k - 1)) => InTodo(f, todo)
  <1>1. todo \in Seq(Files) /\ DOMAIN todo = 1..Len(todo) /\ Len(todo) \in Nat
    BY DEF TypeInv
  <1>2. k \in 1..Len(todo) /\ k \in 0..Len(todo) /\ k - 1 \in 0..Len(todo)
    BY <1>1
  <1>3. todo[k] \in S /\ \A j \in 1..(k - 1) : todo[j] \notin S
    BY DEF First
  <1>4. /\ Rest(k) \in Seq(Files)
        /\ \A j \in DOMAIN Rest(k) : j + k \in DOMAIN todo /\ Rest(k)[j] = todo[j + k]
        /\ \A j \in DOMAIN todo : j > k => InTodo(todo[j], Rest(k))
    BY <1>1, <1>2, RestFacts DEF Rest
  <1>5. /\ Rest(k - 1) \in Seq(Files)
        /\ \A j \in DOMAIN Rest(k - 1) : j + (k - 1) \in DOMAIN todo
                                         /\ Rest(k - 1)[j] = todo[j + (k - 1)]
    BY <1>1, <1>2, RestFacts DEF Rest
  <1>6. ASSUME NEW f \in S, InTodo(f, todo) PROVE f = todo[k] \/ InTodo(f, Rest(k))
    <2>1. PICK j \in DOMAIN todo : todo[j] = f
      BY <1>6 DEF InTodo
    <2>2. j \in 1..Len(todo) /\ (j < k => j \in 1..(k - 1))
      BY <1>1, <1>2
    <2>3. j = k \/ j > k
      BY <1>2, <1>3, <2>1, <2>2
    <2> QED  BY <1>4, <2>1, <2>3
  <1>7. \A f : InTodo(f, Rest(k)) \/ InTodo(f, Rest(k - 1)) => InTodo(f, todo)
    <2>1. \A f : InTodo(f, Rest(k)) => InTodo(f, todo)
      BY <1>4, Zenon DEF InTodo
    <2>2. \A f : InTodo(f, Rest(k - 1)) => InTodo(f, todo)
      BY <1>5, Zenon DEF InTodo
    <2> QED  BY <2>1, <2>2
  <1>8. todo[k] \in Files
    BY <1>1, <1>2
  <1> QED  BY <1>3, <1>4, <1>5, <1>6, <1>7, <1>8

\* At the end of a loop there is none.
LEMMA NoneAhead ==
    ASSUME NEW S, ~Ahead(S)
    PROVE  \A f \in S : ~InTodo(f, todo)
  BY DEF Ahead, InTodo

-----------------------------------------------------------------------------
(* What the operations do to the files and their flags                     *)

\* The flags h differ from g at most by files that have become fresh.
Fresher(g, h) ==
    \A f \in Files : /\ h[f].ondisk = g[f].ondisk
                     /\ h[f].ignore = g[f].ignore
                     /\ h[f].parsed = g[f].parsed
                     /\ h[f].forgive = g[f].forgive
                     /\ g[f].uptodate => h[f].uptodate

\* One file has become fresh.
LEMMA FresherSet ==
    ASSUME NEW g \in AllFlags, NEW f \in Files,
           NEW h, h = [g EXCEPT ![f].uptodate = TRUE]
    PROVE  /\ h \in AllFlags
           /\ Fresher(g, h)
           /\ h[f].uptodate
           /\ \A x \in Files : x # f => h[x].uptodate = g[x].uptodate
  BY DEF AllFlags, Flags, Fresher

\* The members of the group are variants.
LEMMA PathsFacts ==
    ASSUME NEW g, NEW src
    PROVE  /\ Paths(g) \subseteq Variants
           /\ Disabled(g, src) \subseteq Variants /\ src \notin Disabled(g, src)
           /\ \A d : Copied(d, g, src) \subseteq Variants
  BY DEF Paths, Disabled, Copied

\* What SyncSiblings does to each file.
LEMMA SyncEffect ==
    ASSUME NEW d \in Disks, NEW g \in AllFlags, NEW src \in Files,
           muted \in BOOLEAN, faults \in Nat, SyncSiblings(d, g, src)
    PROVE  /\ faults' \in Nat /\ (faults' = 0 => faults = 0)
           /\ disk' \in Disks /\ fl' \in AllFlags /\ muted' \in BOOLEAN
           /\ \A f \in Files : /\ fl'[f].ondisk = g[f].ondisk
                               /\ fl'[f].parsed = g[f].parsed
                               /\ fl'[f].forgive = g[f].forgive
                               /\ fl'[f].ignore <=> g[f].ignore \/ f \in Disabled(g, src)
                               /\ g[f].uptodate => fl'[f].uptodate
                               /\ fl'[f].uptodate => \/ g[f].uptodate
                                                     \/ f \in Copied(d, g, src) /\ disk'[f] = d[src]
                               /\ f \notin Copied(d, g, src) => disk'[f] = d[f]
                               /\ faults' = 0 /\ f \in Copied(d, g, src) =>
                                    fl'[f].uptodate /\ disk'[f] = d[src]
           /\ ~muted' => /\ ~muted
                         /\ g[src].ignore => \A t \in Disabled(g, src) : g[t].uptodate => g[t].ignore
  <1>a. PICK off : off = Disabled(g, src)
    OBVIOUS
  <1>c. PICK lost \in Lost(Copied(d, g, src)) : \E gone \in SUBSET lost :
          LET new == Copied(d, g, src) \ lost IN
          /\ disk' = [f \in Files |-> IF f \in new THEN d[src]
                                     ELSE IF f \in gone THEN None ELSE d[f]]
          /\ fl' = [f \in Files |->
                      [g[f] EXCEPT !.ignore = @ \/ f \in off, !.uptodate = @ \/ f \in new]]
          /\ faults' = IF lost = {} THEN faults ELSE faults + 1
          /\ muted' = (muted \/ (g[src].ignore /\ \E t \in off : g[t].uptodate /\ ~g[t].ignore))
    BY <1>a DEF SyncSiblings
  <1>b. PICK new : new = Copied(d, g, src) \ lost
    OBVIOUS
  <1>d. lost \subseteq Copied(d, g, src) /\ Copied(d, g, src) \subseteq Files
    BY <1>c, PathsFacts, NameFacts DEF Lost
  <1>e. /\ faults' \in Nat /\ (faults' = 0 => faults = 0)
        /\ faults' = 0 => lost = {}
    <2>1. faults' = IF lost = {} THEN faults ELSE faults + 1
      BY <1>c, Zenon
    <2> QED  BY <2>1
  <1>1. /\ \E gone \in SUBSET lost :
             disk' = [f \in Files |-> IF f \in new THEN d[src]
                                     ELSE IF f \in gone THEN None ELSE d[f]]
        /\ fl' = [f \in Files |->
                    [g[f] EXCEPT !.ignore = @ \/ f \in off, !.uptodate = @ \/ f \in new]]
        /\ muted' = (muted \/ (g[src].ignore /\ \E t \in off : g[t].uptodate /\ ~g[t].ignore))
    BY <1>b, <1>c
  <1>2. disk' \in Disks /\ \A f \in Files : /\ f \in new => disk'[f] = d[src]
                                            /\ f \notin Copied(d, g, src) => disk'[f] = d[f]
    BY <1>1, <1>b, <1>d DEF Disks
  <1>3. ASSUME NEW f \in Files
        PROVE  /\ fl'[f] \in Flags
               /\ fl'[f].ondisk = g[f].ondisk /\ fl'[f].parsed = g[f].parsed
               /\ fl'[f].forgive = g[f].forgive
               /\ fl'[f].ignore <=> g[f].ignore \/ f \in off
               /\ fl'[f].uptodate <=> g[f].uptodate \/ f \in new
    <2>1. g[f] \in Flags
      BY DEF AllFlags
    <2>2. PICK r \in Flags : r = g[f]
      BY <2>1
    <2>3. PICK a \in BOOLEAN : a <=> (r.ignore \/ f \in off)
      OBVIOUS
    <2>4. PICK b \in BOOLEAN : b <=> (r.uptodate \/ f \in new)
      OBVIOUS
    <2>5. fl'[f] = [r EXCEPT !.ignore = a, !.uptodate = b]
      BY <1>1, <2>2, <2>3, <2>4
    <2> QED  BY <2>2, <2>3, <2>4, <2>5 DEF Flags
  <1>4. fl' \in AllFlags
    <2>1. DOMAIN fl' = Files /\ fl' = [f \in Files |-> fl'[f]]
      BY <1>1, Zenon
    <2> QED  BY <1>3, <2>1 DEF AllFlags
  <1>5. /\ muted' \in BOOLEAN
        /\ ~muted' => /\ ~muted
                      /\ g[src].ignore => \A t \in off : g[t].uptodate => g[t].ignore
    BY <1>1, Zenon
  <1>6. /\ disk' \in Disks /\ fl' \in AllFlags /\ muted' \in BOOLEAN
        /\ \A f \in Files : /\ fl'[f].ondisk = g[f].ondisk
                            /\ fl'[f].parsed = g[f].parsed
                            /\ fl'[f].forgive = g[f].forgive
                            /\ fl'[f].ignore <=> g[f].ignore \/ f \in off
                            /\ fl'[f].uptodate <=> g[f].uptodate \/ f \in new
                            /\ f \in new => disk'[f] = d[src]
                            /\ f \notin Copied(d, g, src) => disk'[f] = d[f]
    BY <1>2, <1>3, <1>4, <1>5, Zenon
  <1>7. \A f \in Files : faults' = 0 /\ f \in Copied(d, g, src) => f \in new
    BY <1>b, <1>e
  <1>8. \A f \in new : f \in Copied(d, g, src)
    BY <1>b
  <1> QED  BY <1>a, <1>e, <1>5, <1>6, <1>7, <1>8

\* How a download can go.
LEMMA PlanFacts ==
    ASSUME NEW f \in Files, NEW hint, NEW plan \in Plans(f, hint)
    PROVE  /\ Target(f, plan) \in Files
           /\ \/ Target(f, plan) = f /\ Final(plan) \in Fates(f)
              \/ /\ "missing" \in Fates(f)
                 /\ Final(plan) \in Fates(Target(f, plan))
  <1> DEFINE tried == {fate \in Fates(f) : TriesAlternative(f, fate, hint)}
  <1>1. CASE plan \in {<<fate>> : fate \in Fates(f) \ tried}
    <2>1. PICK fate \in Fates(f) : plan = <<fate>>
      BY <1>1
    <2>2. Len(plan) = 1 /\ plan[1] = fate
      BY <2>1
    <2> QED  BY <2>1, <2>2 DEF Target, Final
  <1>2. CASE plan \in UNION {{<<fate, second>> : second \in Fates(Alternative[f])} : fate \in tried}
    <2>1. PICK fate \in tried : plan \in {<<fate, second>> : second \in Fates(Alternative[f])}
      BY <1>2
    <2>2. PICK second \in Fates(Alternative[f]) : plan = <<fate, second>>
      BY <2>1
    <2>3. Len(plan) = 2 /\ plan[2] = second
      BY <2>2
    <2>4. fate \in Fates(f) /\ fate = "missing" /\ f \in DOMAIN Alternative
      BY <2>1 DEF TriesAlternative
    <2>5. Alternative[f] \in Files
      BY <2>4, IndexAssumption
    <2> QED  BY <2>2, <2>3, <2>4, <2>5 DEF Target, Final
  <1> QED  BY <1>1, <1>2 DEF Plans

\* What a download does: files become fresh, and no flag but this is changed.
\* When nothing fails and the servers have all files, the file itself is fresh
\* afterwards, and it is the one of the servers.
LEMMA DownloadFacts ==
    ASSUME TypeInv, NEW f \in Files, NEW hint, NEW plan \in Plans(f, hint),
           Downloaded(f, plan)
    PROVE  /\ disk' \in Disks
           /\ faults' \in Nat /\ (faults' = 0 => faults = 0)
           /\ FlagsAfter(f, plan) \in AllFlags
           /\ Fresher(fl, FlagsAfter(f, plan))
           /\ faults' = 0 => Reported(plan) = "OK"
           /\ Reported(plan) \in {"OK", "FAIL"}
           /\ faults' = 0 /\ given.offers = Files /\ ~given.skip =>
                /\ FlagsAfter(f, plan)[f].uptodate
                /\ (disk'[f] = disk[f] /\ fl[f].uptodate) \/ disk'[f] = Current
                /\ \A x \in Files : x # f =>
                     /\ disk'[x] = disk[x]
                     /\ FlagsAfter(f, plan)[x].uptodate = fl[x].uptodate
  <1> DEFINE t == Target(f, plan)
             h == FlagsAfter(f, plan)
  <1>0. faults \in Nat /\ disk \in Disks /\ fl \in AllFlags /\ Current \in Versions
    BY NameFacts DEF TypeInv
  <1>1. /\ t \in Files
        /\ \/ t = f /\ Final(plan) \in Fates(f)
           \/ "missing" \in Fates(f) /\ Final(plan) \in Fates(t)
    BY PlanFacts
  <1>2. /\ disk' = IF Final(plan) = "got" THEN [disk EXCEPT ![t] = Current] ELSE disk
        /\ faults' = IF Final(plan) \in {"error", "nostart"} THEN faults + 1 ELSE faults
    BY DEF Downloaded
  <1>3. h = IF Final(plan) # "skip" /\ Verdict(t, Final(plan)) = "OK"
            THEN [fl EXCEPT ![t].uptodate = TRUE] ELSE fl
    BY DEF FlagsAfter
  <1> HIDE DEF t, h
  <1>4. disk' \in Disks
    BY <1>0, <1>1, <1>2 DEF Disks
  <1>5. faults' \in Nat /\ (faults' = 0 => faults = 0)
        /\ (faults' = 0 => Final(plan) \notin {"error", "nostart"})
    BY <1>0, <1>2
  <1>6. h \in AllFlags /\ Fresher(fl, h)
    BY <1>0, <1>1, <1>3, FresherSet DEF Fresher
  <1>7. /\ faults' = 0 => Reported(plan) = "OK"
        /\ Reported(plan) \in {"OK", "FAIL"}
    BY <1>5 DEF Reported
  <1>8. ASSUME faults' = 0, given.offers = Files, ~given.skip
        PROVE  /\ h[f].uptodate
               /\ (disk'[f] = disk[f] /\ fl[f].uptodate) \/ disk'[f] = Current
               /\ \A x \in Files : x # f => /\ disk'[x] = disk[x]
                                            /\ h[x].uptodate = fl[x].uptodate
    <2>1. "missing" \notin Fates(f)
      BY <1>8 DEF Fates
    <2>2. t = f /\ Final(plan) \in Fates(f) /\ Final(plan) \notin {"error", "nostart"}
      BY <1>1, <1>5, <1>8, <2>1
    <2>3. CASE fl[f].uptodate
      <3>1. Final(plan) = "skip"
        BY <2>2, <2>3 DEF Fates
      <3>2. disk' = disk /\ h = fl
        BY <1>2, <1>3, <3>1
      <3> QED  BY <2>3, <3>2
    <2>4. CASE ~fl[f].uptodate
      <3>1. Final(plan) = "got"
        BY <1>8, <2>2, <2>4 DEF Fates
      <3>2. Verdict(t, Final(plan)) = "OK"
        BY <3>1 DEF Verdict
      <3>3. disk' = [disk EXCEPT ![f] = Current] /\ h = [fl EXCEPT ![f].uptodate = TRUE]
        BY <1>2, <1>3, <2>2, <3>1, <3>2
      <3>4. h[f].uptodate /\ \A x \in Files : x # f => h[x].uptodate = fl[x].uptodate
        BY <1>0, <3>3 DEF AllFlags, Flags
      <3>5. disk'[f] = Current /\ \A x \in Files : x # f => disk'[x] = disk[x]
        BY <1>0, <3>3 DEF Disks
      <3> QED  BY <3>4, <3>5
    <2> QED  BY <2>3, <2>4
  <1> QED  BY <1>4, <1>5, <1>6, <1>7, <1>8 DEF h

-----------------------------------------------------------------------------
(* A group is read                                                         *)

\* The flags h differ from g at most by files that have become fresh or that
\* are on disk now.
Grown(g, h) ==
    \A f \in Files : /\ h[f].ignore = g[f].ignore
                     /\ h[f].parsed = g[f].parsed
                     /\ h[f].forgive = g[f].forgive
                     /\ g[f].ondisk => h[f].ondisk
                     /\ g[f].uptodate => h[f].uptodate

\* Becoming fresh is one of those changes.
LEMMA FresherGrown ==
    ASSUME NEW g, NEW h, Fresher(g, h) PROVE Grown(g, h)
  BY DEF Fresher, Grown

\* A run starts with nothing disabled.
LEMMA InitHeard == Init => HeardInv
  <1> SUFFICES ASSUME Init PROVE HeardInv
    OBVIOUS
  <1>1. given \in Case /\ disk = given.disk
    BY IndexAssumption DEF Init
  <1>2. disk \in Disks
    BY <1>1 DEF Case, Disks
  <1>3. /\ fl = [f \in Files |-> NoFlags] /\ NoFlags \in Flags
        /\ ~NoFlags.ignore /\ ~NoFlags.parsed /\ ~NoFlags.forgive
    BY DEF Init, NoFlags, Flags
  <1>4. /\ fl \in AllFlags
        /\ \A f \in Files : ~fl[f].ignore /\ ~fl[f].parsed /\ ~fl[f].forgive
    <2>1. \A f \in Files : fl[f] = NoFlags
      BY <1>3
    <2>2. fl \in AllFlags
      BY <1>3 DEF AllFlags
    <2> QED  BY <1>3, <2>1, <2>2, Zenon
  <1>5. TypeInv
    <2>1. errors = 0 /\ faults = 0 /\ todo = <<>> /\ ring = {} /\ heard = {}
          /\ stop = FALSE /\ muted = FALSE /\ spared = {}
      BY DEF Init
    <2>2. errors \in Nat /\ faults \in Nat /\ todo \in Seq(Files)
      BY <2>1
    <2> QED  BY <1>1, <1>2, <1>4, <2>1, <2>2, Zenon DEF TypeInv
  <1>6. GroupKept(fl, muted, spared, errors) /\ ReleaseKept(fl)
    BY <1>4, NameFacts DEF GroupKept, ReleaseKept
  <1>7. ParsedHeard(fl, heard)
    BY <1>4 DEF ParsedHeard
  <1>8. GroupTodo(pc, todo) /\ UpdateTodo(pc, todo) /\ ReadInv
    BY DEF Init, GroupTodo, UpdateTodo, ReadInv
  <1> QED  BY <1>5, <1>6, <1>7, <1>8 DEF HeardInv

\* Files that become fresh or appear do no harm.
LEMMA GrownKeeps ==
    ASSUME NEW g, NEW h, Grown(g, h), NEW mu, NEW nu, nu = mu, NEW e, NEW n, n = 0 => e = 0,
           NEW hd, NEW sp,
           GroupKept(g, mu, sp, e), ReleaseKept(g), ParsedHeard(g, hd)
    PROVE  GroupKept(h, nu, sp, n) /\ ReleaseKept(h) /\ ParsedHeard(h, hd)
  <1>1. GroupKept(h, nu, sp, n)
    BY NameFacts DEF GroupKept, Grown
  <1>2. ReleaseKept(h)
    BY NameFacts DEF ReleaseKept, Grown
  <1>4. ParsedHeard(h, hd)
    BY DEF ParsedHeard, Grown
  <1> QED  BY <1>1, <1>2, <1>4

\* So does a step of the update that is none of SyncSiblings.
LEMMA UpdateKeeps ==
    ASSUME HeardInv, TypeInv', Grown(fl, fl'), muted' = muted, spared' = spared, errors' = 0 => errors = 0,
           heard' = heard, pc' \notin {"reading", "review"}, GroupTodo(pc', todo'),
           UpdateTodo(pc', todo')
    PROVE  HeardInv'
  <1>1. GroupKept(fl, muted, spared, errors) /\ ReleaseKept(fl) /\ ParsedHeard(fl, heard)
    BY DEF HeardInv
  <1>2. GroupKept(fl', muted', spared', errors') /\ ReleaseKept(fl') /\ ParsedHeard(fl', heard')
    BY <1>1, GrownKeeps
  <1>3. ReadInv'
    BY DEF ReadInv
  <1> QED  BY <1>2, <1>3 DEF HeardInv

\* SyncSiblings leaves a fresh variant that is not disabled: its source, or, if
\* that one was disabled before, the one that was left before.
LEMMA SyncKeeps ==
    ASSUME muted \in BOOLEAN, faults \in Nat,
           NEW d \in Disks, NEW g \in AllFlags, NEW src \in Variants,
           g[src].uptodate, SyncSiblings(d, g, src), NEW hd, NEW e, NEW sp,
           GroupKept(g, muted, sp, e), ReleaseKept(g), ParsedHeard(g, hd)
    PROVE  /\ disk' \in Disks /\ fl' \in AllFlags /\ muted' \in BOOLEAN /\ faults' \in Nat
           /\ GroupKept(fl', muted', sp, e) /\ ReleaseKept(fl')
           /\ ParsedHeard(fl', hd)
  <1>0. src \in Files
    BY NameFacts
  <1>1. PICK off : off = Disabled(g, src)
    OBVIOUS
  <1>2. off \subseteq Variants /\ src \notin off
    BY <1>1, PathsFacts
  <1>3. /\ disk' \in Disks /\ fl' \in AllFlags /\ muted' \in BOOLEAN /\ faults' \in Nat
        /\ \A f \in Files : /\ fl'[f].ondisk = g[f].ondisk
                            /\ fl'[f].parsed = g[f].parsed
                            /\ fl'[f].forgive = g[f].forgive
                            /\ fl'[f].ignore <=> g[f].ignore \/ f \in off
                            /\ g[f].uptodate => fl'[f].uptodate
        /\ ~muted' => /\ ~muted
                      /\ g[src].ignore => \A t \in off : g[t].uptodate => g[t].ignore
    BY <1>0, <1>1, SyncEffect
  <1>4. ASSUME ~muted', sp \cap Variants = {}, e = 0, NEW x \in Variants, fl'[x].ignore
        PROVE  \E f \in Variants : fl'[f].uptodate /\ ~fl'[f].ignore
    <2>1. CASE ~g[src].ignore
      <3>1. fl'[src].uptodate /\ ~fl'[src].ignore
        BY <1>0, <1>2, <1>3, <2>1
      <3> QED  BY <3>1
    <2>2. CASE g[src].ignore
      <3>1. PICK w \in Variants : g[w].uptodate /\ ~g[w].ignore
        BY <1>3, <1>4, <2>2 DEF GroupKept
      <3>2. w \notin off /\ w \in Files
        BY <1>3, <1>4, <2>2, <3>1, NameFacts
      <3>3. fl'[w].uptodate /\ ~fl'[w].ignore
        BY <1>3, <3>1, <3>2
      <3> QED  BY <3>3
    <2> QED  BY <2>1, <2>2
  <1>5. GroupKept(fl', muted', sp, e)
    BY <1>4 DEF GroupKept
  <1>6. ReleaseKept(fl')
    BY <1>2, <1>3, NameFacts DEF ReleaseKept
  <1>7. ParsedHeard(fl', hd)
    BY <1>3 DEF ParsedHeard
  <1> QED  BY <1>3, <1>5, <1>6, <1>7

\* What Preferred does to the flags.
LEMMA PreferredFacts ==
    ASSUME NEW g \in AllFlags, NEW h, h = Preferred(g)
    PROVE  /\ h \in AllFlags
           /\ h[Release].ignore <=> g[Release].ignore \/ (g[InRelease].ondisk /\ g[Release].ondisk)
           /\ \A x \in Files : /\ h[x].ondisk = g[x].ondisk
                               /\ h[x].uptodate = g[x].uptodate
                               /\ h[x].parsed = g[x].parsed
                               /\ h[x].forgive = g[x].forgive
                               /\ x # Release => h[x].ignore = g[x].ignore
  <1>1. PICK b \in BOOLEAN : b <=> (g[Release].ignore \/ (g[InRelease].ondisk /\ g[Release].ondisk))
    OBVIOUS
  <1>2. h = [g EXCEPT ![Release].ignore = b]
    BY <1>1 DEF Preferred
  <1>3. /\ h \in AllFlags /\ h[Release].ignore = b
        /\ \A x \in Files : /\ h[x].ondisk = g[x].ondisk
                            /\ h[x].uptodate = g[x].uptodate
                            /\ h[x].parsed = g[x].parsed
                            /\ h[x].forgive = g[x].forgive
                            /\ x # Release => h[x].ignore = g[x].ignore
    <2>1. Release \in Files
      BY NameFacts
    <2> QED  BY <1>2, <2>1 DEF AllFlags, Flags
  <1> QED  BY <1>1, <1>3

\* The walk through the cache.
LEMMA WalkHeard == HeardInv /\ Walk => HeardInv'
  <1> SUFFICES ASSUME HeardInv, Walk PROVE HeardInv'
    OBVIOUS
  <1>1. PICK g : g = [f \in Files |-> Found(f)]
    OBVIOUS
  <1>2. ASSUME NEW f \in Files
        PROVE  /\ Found(f) \in Flags /\ ~Found(f).ignore /\ ~Found(f).parsed
    <2>1. PICK a \in BOOLEAN : a <=> (disk[f] # None \/ f \in given.wanted)
      OBVIOUS
    <2>2. PICK b \in BOOLEAN : b <=> \/ f = DiffIndex /\ disk[f] # None
                                     \/ f \in given.wanted /\ disk[f] = None
                                     \/ f \in given.ignored
      OBVIOUS
    <2>3. Found(f) = [NoFlags EXCEPT !.ondisk = a, !.forgive = b]
      BY <2>1, <2>2 DEF Found
    <2> QED  BY <2>2, <2>3 DEF Flags, NoFlags
  <1>3. /\ g \in AllFlags
        /\ \A f \in Files : ~g[f].ignore /\ ~g[f].parsed
    BY <1>1, <1>2 DEF AllFlags
  <1>4. /\ fl' = g \/ fl' = Preferred(g)
        /\ pc' \in {"forced", "release"}
        /\ todo' = Order \/ todo' = GoodReleases(g)
        /\ UNCHANGED <<disk, given, ring, errors, heard, stop, faults, muted, spared>>
    BY <1>1 DEF Walk
  <1>5. GoodReleases(g) \in Seq(Files)
    BY NameFacts DEF GoodReleases
  <1>6. /\ fl' \in AllFlags
        /\ \A f \in Files : /\ fl'[f].ignore => f = Release /\ g[InRelease].ondisk
                            /\ ~fl'[f].parsed
                            /\ fl'[f].ondisk = g[f].ondisk
    <2>1. CASE fl' = g
      BY <1>3, <2>1
    <2>2. CASE fl' = Preferred(g)
      BY <1>3, <2>2, PreferredFacts
    <2> QED  BY <1>4, <2>1, <2>2
  <1>7. TypeInv'
    BY <1>4, <1>5, <1>6, NameFacts DEF HeardInv, TypeInv
  <1>8. GroupKept(fl', muted', spared', errors') /\ ReleaseKept(fl')
    BY <1>6, NameFacts DEF GroupKept, ReleaseKept
  <1>9. ParsedHeard(fl', heard')
    BY <1>6 DEF ParsedHeard
  <1>10. GroupTodo(pc', todo') /\ UpdateTodo(pc', todo') /\ ReadInv'
    BY <1>4 DEF GroupTodo, UpdateTodo, ReadInv
  <1> QED  BY <1>7, <1>8, <1>9, <1>10 DEF HeardInv

\* The loop through the groups meets the variants and the list of diffs.
LEMMA GroupOrderFacts ==
    /\ GroupOrder \in Seq(Files)
    /\ \A k \in DOMAIN GroupOrder : GroupOrder[k] \in Variants \cup {DiffIndex}
  <1> DEFINE T == Variants \cup {DiffIndex}
  <1>1. BySuffix \in Seq(T) /\ <<DiffIndex>> \in Seq(T)
    BY NameFacts
  <1>2. BySuffix \o <<DiffIndex>> \in Seq(T) /\ <<>> \in Seq(T)
    BY <1>1
  <1>3. GroupOrder \in Seq(T)
    BY <1>2 DEF GroupOrder
  <1>4. T \subseteq Files
    BY NameFacts
  <1> HIDE DEF T
  <1>5. GroupOrder \in Seq(Files) /\ \A k \in DOMAIN GroupOrder : GroupOrder[k] \in T
    BY <1>3, <1>4
  <1> QED  BY <1>5 DEF T

\* Nothing is disabled and nothing is read: the end of a loop, a failure.
LEMMA QuietHeard ==
    HeardInv /\ (\/ ForcedDone \/ RestoreFails \/ ReleasesDone \/ SnapshotsDone \/ ExtractGroups
                 \/ BaseDone \/ SyncLeaves \/ ShareDone \/ PatchWorks \/ PatchDone \/ GroupDone
                 \/ RestDone) => HeardInv'
  <1> SUFFICES ASSUME HeardInv,
                      \/ ForcedDone \/ RestoreFails \/ ReleasesDone \/ SnapshotsDone \/ ExtractGroups
                      \/ BaseDone \/ SyncLeaves \/ ShareDone \/ PatchWorks \/ PatchDone \/ GroupDone
                      \/ RestDone
               PROVE  HeardInv'
    OBVIOUS
  <1>0. TypeInv /\ errors \in Nat /\ faults \in Nat /\ todo \in Seq(Files)
    BY DEF HeardInv, TypeInv
  <1>1. UNCHANGED <<disk, given, fl, ring, heard, stop, muted, spared>>
    BY DEF ForcedDone, RestoreFails, ReleasesDone, SnapshotsDone, ExtractGroups,
           BaseDone, SyncLeaves, ShareDone, PatchWorks, PatchDone, GroupDone, RestDone
  <1>2. \/ errors' = errors /\ faults' = faults
        \/ errors' = errors + 1 /\ faults' = faults + 1
    BY DEF ForcedDone, RestoreFails, ReleasesDone, SnapshotsDone, ExtractGroups,
           BaseDone, SyncLeaves, ShareDone, PatchWorks, PatchDone, GroupDone, RestDone
  <1>3. /\ pc' \notin {"reading", "review", "shared", "update"}
        /\ pc' = "group" => todo' = GroupOrder
        /\ todo' \in {todo, <<>>, Order, ByKind, GroupOrder} \/ (todo # <<>> /\ todo' = Tail(todo))
    BY DEF ForcedDone, RestoreFails, ReleasesDone, SnapshotsDone, ExtractGroups,
           BaseDone, SyncLeaves, ShareDone, PatchWorks, PatchDone, GroupDone, RestDone
  <1>4. /\ GroupOrder \in Seq(Files)
        /\ \A k \in DOMAIN GroupOrder : GroupOrder[k] \in Variants \cup {DiffIndex}
    BY GroupOrderFacts
  <1>5. ByKind \in Seq(Files) /\ Order \in Seq(Files)
    <2>1. ByKind \in Seq(Variants) /\ Variants \subseteq Files /\ Order \in Seq(Files)
      BY NameFacts
    <2> QED  BY <2>1
  <1>6. todo' \in Seq(Files)
    <2>1. <<>> \in Seq(Files) /\ (todo # <<>> => Tail(todo) \in Seq(Files))
      BY <1>0
    <2> QED  BY <1>0, <1>3, <1>4, <1>5, <2>1, Zenon
  <1>7. errors' \in Nat /\ faults' \in Nat /\ (errors' = 0 => errors = 0)
    BY <1>0, <1>2
  <1>8. TypeInv'
    BY <1>0, <1>1, <1>6, <1>7 DEF TypeInv
  <1>9. Grown(fl, fl')
    BY <1>1 DEF Grown
  <1>10. GroupTodo(pc', todo') /\ UpdateTodo(pc', todo')
    BY <1>3, <1>4 DEF GroupTodo, UpdateTodo
  <1> QED  BY <1>1, <1>3, <1>7, <1>8, <1>9, <1>10, UpdateKeeps

\* A file that is restored from its by-hash name is fresh if it is on disk.
LEMMA RestoredFacts ==
    ASSUME TypeInv, NEW v, Restored(v)
    PROVE  /\ disk' \in Disks /\ fl' \in AllFlags /\ Fresher(fl, fl')
           /\ \A f \in Files : \/ disk'[f] = disk[f] /\ fl'[f].uptodate = fl[f].uptodate
                               \/ f \in Variants /\ disk'[f] \in given.blobs
  <1>0. /\ fl \in AllFlags /\ disk \in Disks /\ HashOf \in Files /\ HashOf \in Variants
        /\ given.blobs \subseteq Versions
    BY NameFacts DEF TypeInv, Case
  <1>1. CASE Restorable(v) /\ ~fl[HashOf].uptodate
    <2>1. v \in given.blobs /\ v \in Versions
      BY <1>0, <1>1 DEF Restorable
    <2>2. PICK b \in BOOLEAN : b = fl[HashOf].ondisk
      BY <1>0 DEF AllFlags, Flags
    <2>3. disk' = [disk EXCEPT ![HashOf] = v] /\ fl' = [fl EXCEPT ![HashOf].uptodate = b]
      BY <1>1, <2>2 DEF Restored
    <2>4. /\ disk' \in Disks /\ disk'[HashOf] = v
          /\ \A x \in Files : x # HashOf => disk'[x] = disk[x]
      BY <1>0, <2>1, <2>3 DEF Disks
    <2>5. /\ fl' \in AllFlags
          /\ \A x \in Files : /\ fl'[x].ondisk = fl[x].ondisk
                              /\ fl'[x].ignore = fl[x].ignore
                              /\ fl'[x].parsed = fl[x].parsed
                              /\ fl'[x].forgive = fl[x].forgive
                              /\ x # HashOf => fl'[x].uptodate = fl[x].uptodate
      BY <1>0, <2>3 DEF AllFlags, Flags
    <2>6. Fresher(fl, fl')
      BY <1>1, <2>5 DEF Fresher
    <2> QED  BY <1>0, <2>1, <2>4, <2>5, <2>6
  <1>2. CASE ~(Restorable(v) /\ ~fl[HashOf].uptodate)
    <2>1. disk' = disk /\ fl' = fl
      BY <1>2 DEF Restored
    <2> QED  BY <1>0, <2>1 DEF Fresher
  <1> QED  BY <1>1, <1>2

\* A file that is found fresh by comparison is equal to the release file's one.
LEMMA QuickFacts ==
    ASSUME TypeInv, NEW h, h = QuickChecked(fl)
    PROVE  /\ h \in AllFlags /\ Fresher(fl, h)
           /\ \A f \in Files : h[f].uptodate /\ ~fl[f].uptodate =>
                GoodReleases(fl) # <<>> /\ disk[f] = disk[GoodReleases(fl)[1]]
  <1>0. fl \in AllFlags
    BY DEF TypeInv
  <1>1. CASE GoodReleases(fl) = <<>>
    BY <1>0, <1>1 DEF QuickChecked, Fresher
  <1>2. CASE GoodReleases(fl) # <<>>
    <2>1. h = [f \in Files |->
                 [fl[f] EXCEPT !.uptodate =
                    @ \/ (f \in given.small /\ fl[f].ondisk /\ disk[f] = disk[GoodReleases(fl)[1]])]]
      BY <1>2 DEF QuickChecked
    <2>2. ASSUME NEW f \in Files
          PROVE  /\ h[f] \in Flags
                 /\ h[f].ondisk = fl[f].ondisk /\ h[f].ignore = fl[f].ignore
                 /\ h[f].parsed = fl[f].parsed /\ h[f].forgive = fl[f].forgive
                 /\ fl[f].uptodate => h[f].uptodate
                 /\ h[f].uptodate /\ ~fl[f].uptodate => disk[f] = disk[GoodReleases(fl)[1]]
      <3>1. PICK r \in Flags : r = fl[f]
        BY <1>0 DEF AllFlags
      <3>2. PICK a \in BOOLEAN : a <=> (r.uptodate \/ (f \in given.small /\ r.ondisk
                                                       /\ disk[f] = disk[GoodReleases(fl)[1]]))
        OBVIOUS
      <3>3. h[f] = [r EXCEPT !.uptodate = a]
        BY <2>1, <3>1, <3>2
      <3> QED  BY <3>1, <3>2, <3>3 DEF Flags
    <2>3. h \in AllFlags
      <3>1. h = [f \in Files |-> h[f]]
        BY <2>1, Zenon
      <3> QED  BY <2>2, <3>1 DEF AllFlags
    <2> QED  BY <1>2, <2>2, <2>3 DEF Fresher
  <1> QED  BY <1>1, <1>2

\* Downloads of all kinds but those of the groups.
LEMMA DownloadHeard ==
    HeardInv /\ (Forced \/ UpdateRelease \/ RestDownload) => HeardInv'
  <1> SUFFICES ASSUME HeardInv, Forced \/ UpdateRelease \/ RestDownload PROVE HeardInv'
    OBVIOUS
  <1>0. TypeInv /\ errors \in Nat /\ todo \in Seq(Files)
    BY DEF HeardInv, TypeInv
  <1>1. \E f \in Files, hint \in BOOLEAN : \E plan \in Plans(f, hint) :
          /\ Downloaded(f, plan) /\ fl' = FlagsAfter(f, plan)
          /\ errors' = errors \/ errors' = errors + 1
          /\ todo' \in Seq(Files)
          /\ pc' \notin {"reading", "review", "group", "shared", "update"}
          /\ UNCHANGED <<given, ring, heard, stop, muted, spared>>
    <2>1. CASE Forced
      <3>1. PICK k \in DOMAIN todo : \E plan \in Plans(todo[k], FALSE) :
              /\ First(k, OnDisk)
              /\ Downloaded(todo[k], plan)
              /\ fl' = FlagsAfter(todo[k], plan)
              /\ errors' = IF Reported(plan) = "FAIL" /\ ~fl[todo[k]].forgive
                           THEN errors + 1 ELSE errors
              /\ todo' = Rest(k)
        BY <2>1 DEF Forced
      <3>2. todo[k] \in Files /\ Rest(k) \in Seq(Files)
        BY <1>0, <3>1, FirstFacts
      <3>3. pc' = "forced" /\ UNCHANGED <<given, ring, heard, stop, muted, spared>>
        BY <2>1 DEF Forced
      <3> QED  BY <3>1, <3>2, <3>3
    <2>2. CASE UpdateRelease
      <3>2. pc = "update" /\ UNCHANGED <<given, ring, heard, stop, muted, spared>>
        BY <2>2 DEF UpdateRelease
      <3>3. PICK plan \in Plans(todo[1], TRUE) :
              /\ Downloaded(todo[1], plan)
              /\ fl' = FlagsAfter(todo[1], plan)
              /\ errors' = IF Reported(plan) = "FAIL" THEN errors + 1 ELSE errors
              /\ IF Reported(plan) = "FAIL" /\ stop
                 THEN pc' = "read" /\ todo' = <<>>
                 ELSE pc' = "release" /\ todo' = Tail(todo)
        BY <2>2 DEF UpdateRelease
      <3>4. todo # <<>>
        BY <3>2 DEF HeardInv, UpdateTodo
      <3>5. todo[1] \in Files /\ Tail(todo) \in Seq(Files) /\ <<>> \in Seq(Files)
        BY <1>0, <3>4
      <3> QED  BY <3>2, <3>3, <3>5
    <2>3. CASE RestDownload
      <3>1. PICK k \in DOMAIN todo : \E plan \in Plans(todo[k], TRUE) :
              /\ First(k, Wanted)
              /\ Downloaded(todo[k], plan)
              /\ fl' = FlagsAfter(todo[k], plan)
              /\ errors' = IF Reported(plan) = "FAIL" /\ ~fl[todo[k]].forgive
                           THEN errors + 1 ELSE errors
              /\ todo' = Rest(k)
        BY <2>3 DEF RestDownload
      <3>2. todo[k] \in Files /\ Rest(k) \in Seq(Files)
        BY <1>0, <3>1, FirstFacts
      <3>3. pc' = "rest" /\ UNCHANGED <<given, ring, heard, stop, muted, spared>>
        BY <2>3 DEF RestDownload
      <3> QED  BY <3>1, <3>2, <3>3
    <2> QED  BY <2>1, <2>2, <2>3
  <1>2. PICK f \in Files, hint \in BOOLEAN : \E plan \in Plans(f, hint) :
          /\ Downloaded(f, plan) /\ fl' = FlagsAfter(f, plan)
          /\ errors' = errors \/ errors' = errors + 1
          /\ todo' \in Seq(Files)
          /\ pc' \notin {"reading", "review", "group", "shared", "update"}
          /\ UNCHANGED <<given, ring, heard, stop, muted, spared>>
    BY <1>1
  <1>3. disk' \in Disks /\ faults' \in Nat /\ fl' \in AllFlags /\ Fresher(fl, fl')
    BY <1>0, <1>2, DownloadFacts
  <1>4. errors' \in Nat /\ (errors' = 0 => errors = 0)
    BY <1>0, <1>2
  <1>5. TypeInv'
    BY <1>0, <1>2, <1>3, <1>4 DEF TypeInv
  <1>6. GroupTodo(pc', todo') /\ UpdateTodo(pc', todo')
    BY <1>2 DEF GroupTodo, UpdateTodo
  <1> QED  BY <1>2, <1>3, <1>4, <1>5, <1>6, FresherGrown, UpdateKeeps

\* Files that are restored from their by-hash names.
LEMMA RestoreHeard == HeardInv /\ (RestoreFiles \/ FixMissingByHashLinks) => HeardInv'
  <1> SUFFICES ASSUME HeardInv, RestoreFiles \/ FixMissingByHashLinks PROVE HeardInv'
    OBVIOUS
  <1>0. TypeInv /\ faults \in Nat
    BY DEF HeardInv, TypeInv
  <1>1. /\ UNCHANGED <<given, ring, errors, heard, stop, todo, muted, spared>>
        /\ faults' = faults \/ faults' = faults + 1
        /\ pc' \in {"update", "snapshots", "extract"}
        /\ pc' = "update" => todo # <<>>
    BY DEF RestoreFiles, FixMissingByHashLinks
  <1>2. (\E v : Restored(v)) \/ UNCHANGED <<disk, fl>>
    BY DEF RestoreFiles, FixMissingByHashLinks
  <1>3. disk' \in Disks /\ fl' \in AllFlags /\ Fresher(fl, fl')
    <2>1. CASE \E v : Restored(v)
      BY <1>0, <2>1, RestoredFacts
    <2>2. CASE UNCHANGED <<disk, fl>>
      BY <1>0, <2>2 DEF TypeInv, Fresher
    <2> QED  BY <1>2, <2>1, <2>2
  <1>4. faults' \in Nat
    BY <1>0, <1>1
  <1>5. TypeInv'
    BY <1>0, <1>1, <1>3, <1>4 DEF TypeInv
  <1>6. GroupTodo(pc', todo') /\ UpdateTodo(pc', todo')
    BY <1>1 DEF GroupTodo, UpdateTodo
  <1> QED  BY <1>1, <1>3, <1>5, <1>6, FresherGrown, UpdateKeeps

\* The quick check before the groups are synchronised.
LEMMA SyncGroupsHeard == HeardInv /\ SyncGroups => HeardInv'
  <1> SUFFICES ASSUME HeardInv, SyncGroups PROVE HeardInv'
    OBVIOUS
  <1>0. TypeInv
    BY DEF HeardInv
  <1>1. /\ UNCHANGED <<disk, given, errors, heard, stop, faults, muted, spared>>
        /\ pc' = "share" /\ todo' = Order
        /\ fl' = QuickChecked(fl) /\ ring' = Members(fl)
    BY DEF SyncGroups
  <1>2. fl' \in AllFlags /\ Fresher(fl, fl')
    BY <1>0, <1>1, QuickFacts
  <1>3. ring' \subseteq Variants
    BY <1>1 DEF Members, Paths
  <1>4. TypeInv'
    BY <1>0, <1>1, <1>2, <1>3, NameFacts DEF TypeInv
  <1>5. GroupTodo(pc', todo') /\ UpdateTodo(pc', todo')
    BY <1>1 DEF GroupTodo, UpdateTodo
  <1> QED  BY <1>1, <1>2, <1>4, <1>5, FresherGrown, UpdateKeeps

\* A base for the patches is fetched.
LEMMA FetchBaseHeard == HeardInv /\ FetchBase => HeardInv'
  <1> SUFFICES ASSUME HeardInv, FetchBase PROVE HeardInv'
    OBVIOUS
  <1>0. TypeInv /\ fl \in AllFlags
    BY DEF HeardInv, TypeInv
  <1>1. /\ pc' = "base" /\ UNCHANGED <<given, ring, errors, heard, stop, muted, spared>>
    BY DEF FetchBase
  <1>2. PICK k \in DOMAIN todo : \E plan \in Plans(todo[k], FALSE) :
          /\ First(k, Compressed)
          /\ Downloaded(todo[k], plan)
          /\ fl' = IF Reported(plan) = "OK"
                   THEN [FlagsAfter(todo[k], plan) EXCEPT ![todo[k]].ondisk = TRUE]
                   ELSE fl
          /\ todo' = IF Reported(plan) = "OK" THEN <<>> ELSE Rest(k)
    BY DEF FetchBase
  <1>3. PICK plan \in Plans(todo[k], FALSE) :
          /\ Downloaded(todo[k], plan)
          /\ fl' = IF Reported(plan) = "OK"
                   THEN [FlagsAfter(todo[k], plan) EXCEPT ![todo[k]].ondisk = TRUE]
                   ELSE fl
          /\ todo' = IF Reported(plan) = "OK" THEN <<>> ELSE Rest(k)
    BY <1>2
  <1>4. todo[k] \in Files /\ Rest(k) \in Seq(Files) /\ <<>> \in Seq(Files)
    BY <1>0, <1>2, FirstFacts
  <1>5. PICK h : h = FlagsAfter(todo[k], plan)
    OBVIOUS
  <1>6. disk' \in Disks /\ faults' \in Nat /\ h \in AllFlags /\ Fresher(fl, h)
    BY <1>0, <1>3, <1>4, <1>5, DownloadFacts
  <1>7. fl' \in AllFlags /\ Grown(fl, fl')
    <2>1. CASE fl' = fl
      BY <1>0, <2>1 DEF Grown
    <2>2. CASE fl' = [h EXCEPT ![todo[k]].ondisk = TRUE]
      <3>1. /\ fl' \in AllFlags
            /\ fl'[todo[k]].ondisk = TRUE
            /\ \A x \in Files : /\ fl'[x].ignore = h[x].ignore
                                /\ fl'[x].uptodate = h[x].uptodate
                                /\ fl'[x].parsed = h[x].parsed
                                /\ fl'[x].forgive = h[x].forgive
                                /\ x # todo[k] => fl'[x].ondisk = h[x].ondisk
        BY <1>4, <1>6, <2>2 DEF AllFlags, Flags
      <3> QED  BY <1>6, <3>1 DEF Fresher, Grown
    <2> QED  BY <1>3, <1>5, <2>1, <2>2
  <1>8. TypeInv'
    BY <1>0, <1>1, <1>3, <1>4, <1>6, <1>7 DEF TypeInv
  <1>9. GroupTodo(pc', todo') /\ UpdateTodo(pc', todo')
    BY <1>1 DEF GroupTodo, UpdateTodo
  <1> QED  BY <1>1, <1>7, <1>8, <1>9, UpdateKeeps

\* Clients, and the cancelling of the task.
LEMMA OthersHeard ==
    HeardInv /\ (Cancel \/ \E f \in Files : ClientFetch(f)) => HeardInv'
  <1> SUFFICES ASSUME HeardInv, Cancel \/ \E f \in Files : ClientFetch(f) PROVE HeardInv'
    OBVIOUS
  <1>0. TypeInv /\ disk \in Disks /\ Current \in Versions
    BY NameFacts DEF HeardInv, TypeInv
  <1>1. UNCHANGED <<given, fl, ring, errors, heard, pc, todo, faults, muted, spared>>
    BY DEF Cancel, ClientFetch
  <1>2. disk' = disk \/ \E f \in Files : disk' = [disk EXCEPT ![f] = Current]
    BY DEF Cancel, ClientFetch
  <1>3. disk' \in Disks
    BY <1>0, <1>2 DEF Disks
  <1>4. stop' \in BOOLEAN
    BY <1>0, Zenon DEF Cancel, ClientFetch, TypeInv
  <1>5. TypeInv'
    BY <1>0, <1>1, <1>3, <1>4 DEF TypeInv
  <1>6. ReadInv'
    BY <1>1 DEF HeardInv, ReadInv
  <1> QED  BY <1>1, <1>5, <1>6 DEF HeardInv

\* The steps of SyncSiblings.
LEMMA ShareHeard ==
    ASSUME HeardInv, NEW d \in Disks, NEW g \in AllFlags, NEW src \in Variants,
           Grown(fl, g), g[src].uptodate, SyncSiblings(d, g, src),
           UNCHANGED <<given, ring, errors, heard, stop, spared>>,
           todo' \in Seq(Files), pc' \notin {"reading", "review", "update"}, GroupTodo(pc', todo')
    PROVE  HeardInv'
  <1>0. TypeInv /\ muted \in BOOLEAN /\ faults \in Nat
    BY DEF HeardInv, TypeInv
  <1>1. GroupKept(g, muted, spared, errors) /\ ReleaseKept(g) /\ ParsedHeard(g, heard)
    BY GrownKeeps DEF HeardInv
  <1>2. /\ disk' \in Disks /\ fl' \in AllFlags /\ muted' \in BOOLEAN /\ faults' \in Nat
        /\ GroupKept(fl', muted', spared, errors) /\ ReleaseKept(fl')
        /\ ParsedHeard(fl', heard)
    BY <1>0, <1>1, SyncKeeps
  <1>3. TypeInv'
    BY <1>0, <1>2 DEF TypeInv
  <1>4. ReadInv' /\ UpdateTodo(pc', todo')
    BY DEF ReadInv, UpdateTodo
  <1> QED  BY <1>2, <1>3, <1>4 DEF HeardInv

\* A fresh variant shares what it has.
LEMMA ShareKnowledgeHeard == HeardInv /\ (ShareKnowledge \/ GroupShare) => HeardInv'
  <1> SUFFICES ASSUME HeardInv, ShareKnowledge \/ GroupShare PROVE HeardInv'
    OBVIOUS
  <1>0. TypeInv /\ disk \in Disks /\ fl \in AllFlags /\ Grown(fl, fl)
    BY DEF HeardInv, TypeInv, Grown
  <1>1. UNCHANGED <<given, ring, errors, heard, stop, spared>>
    BY DEF ShareKnowledge, GroupShare
  <1>2. CASE ShareKnowledge
    <2>1. PICK k \in DOMAIN todo : /\ First(k, FreshPaths)
                                   /\ SyncSiblings(disk, fl, todo[k])
                                   /\ todo' = Rest(k)
      BY <1>2 DEF ShareKnowledge
    <2>2. todo[k] \in FreshPaths /\ Rest(k) \in Seq(Files)
      BY <1>0, <2>1, FirstFacts
    <2>3. todo[k] \in Variants /\ fl[todo[k]].uptodate
      BY <2>2, PathsFacts DEF FreshPaths
    <2>4. pc' = "share"
      BY <1>2 DEF ShareKnowledge
    <2> QED  BY <1>0, <1>1, <2>1, <2>2, <2>3, <2>4, ShareHeard DEF GroupTodo
  <1>3. CASE GroupShare
    <2>1. PICK k \in DOMAIN todo :
            /\ First(k, Considered)
            /\ IF fl[todo[k]].uptodate /\ todo[k] \in Variants THEN SyncSiblings(disk, fl, todo[k])
               ELSE UNCHANGED <<disk, fl, faults, muted>>
            /\ todo' = Rest(k)
      BY <1>3 DEF GroupShare
    <2>2. /\ todo[k] \in Files /\ Rest(k) \in Seq(Files)
          /\ \A f : InTodo(f, Rest(k)) => InTodo(f, todo)
      BY <1>0, <2>1, FirstFacts
    <2>3. pc \in {"group", "shared"} /\ pc' = "group"
      BY <1>3 DEF GroupShare
    <2>4. GroupTodo(pc', todo')
      BY <2>1, <2>2, <2>3 DEF HeardInv, GroupTodo, InTodo
    <2>5. CASE fl[todo[k]].uptodate /\ todo[k] \in Variants
      BY <1>0, <1>1, <2>1, <2>2, <2>3, <2>4, <2>5, ShareHeard
    <2>6. CASE ~(fl[todo[k]].uptodate /\ todo[k] \in Variants)
      <3>1. UNCHANGED <<disk, fl, faults, muted>>
        BY <2>1, <2>6
      <3>2. TypeInv'
        BY <1>0, <1>1, <2>1, <2>2, <3>1 DEF TypeInv
      <3> QED  BY <1>0, <1>1, <2>3, <2>4, <3>1, <3>2, UpdateKeeps DEF UpdateTodo
    <2> QED  BY <2>5, <2>6
  <1> QED  BY <1>2, <1>3

\* A variant that is found to be what the list of diffs leads to.
LEMMA PatchFreshHeard == HeardInv /\ PatchFresh => HeardInv'
  <1> SUFFICES ASSUME HeardInv, PatchFresh PROVE HeardInv'
    OBVIOUS
  <1>0. TypeInv /\ disk \in Disks /\ fl \in AllFlags
    BY DEF HeardInv, TypeInv
  <1>1. /\ UNCHANGED <<given, ring, errors, heard, stop, spared>>
        /\ pc' = "group" /\ todo' = GroupOrder
    BY DEF PatchFresh
  <1>2. PICK f : f \in Paths(fl) /\ SyncSiblings(disk, [fl EXCEPT ![f].uptodate = TRUE], f)
    BY DEF PatchFresh
  <1>3. f \in Variants /\ f \in Files
    BY <1>2, PathsFacts, NameFacts
  <1>4. PICK g : g = [fl EXCEPT ![f].uptodate = TRUE]
    OBVIOUS
  <1>5. g \in AllFlags /\ Fresher(fl, g) /\ g[f].uptodate
    BY <1>0, <1>3, <1>4, FresherSet
  <1>6. GroupTodo(pc', todo') /\ todo' \in Seq(Files)
    BY <1>1, GroupOrderFacts DEF GroupTodo
  <1> QED  BY <1>0, <1>1, <1>2, <1>3, <1>4, <1>5, <1>6, FresherGrown, ShareHeard

\* A patched file is installed.
LEMMA InstallHeard == HeardInv /\ InstallPatched => HeardInv'
  <1> SUFFICES ASSUME HeardInv, InstallPatched PROVE HeardInv'
    OBVIOUS
  <1>0. TypeInv /\ disk \in Disks /\ fl \in AllFlags
    BY DEF HeardInv, TypeInv
  <1>1. pc' = "install" /\ UNCHANGED <<given, ring, errors, heard, stop, spared>>
    BY DEF InstallPatched
  <1>2. PICK k \in DOMAIN todo :
          /\ First(k, RawPaths)
          /\ SyncSiblings(IF ~fl[todo[k]].uptodate THEN [disk EXCEPT ![todo[k]] = disk[DiffIndex]]
                          ELSE disk,
                          IF ~fl[todo[k]].uptodate
                          THEN [fl EXCEPT ![todo[k]].uptodate = TRUE, ![todo[k]].ondisk = TRUE]
                          ELSE fl, todo[k])
          /\ todo' = Rest(k)
    BY DEF InstallPatched
  <1>3. PICK t : t = todo[k]
    OBVIOUS
  <1>4. t \in Variants /\ t \in Files /\ Rest(k) \in Seq(Files)
    BY <1>0, <1>2, <1>3, FirstFacts, PathsFacts, NameFacts DEF RawPaths
  <1>5. PICK d : d = IF ~fl[t].uptodate THEN [disk EXCEPT ![t] = disk[DiffIndex]] ELSE disk
    OBVIOUS
  <1>6. PICK g : g = IF ~fl[t].uptodate
                     THEN [fl EXCEPT ![t].uptodate = TRUE, ![t].ondisk = TRUE] ELSE fl
    OBVIOUS
  <1>7. SyncSiblings(d, g, t)
    BY <1>2, <1>3, <1>5, <1>6
  <1>8. d \in Disks
    BY <1>0, <1>4, <1>5, NameFacts DEF Disks
  <1>9. g \in AllFlags /\ Grown(fl, g) /\ g[t].uptodate
    <2>1. CASE fl[t].uptodate
      BY <1>0, <1>6, <2>1 DEF Grown
    <2>2. CASE ~fl[t].uptodate
      <3>1. g = [fl EXCEPT ![t].uptodate = TRUE, ![t].ondisk = TRUE]
        BY <1>6, <2>2
      <3>2. /\ g \in AllFlags
            /\ g[t].ondisk = TRUE /\ g[t].uptodate = TRUE
            /\ \A x \in Files : /\ g[x].ignore = fl[x].ignore
                                /\ g[x].parsed = fl[x].parsed
                                /\ g[x].forgive = fl[x].forgive
                                /\ x # t => g[x].ondisk = fl[x].ondisk /\ g[x].uptodate = fl[x].uptodate
        BY <1>0, <1>4, <3>1 DEF AllFlags, Flags
      <3> QED  BY <3>2 DEF Grown
    <2> QED  BY <2>1, <2>2
  <1>10. GroupTodo(pc', todo') /\ todo' \in Seq(Files)
    BY <1>1, <1>2, <1>4 DEF GroupTodo
  <1> QED  BY <1>1, <1>4, <1>7, <1>8, <1>9, <1>10, ShareHeard

\* A patched file cannot be installed.
LEMMA InstallFailsHeard == HeardInv /\ InstallFails => HeardInv'
  <1> SUFFICES ASSUME HeardInv, InstallFails PROVE HeardInv'
    OBVIOUS
  <1>0. TypeInv /\ disk \in Disks /\ faults \in Nat
    BY DEF HeardInv, TypeInv
  <1>1. /\ pc' = "install" /\ faults' = faults + 1
        /\ UNCHANGED <<given, fl, ring, errors, heard, stop, muted, spared>>
    BY DEF InstallFails
  <1>2. PICK k \in DOMAIN todo : /\ First(k, RawPaths)
                                 /\ disk' \in {disk, [disk EXCEPT ![todo[k]] = None]}
                                 /\ todo' = Rest(k)
    BY DEF InstallFails
  <1>3. Rest(k) \in Seq(Files)
    BY <1>0, <1>2, FirstFacts
  <1>4. disk' \in Disks
    BY <1>0, <1>2 DEF Disks
  <1>5. TypeInv'
    BY <1>0, <1>1, <1>2, <1>3, <1>4 DEF TypeInv
  <1>6. Grown(fl, fl') /\ GroupTodo(pc', todo') /\ UpdateTodo(pc', todo')
    BY <1>1 DEF Grown, GroupTodo, UpdateTodo
  <1> QED  BY <1>1, <1>5, <1>6, UpdateKeeps

\* A member of a group is downloaded; when that fails it is disabled, but this
\* is counted as an error or forgiven.
LEMMA GroupDownloadHeard == HeardInv /\ GroupDownload => HeardInv'
  <1> SUFFICES ASSUME HeardInv, GroupDownload PROVE HeardInv'
    OBVIOUS
  <1>0. TypeInv /\ fl \in AllFlags /\ errors \in Nat
    BY DEF HeardInv, TypeInv
  <1>1. pc = "group" /\ UNCHANGED <<given, ring, heard, stop, muted>>
    BY DEF GroupDownload
  <1>2. PICK k \in DOMAIN todo : \E plan \in Plans(todo[k], FALSE) :
          /\ First(k, Considered)
          /\ Downloaded(todo[k], plan)
          /\ fl' = IF Reported(plan) = "FAIL"
                   THEN [FlagsAfter(todo[k], plan) EXCEPT ![todo[k]].ignore = TRUE]
                   ELSE FlagsAfter(todo[k], plan)
          /\ errors' = IF Reported(plan) = "FAIL" /\ ~fl[todo[k]].forgive
                       THEN errors + 1 ELSE errors
          /\ spared' = IF Reported(plan) = "FAIL" /\ fl[todo[k]].forgive
                       THEN spared \cup {todo[k]} ELSE spared
          /\ pc' = IF Reported(plan) = "FAIL" THEN "group" ELSE "shared"
          /\ todo' = IF Reported(plan) = "FAIL" THEN Rest(k) ELSE Rest(k - 1)
    BY DEF GroupDownload
  <1>3. PICK f : f = todo[k]
    OBVIOUS
  <1>4. PICK plan \in Plans(f, FALSE) :
          /\ Downloaded(f, plan)
          /\ fl' = IF Reported(plan) = "FAIL"
                   THEN [FlagsAfter(f, plan) EXCEPT ![f].ignore = TRUE]
                   ELSE FlagsAfter(f, plan)
          /\ errors' = IF Reported(plan) = "FAIL" /\ ~fl[f].forgive
                       THEN errors + 1 ELSE errors
          /\ spared' = IF Reported(plan) = "FAIL" /\ fl[f].forgive
                       THEN spared \cup {f} ELSE spared
          /\ pc' = IF Reported(plan) = "FAIL" THEN "group" ELSE "shared"
          /\ todo' = IF Reported(plan) = "FAIL" THEN Rest(k) ELSE Rest(k - 1)
    BY <1>2, <1>3
  <1>5. /\ f \in Files /\ Rest(k) \in Seq(Files) /\ Rest(k - 1) \in Seq(Files)
        /\ \A x : InTodo(x, Rest(k)) \/ InTodo(x, Rest(k - 1)) => InTodo(x, todo)
    BY <1>0, <1>2, <1>3, FirstFacts
  <1>6. f \in Variants \cup {DiffIndex}
    BY <1>1, <1>3 DEF HeardInv, GroupTodo
  <1>7. PICK h : h = FlagsAfter(f, plan)
    OBVIOUS
  <1>8. disk' \in Disks /\ faults' \in Nat /\ h \in AllFlags /\ Grown(fl, h)
    BY <1>0, <1>4, <1>5, <1>7, DownloadFacts, FresherGrown
  <1>9. /\ errors' \in Nat /\ (errors' = 0 => errors = 0)
        /\ spared' \subseteq Files /\ spared \subseteq spared'
    <2>1. spared \subseteq Files
      BY <1>0 DEF TypeInv
    <2> QED  BY <1>0, <1>4, <1>5, <2>1
  <1>10. GroupTodo(pc', todo') /\ todo' \in Seq(Files) /\ pc' \in {"group", "shared"}
    BY <1>1, <1>4, <1>5 DEF HeardInv, GroupTodo, InTodo
  <1>11. ReadInv' /\ UpdateTodo(pc', todo')
    BY <1>10 DEF ReadInv, UpdateTodo
  <1>12. /\ GroupKept(h, muted, spared, errors') /\ ReleaseKept(h)
         /\ ParsedHeard(h, heard)
    BY <1>8, <1>9, GrownKeeps DEF HeardInv
  <1>13. CASE Reported(plan) # "FAIL"
    <2>1. fl' = h
      BY <1>4, <1>7, <1>13
    <2>2. TypeInv'
      BY <1>0, <1>1, <1>8, <1>9, <1>10, <2>1 DEF TypeInv
    <2>3. spared' = spared
      BY <1>4, <1>13
    <2> QED  BY <1>1, <1>10, <1>11, <1>12, <2>1, <2>2, <2>3 DEF HeardInv
  <1>14. CASE Reported(plan) = "FAIL"
    <2>1. fl' = [h EXCEPT ![f].ignore = TRUE]
      BY <1>4, <1>7, <1>14
    <2>2. /\ fl' \in AllFlags
          /\ fl'[f].ignore = TRUE
          /\ \A x \in Files : /\ fl'[x].ondisk = h[x].ondisk
                              /\ fl'[x].uptodate = h[x].uptodate
                              /\ fl'[x].parsed = h[x].parsed
                              /\ fl'[x].forgive = h[x].forgive
                              /\ x # f => fl'[x].ignore = h[x].ignore
      BY <1>5, <1>8, <2>1 DEF AllFlags, Flags
    <2>3. TypeInv'
      BY <1>0, <1>1, <1>8, <1>9, <1>10, <2>2 DEF TypeInv
    <2>4. errors' # 0 \/ f \in spared'
      BY <1>0, <1>4, <1>14
    <2>5. GroupKept(fl', muted', spared', errors')
      <3>1. CASE f # DiffIndex
        BY <1>6, <2>4, <3>1 DEF GroupKept
      <3>2. CASE f = DiffIndex
        <4>1. \A x \in Variants : fl'[x].ignore = h[x].ignore /\ fl'[x].uptodate = h[x].uptodate
          BY <2>2, <3>2, NameFacts
        <4> QED  BY <1>1, <1>9, <1>12, <4>1 DEF GroupKept
      <3> QED  BY <3>1, <3>2
    <2>6. ReleaseKept(fl')
      BY <1>6, <1>12, <2>2, NameFacts DEF ReleaseKept
    <2>7. ParsedHeard(fl', heard')
      BY <1>1, <1>12, <2>2 DEF ParsedHeard
    <2> QED  BY <1>10, <1>11, <2>3, <2>5, <2>6, <2>7 DEF HeardInv
  <1> QED  BY <1>13, <1>14

\* The reading starts with all files still to visit.
LEMMA StartReadingHeard == HeardInv /\ StartReading => HeardInv'
  <1> SUFFICES ASSUME HeardInv, StartReading PROVE HeardInv'
    OBVIOUS
  <1>0. TypeInv /\ fl \in AllFlags
    BY DEF HeardInv, TypeInv
  <1>1. /\ fl' = Preferred(fl)
        /\ pc' \in {"end", "reading"} /\ todo' \in {<<>>, Order}
        /\ pc' = "reading" => todo' = Order
        /\ UNCHANGED <<disk, given, ring, errors, heard, stop, faults, muted, spared>>
    BY DEF StartReading
  <1>2. /\ fl' \in AllFlags
        /\ fl'[Release].ignore <=> fl[Release].ignore \/ (fl[InRelease].ondisk /\ fl[Release].ondisk)
        /\ \A x \in Files : /\ fl'[x].ondisk = fl[x].ondisk
                            /\ fl'[x].uptodate = fl[x].uptodate
                            /\ fl'[x].parsed = fl[x].parsed
                            /\ fl'[x].forgive = fl[x].forgive
                            /\ x # Release => fl'[x].ignore = fl[x].ignore
    BY <1>0, <1>1, PreferredFacts
  <1>3. todo' \in Seq(Files)
    <2>1. <<>> \in Seq(Files) /\ Order \in Seq(Files)
      BY NameFacts
    <2> QED  BY <1>1, <2>1
  <1>4. TypeInv'
    BY <1>0, <1>1, <1>2, <1>3 DEF TypeInv
  <1>5. GroupKept(fl', muted', spared', errors')
    <2>1. \A x \in Variants : fl'[x].ignore = fl[x].ignore /\ fl'[x].uptodate = fl[x].uptodate
      BY <1>2, NameFacts
    <2> QED  BY <1>1, <2>1 DEF HeardInv, GroupKept
  <1>6. ReleaseKept(fl')
    BY <1>2, NameFacts DEF HeardInv, ReleaseKept
  <1>7. ParsedHeard(fl', heard')
    BY <1>1, <1>2 DEF HeardInv, ParsedHeard
  <1>8. ReadInv'
    <2>1. pc' = "reading" => \A f \in Files : InTodo(f, todo')
      BY <1>1, NameFacts
    <2>2. pc' = "reading" => Visited(fl', heard' \cup spared', errors', todo')
      BY <2>1 DEF Visited
    <2> QED  BY <1>1, <2>2 DEF ReadInv
  <1>9. GroupTodo(pc', todo') /\ UpdateTodo(pc', todo')
    BY <1>1 DEF GroupTodo, UpdateTodo
  <1> QED  BY <1>4, <1>5, <1>6, <1>7, <1>8, <1>9 DEF HeardInv

\* The flags after a file was read.
LEMMA ParsedFacts ==
    ASSUME TypeInv, NEW f \in Files, NEW h,
           h = IF given.byPath THEN fl ELSE AlreadyParsed(f)
    PROVE  /\ h \in AllFlags
           /\ \A x \in Files : /\ h[x].ondisk = fl[x].ondisk
                               /\ h[x].ignore = fl[x].ignore
                               /\ h[x].uptodate = fl[x].uptodate
                               /\ h[x].forgive = fl[x].forgive
                               /\ fl[x].parsed => h[x].parsed
                               /\ h[x].parsed => fl[x].parsed \/ x = f \/ {x, f} \subseteq ring
  <1>0. fl \in AllFlags
    BY DEF TypeInv
  <1>1. CASE h = fl
    BY <1>0, <1>1
  <1>2. CASE h = AlreadyParsed(f)
    <2>1. h = [x \in Files |-> [fl[x] EXCEPT !.parsed = @ \/ x = f \/ {x, f} \subseteq ring]]
      BY <1>2 DEF AlreadyParsed
    <2>2. ASSUME NEW x \in Files
          PROVE  /\ h[x] \in Flags
                 /\ h[x].ondisk = fl[x].ondisk
                 /\ h[x].ignore = fl[x].ignore
                 /\ h[x].uptodate = fl[x].uptodate
                 /\ h[x].forgive = fl[x].forgive
                 /\ h[x].parsed <=> fl[x].parsed \/ x = f \/ {x, f} \subseteq ring
      <3>1. PICK r \in Flags : r = fl[x]
        BY <1>0 DEF AllFlags
      <3>2. PICK a \in BOOLEAN : a <=> (r.parsed \/ x = f \/ {x, f} \subseteq ring)
        OBVIOUS
      <3>3. h[x] = [r EXCEPT !.parsed = a]
        BY <2>1, <3>1, <3>2
      <3> QED  BY <3>1, <3>2, <3>3 DEF Flags
    <2>3. h = [x \in Files |-> h[x]]
      BY <2>1, Zenon
    <2> QED  BY <2>2, <2>3 DEF AllFlags
  <1> QED  BY <1>1, <1>2

\* A file is read; without path checks its ring counts as read, too.
LEMMA ReadIndexHeard == HeardInv /\ ReadIndex => HeardInv'
  <1> SUFFICES ASSUME HeardInv, ReadIndex PROVE HeardInv'
    OBVIOUS
  <1>0. /\ TypeInv /\ fl \in AllFlags /\ errors \in Nat /\ faults \in Nat
        /\ ring \subseteq Variants /\ heard \subseteq Files /\ spared \subseteq Files
    BY DEF HeardInv, TypeInv
  <1>1. /\ pc = "reading" /\ pc' = "reading"
        /\ UNCHANGED <<disk, given, ring, stop, muted>>
    BY DEF ReadIndex
  <1>2. PICK k \in DOMAIN todo :
          /\ First(k, Readable)
          /\ \/ /\ ReadsAll(todo[k])
                /\ fl' = IF given.byPath THEN fl ELSE AlreadyParsed(todo[k])
             \/ ReadsBad(todo[k]) /\ UNCHANGED fl
          /\ todo' = Rest(k)
    BY DEF ReadIndex
  <1>3. PICK f : f = todo[k]
    OBVIOUS
  <1>4. /\ f \in Files /\ f \in Readable /\ Rest(k) \in Seq(Files)
        /\ \A x \in Readable : InTodo(x, todo) => x = f \/ InTodo(x, Rest(k))
    BY <1>0, <1>2, <1>3, FirstFacts
  <1>5. Visited(fl, heard \cup spared, errors, todo) /\ ParsedHeard(fl, heard)
        /\ GroupKept(fl, muted, spared, errors) /\ ReleaseKept(fl)
    BY <1>1 DEF HeardInv, ReadInv
  <1>6. GroupTodo(pc', todo') /\ UpdateTodo(pc', todo')
    BY <1>1 DEF GroupTodo, UpdateTodo
  \* what remains of the files that can be read
  <1>7. \A x \in Files :
          ~fl[x].ignore /\ (fl[x].ondisk \/ fl[x].uptodate) =>
            x \in heard \cup spared \/ fl[x].parsed \/ errors > 0 \/ x = f \/ InTodo(x, todo')
    <2> SUFFICES ASSUME NEW x \in Files, ~fl[x].ignore,
                        fl[x].ondisk \/ fl[x].uptodate
                 PROVE  x \in heard \cup spared \/ fl[x].parsed \/ errors > 0 \/ x = f \/ InTodo(x, todo')
      OBVIOUS
    <2>1. CASE x \in Readable
      BY <1>2, <1>4, <1>5, <2>1 DEF Visited
    <2>2. CASE x \notin Readable
      BY <2>2 DEF Readable
    <2> QED  BY <2>1, <2>2
  <1>8. CASE ReadsAll(f) /\ fl' = IF given.byPath THEN fl ELSE AlreadyParsed(f)
    <2>1. heard' = heard \cup {f} /\ errors' = errors /\ faults' = faults /\ spared' = spared
      BY <1>8 DEF ReadsAll
    <2>2. /\ fl' \in AllFlags
          /\ \A x \in Files : /\ fl'[x].ondisk = fl[x].ondisk
                              /\ fl'[x].ignore = fl[x].ignore
                              /\ fl'[x].uptodate = fl[x].uptodate
                              /\ fl'[x].forgive = fl[x].forgive
                              /\ fl[x].parsed => fl'[x].parsed
                              /\ fl'[x].parsed => fl[x].parsed \/ x = f \/ {x, f} \subseteq ring
      BY <1>0, <1>4, <1>8, ParsedFacts
    <2>3. TypeInv'
      BY <1>0, <1>1, <1>2, <1>4, <2>1, <2>2 DEF TypeInv
    <2>4. GroupKept(fl', muted', spared', errors') /\ ReleaseKept(fl')
      BY <1>1, <1>5, <2>1, <2>2, NameFacts DEF GroupKept, ReleaseKept
    <2>6. ParsedHeard(fl', heard')
      BY <1>0, <1>5, <2>1, <2>2 DEF ParsedHeard
    <2>7. ReadInv'
      <3>1. Visited(fl', heard' \cup spared', errors', todo')
        BY <1>7, <2>1, <2>2 DEF Visited
      <3> QED  BY <1>1, <3>1 DEF ReadInv
    <2> QED  BY <1>6, <2>3, <2>4, <2>6, <2>7 DEF HeardInv
  <1>9. CASE ReadsBad(f) /\ UNCHANGED fl
    <2>1. /\ heard' = heard
          /\ errors' = IF fl[f].forgive THEN errors ELSE errors + 1
          /\ spared' = IF fl[f].forgive THEN spared \cup {f} ELSE spared
          /\ faults' = faults \/ faults' = faults + 1
      BY <1>9 DEF ReadsBad
    <2>2. /\ errors' \in Nat /\ faults' \in Nat /\ (errors' = 0 => errors = 0)
          /\ errors > 0 => errors' > 0
          /\ f \in spared' \/ errors' > 0
          /\ spared' \subseteq Files /\ spared \subseteq spared'
      BY <1>0, <1>4, <2>1
    <2>3. TypeInv'
      BY <1>0, <1>1, <1>2, <1>4, <1>9, <2>1, <2>2 DEF TypeInv
    <2>4. GroupKept(fl', muted', spared', errors')
      BY <1>1, <1>5, <1>9, <2>2 DEF GroupKept
    <2>5. ReleaseKept(fl') /\ ParsedHeard(fl', heard')
      BY <1>5, <1>9, <2>1
    <2>6. ReadInv'
      <3>1. Visited(fl', heard' \cup spared', errors', todo')
        BY <1>7, <1>9, <2>1, <2>2 DEF Visited
      <3> QED  BY <1>1, <3>1 DEF ReadInv
    <2> QED  BY <1>6, <2>3, <2>4, <2>5, <2>6 DEF HeardInv
  <1> QED  BY <1>2, <1>3, <1>8, <1>9

\* The review starts when nothing is left to read.
LEMMA ReadingDoneHeard == HeardInv /\ ReadingDone => HeardInv'
  <1> SUFFICES ASSUME HeardInv, ReadingDone PROVE HeardInv'
    OBVIOUS
  <1>0. TypeInv /\ <<>> \in Seq(Files)
    BY DEF HeardInv
  <1>1. /\ pc = "reading" /\ todo' = <<>>
        /\ pc' = IF GivesUp THEN "end" ELSE "review"
        /\ stop \/ ~Ahead(Readable)
        /\ UNCHANGED <<disk, given, fl, ring, errors, heard, stop, faults, muted, spared>>
    BY DEF ReadingDone
  <1>2. TypeInv'
    BY <1>0, <1>1 DEF TypeInv
  <1>3. ASSUME pc' = "review" PROVE Visited(fl', heard' \cup spared', errors', todo')
    <2>1. ~Ahead(Readable)
      BY <1>1, <1>3 DEF GivesUp
    <2>2. \A f \in Readable : ~InTodo(f, todo)
      BY <2>1, NoneAhead
    <2>3. Visited(fl, heard \cup spared, errors, todo)
      BY <1>1 DEF HeardInv, ReadInv
    <2>4. Visited(fl, heard \cup spared, errors, <<>>)
      BY <2>2, <2>3 DEF Visited, Readable
    <2> QED  BY <1>1, <2>4
  <1>4. ReadInv'
    BY <1>1, <1>3 DEF ReadInv
  <1>5. GroupTodo(pc', todo') /\ UpdateTodo(pc', todo')
    BY <1>1 DEF GroupTodo, UpdateTodo
  <1> QED  BY <1>1, <1>2, <1>4, <1>5 DEF HeardInv

\* The first part of the invariant is inductive.
LEMMA NextHeard == HeardInv /\ [Next]_vars => HeardInv'
  <1> SUFFICES ASSUME HeardInv, [Next]_vars PROVE HeardInv'
    OBVIOUS
  <1>1. CASE UNCHANGED vars
    <2>1. UNCHANGED <<disk, given, fl, ring, errors, heard, stop, pc, todo, faults, muted, spared>>
      BY <1>1 DEF vars
    <2>2. TypeInv'
      BY <2>1 DEF HeardInv, TypeInv
    <2>3. ReadInv'
      BY <2>1 DEF HeardInv, ReadInv
    <2> QED  BY <2>1, <2>2, <2>3 DEF HeardInv
  <1>2. CASE Task
    BY <1>2, WalkHeard, QuietHeard, DownloadHeard, RestoreHeard, SyncGroupsHeard,
       FetchBaseHeard, ShareKnowledgeHeard, PatchFreshHeard, InstallHeard,
       InstallFailsHeard, GroupDownloadHeard, StartReadingHeard, ReadIndexHeard, ReadingDoneHeard DEF Task
  <1>3. CASE Cancel \/ \E f \in Files : ClientFetch(f)
    BY <1>3, OthersHeard
  <1> QED  BY <1>1, <1>2, <1>3 DEF Next

\* What is left to read at the review has been read.
LEMMA HeardSuffices == HeardInv => GroupHeard
  <1> SUFFICES ASSUME HeardInv, Reviewed
               PROVE  (muted \/ ~Unread(Variants)) /\ ~Unread(Releases)
    BY DEF GroupHeard
  <1>1. /\ errors = 0 /\ Visited(fl, heard \cup spared, errors, <<>>) /\ ParsedHeard(fl, heard)
        /\ GroupKept(fl, muted, spared, errors) /\ ReleaseKept(fl)
    BY DEF HeardInv, ReadInv, Reviewed
  <1>2. \A f \in Files :
          ~fl[f].ignore /\ (fl[f].ondisk \/ fl[f].uptodate) =>
            f \in heard \cup spared \/ (f \in Variants /\ heard \cap Variants # {})
    <2> SUFFICES ASSUME NEW f \in Files, ~fl[f].ignore,
                        fl[f].ondisk \/ fl[f].uptodate
                 PROVE  f \in heard \cup spared \/ (f \in Variants /\ heard \cap Variants # {})
      OBVIOUS
    <2>1. f \in heard \cup spared \/ fl[f].parsed \/ errors > 0 \/ InTodo(f, <<>>)
      BY <1>1 DEF Visited
    <2>2. ~InTodo(f, <<>>)
      BY DEF InTodo
    <2>3. f \in heard \cup spared \/ fl[f].parsed
      BY <1>1, <2>1, <2>2
    <2> QED  BY <1>1, <2>3 DEF ParsedHeard
  <1>3. ASSUME ~muted, spared \cap Variants = {}, NEW x \in Variants, fl[x].ondisk
        PROVE  heard \cap Variants # {}
    <2>1. \E w \in Variants : ~fl[w].ignore /\ (fl[w].ondisk \/ fl[w].uptodate)
      BY <1>1, <1>3 DEF GroupKept
    <2>2. PICK w \in Variants : ~fl[w].ignore /\ (fl[w].ondisk \/ fl[w].uptodate)
      BY <2>1
    <2>3. w \in heard \cup spared \/ heard \cap Variants # {}
      BY <1>2, <2>2, NameFacts
    <2> QED  BY <1>3, <2>3
  <1>4. ASSUME NEW r \in Releases, fl[r].ondisk PROVE (heard \cup spared) \cap Releases # {}
    <2>1. r = InRelease \/ r = Release
      BY DEF Releases
    <2>2. \E s \in Releases : ~fl[s].ignore /\ fl[s].ondisk
      BY <1>1, <1>4, <2>1 DEF ReleaseKept, Releases
    <2>3. PICK s \in Releases : ~fl[s].ignore /\ fl[s].ondisk
      BY <2>2
    <2>4. s \in Files /\ s \notin Variants
      BY NameFacts DEF Releases
    <2> QED  BY <1>2, <2>3, <2>4
  <1> QED  BY <1>3, <1>4 DEF Unread

\* The inductive invariant of the first part: types, what disabled and parsed
\* variants stand for, and what the reading has still to visit.
THEOREM HeardInvHolds == Spec => []HeardInv
  BY InitHeard, NextHeard, PTL DEF Spec

\* The updating of an index group never leaves it without a reader: for any
\* variants in any folders, when the candidates for removal are reviewed after
\* a run without errors, the group was read through one of its members and the
\* release through one of its files, unless the error of one was forgiven or a
\* disabled variant has disabled others (GroupHeard).
THEOREM GroupHeardHolds == Spec => []GroupHeard
  BY HeardInvHolds, HeardSuffices, PTL

-----------------------------------------------------------------------------
(* The right version is read                                               *)

\* From the files d with flags g to e with h: what has become fresh is current.
Refreshed(d, g, e, h) ==
    /\ \A f \in Files : g[f].uptodate => h[f].uptodate
    /\ \A f \in Files : h[f].uptodate => (g[f].uptodate /\ e[f] = d[f]) \/ e[f] = Current
    /\ e[DiffIndex] = d[DiffIndex] \/ e[DiffIndex] = Current
    /\ \A f \in Releases \cup {DiffIndex} : h[f].ondisk = g[f].ondisk

\* Such a step keeps the meaning of the flag, and the good release files.
LEMMA RefreshedKeeps ==
    ASSUME NEW d, NEW g, NEW e, NEW h, Refreshed(d, g, e, h), NEW hd \in SUBSET Files,
           FreshCurrent(g, d), DiffCurrent(g, d), HeardFresh(g, hd)
    PROVE  /\ FreshCurrent(h, e) /\ DiffCurrent(h, e) /\ HeardFresh(h, hd)
           /\ GoodReleases(h) = GoodReleases(g)
           /\ GoodFresh(g) => GoodFresh(h)
  <1>1. FreshCurrent(h, e)
    BY DEF Refreshed, FreshCurrent
  <1>2. DiffCurrent(h, e)
    BY DEF Refreshed, DiffCurrent
  <1>3. HeardFresh(h, hd)
    BY DEF Refreshed, HeardFresh
  <1>4. GoodReleases(h) = GoodReleases(g)
    BY DEF Refreshed, GoodReleases, Releases
  <1>5. \A k \in DOMAIN GoodReleases(g) : GoodReleases(g)[k] \in Files
    BY NameFacts DEF GoodReleases
  <1>6. GoodFresh(g) => GoodFresh(h)
    BY <1>4, <1>5 DEF Refreshed, GoodFresh
  <1> QED  BY <1>1, <1>2, <1>3, <1>4, <1>6

\* The shape of the steps' proofs.
LEMMA CoverStep ==
    ASSUME TypeInv, CoverInv, given' = given, faults' = 0 => faults = 0,
           pc' # "walk", InstallInv',
           Smooth /\ faults' = 0 =>
             /\ Refreshed(disk, fl, disk', fl')
             /\ heard' = heard /\ spared' = spared
             /\ ReleaseInv(pc', fl', todo')
             /\ RestInv'
    PROVE  CoverInv'
  <1>1. WalkInv'
    BY DEF WalkInv
  <1>2. ASSUME Smooth'
        PROVE  /\ FreshCurrent(fl', disk') /\ DiffCurrent(fl', disk')
               /\ ReleaseInv(pc', fl', todo') /\ RestInv'
               /\ HeardFresh(fl', heard') /\ spared' = {}
    <2>1. Smooth /\ faults' = 0
      BY <1>2 DEF Smooth, NoLeftover
    <2>2. /\ FreshCurrent(fl, disk) /\ DiffCurrent(fl, disk) /\ HeardFresh(fl, heard)
          /\ heard \in SUBSET Files /\ spared = {}
      BY <2>1 DEF CoverInv, TypeInv
    <2>3. /\ Refreshed(disk, fl, disk', fl') /\ heard' = heard /\ spared' = spared
          /\ ReleaseInv(pc', fl', todo') /\ RestInv'
      BY <2>1
    <2>4. FreshCurrent(fl', disk') /\ DiffCurrent(fl', disk') /\ HeardFresh(fl', heard)
      BY <2>2, <2>3, RefreshedKeeps
    <2> QED  BY <2>2, <2>3, <2>4
  <1> QED  BY <1>1, <1>2 DEF CoverInv

\* The files are as before.
LEMMA SameRefreshed ==
    ASSUME NEW d, NEW g, NEW e, NEW h, e = d, h = g PROVE Refreshed(d, g, e, h)
  BY DEF Refreshed

\* A run starts with nothing fresh.
LEMMA InitCover == Init => CoverInv
  <1> SUFFICES ASSUME Init PROVE CoverInv
    OBVIOUS
  <1>1. /\ fl = [f \in Files |-> NoFlags] /\ disk = given.disk
        /\ pc = "walk" /\ todo = <<>> /\ heard = {} /\ spared = {}
    BY DEF Init
  <1>2. \A f \in Files : ~fl[f].uptodate /\ ~fl[f].ondisk
    <2>1. ~NoFlags.uptodate /\ ~NoFlags.ondisk
      BY DEF NoFlags
    <2>2. \A f \in Files : fl[f] = NoFlags
      BY <1>1
    <2> QED  BY <2>1, <2>2, Zenon
  <1>3. WalkInv /\ InstallInv
    BY <1>1 DEF WalkInv, InstallInv
  <1>4. Smooth => FreshCurrent(fl, disk) /\ DiffCurrent(fl, disk)
    BY <1>1, <1>2, NameFacts DEF Smooth, NoLeftover, FreshCurrent, DiffCurrent
  <1>5. ReleaseInv(pc, fl, todo) /\ RestInv /\ HeardFresh(fl, heard)
    BY <1>1 DEF ReleaseInv, RestInv, HeardFresh
  <1> QED  BY <1>1, <1>3, <1>4, <1>5 DEF CoverInv

\* The walk makes no file fresh.
LEMMA WalkCover == HeardInv /\ CoverInv /\ Walk => CoverInv'
  <1> SUFFICES ASSUME HeardInv, CoverInv, Walk PROVE CoverInv'
    OBVIOUS
  <1>0. fl \in AllFlags /\ heard \subseteq Files
    BY DEF HeardInv, TypeInv
  <1>1. PICK g : g = [f \in Files |-> Found(f)]
    OBVIOUS
  <1>2. /\ pc = "walk"
        /\ \/ fl' = g /\ pc' = "forced" /\ todo' = Order
           \/ fl' = Preferred(g) /\ pc' = "release" /\ todo' = GoodReleases(g)
        /\ UNCHANGED <<disk, given, heard, spared, faults>>
    BY <1>1 DEF Walk
  <1>3. ASSUME NEW f \in Files
        PROVE  /\ Found(f) \in Flags /\ ~Found(f).uptodate
               /\ f = DiffIndex => (Found(f).ondisk <=> disk[f] # None)
    <2>0. f = DiffIndex => f \notin given.wanted
      BY NameFacts DEF HeardInv, TypeInv, Case
    <2>1. PICK a \in BOOLEAN : a <=> (disk[f] # None \/ f \in given.wanted)
      OBVIOUS
    <2>2. PICK b \in BOOLEAN : b <=> \/ f = DiffIndex /\ disk[f] # None
                                     \/ f \in given.wanted /\ disk[f] = None
                                     \/ f \in given.ignored
      OBVIOUS
    <2>3. Found(f) = [NoFlags EXCEPT !.ondisk = a, !.forgive = b]
      BY <2>1, <2>2 DEF Found
    <2> QED  BY <2>0, <2>1, <2>3 DEF Flags, NoFlags
  <1>4. /\ g \in AllFlags
        /\ \A f \in Files : /\ ~g[f].uptodate
                            /\ f = DiffIndex => (g[f].ondisk <=> disk[f] # None)
    BY <1>1, <1>3 DEF AllFlags
  <1>5. \A f \in Files : fl'[f].uptodate = g[f].uptodate /\ fl'[f].ondisk = g[f].ondisk
    BY <1>2, <1>4, PreferredFacts
  <1>6. GoodReleases(fl') = GoodReleases(g)
    BY <1>5, NameFacts DEF GoodReleases
  <1>7. WalkInv' /\ InstallInv'
    BY <1>2 DEF WalkInv, InstallInv
  <1>8. ASSUME Smooth'
        PROVE  /\ FreshCurrent(fl', disk') /\ DiffCurrent(fl', disk')
               /\ ReleaseInv(pc', fl', todo') /\ RestInv'
               /\ HeardFresh(fl', heard') /\ spared' = {}
    <2>1. Smooth
      BY <1>2, <1>8 DEF Smooth, NoLeftover
    <2>2. FreshCurrent(fl', disk')
      BY <1>4, <1>5 DEF FreshCurrent
    <2>3. disk = given.disk /\ \A f \in Files : fl[f] = NoFlags
      BY <1>2 DEF CoverInv, WalkInv
    <2>4. DiffCurrent(fl', disk')
      BY <1>2, <1>4, <1>5, <2>1, <2>3, NameFacts DEF DiffCurrent, Smooth, NoLeftover
    <2>5. heard = {}
      <3>1. ~NoFlags.uptodate
        BY DEF NoFlags
      <3>2. HeardFresh(fl, heard)
        BY <2>1 DEF CoverInv
      <3> QED  BY <1>0, <2>3, <3>1, <3>2 DEF HeardFresh
    <2>6. HeardFresh(fl', heard')
      BY <1>2, <2>5 DEF HeardFresh
    <2>7. ReleaseInv(pc', fl', todo')
      BY <1>2, <1>6 DEF ReleaseInv
    <2>8. RestInv'
      <3>1. pc' = "forced" => FreshBut(fl', todo')
        BY <1>2, NameFacts DEF FreshBut
      <3> QED  BY <1>2, <3>1 DEF RestInv
    <2>9. spared' = {}
      BY <1>2, <2>1 DEF CoverInv
    <2> QED  BY <2>2, <2>4, <2>6, <2>7, <2>8, <2>9
  <1> QED  BY <1>7, <1>8 DEF CoverInv

\* What is fresh but for the rest of a list is fresh when the list has no more
\* of those that are not.
LEMMA FreshAtEnd ==
    ASSUME NEW S, ~Ahead(S), FreshBut(fl, todo),
           \A f \in Files : fl[f].ondisk /\ ~fl[f].ignore /\ ~fl[f].uptodate => f \in S
    PROVE  FreshBut(fl, <<>>)
  BY NoneAhead DEF FreshBut

\* Steps that leave the files and the flags alone.
LEMMA QuietCover ==
    HeardInv /\ CoverInv
      /\ (\/ ForcedDone \/ RestoreFails \/ ReleasesDone \/ SnapshotsDone \/ ExtractGroups
          \/ BaseDone \/ SyncLeaves \/ ShareDone \/ PatchWorks \/ PatchDone \/ GroupDone
          \/ RestDone) => CoverInv'
  <1> SUFFICES ASSUME HeardInv, CoverInv,
                      \/ ForcedDone \/ RestoreFails \/ ReleasesDone \/ SnapshotsDone \/ ExtractGroups
                      \/ BaseDone \/ SyncLeaves \/ ShareDone \/ PatchWorks \/ PatchDone \/ GroupDone
                      \/ RestDone
               PROVE  CoverInv'
    OBVIOUS
  <1>0. TypeInv /\ faults \in Nat
    BY DEF HeardInv, TypeInv
  <1>1. /\ UNCHANGED <<disk, given, fl, heard, spared>>
        /\ faults' = faults \/ faults' = faults + 1
        /\ pc' # "walk" /\ (pc' = "install" => fl[DiffIndex].ondisk)
    BY DEF ForcedDone, RestoreFails, ReleasesDone, SnapshotsDone, ExtractGroups,
           BaseDone, SyncLeaves, ShareDone, PatchWorks, PatchDone, GroupDone, RestDone, NeedsPatch
  <1>2. faults' = 0 => faults = 0
    BY <1>0, <1>1
  <1>3. InstallInv'
    BY <1>1 DEF InstallInv
  <1>4. Refreshed(disk, fl, disk', fl')
    BY <1>1, SameRefreshed
  <1>5. ASSUME Smooth, faults' = 0 PROVE ReleaseInv(pc', fl', todo') /\ RestInv'
    <2>0. ReleaseInv(pc, fl, todo) /\ RestInv
      BY <1>5 DEF CoverInv
    <2>1. CASE ForcedDone
      <3>1. FreshBut(fl, todo) /\ ~Ahead(OnDisk) /\ pc' = "read"
        BY <2>0, <2>1 DEF ForcedDone, RestInv
      <3>2. FreshBut(fl', <<>>)
        BY <1>1, <3>1, FreshAtEnd DEF OnDisk
      <3> QED  BY <3>1, <3>2 DEF ReleaseInv, RestInv
    <2>2. CASE RestoreFails
      <3>1. faults' = faults + 1
        BY <2>2 DEF RestoreFails
      <3> QED  BY <1>0, <1>5, <3>1
    <2>3. CASE ReleasesDone \/ SnapshotsDone \/ ExtractGroups \/ BaseDone
      <3>1. GoodFresh(fl)
        <4>1. CASE pc = "release"
          <5>1. todo = <<>>
            BY <2>3, <4>1 DEF ReleasesDone, SnapshotsDone, ExtractGroups, BaseDone
          <5> QED  BY <2>0, <4>1, <5>1 DEF ReleaseInv, GoodFresh
        <4>2. CASE pc # "release"
          BY <2>0, <2>3, <4>2 DEF ReleaseInv, ReleasesDone, SnapshotsDone, ExtractGroups, BaseDone
        <4> QED  BY <4>1, <4>2
      <3>2. pc' \in {"snapshots", "extract", "base", "sync"}
        BY <2>3 DEF ReleasesDone, SnapshotsDone, ExtractGroups, BaseDone
      <3> QED  BY <1>1, <3>1, <3>2 DEF ReleaseInv, RestInv
    <2>4. CASE SyncLeaves
      <3>1. pc' = "read" /\ GivesUp'
        BY <2>4 DEF SyncLeaves, GivesUp
      <3> QED  BY <3>1 DEF ReleaseInv, RestInv
    <2>5. CASE ShareDone \/ PatchWorks \/ PatchDone
      <3>1. pc' \in {"patch", "install", "group"}
        BY <2>5 DEF ShareDone, PatchWorks, PatchDone
      <3> QED  BY <3>1 DEF ReleaseInv, RestInv
    <2>6. CASE GroupDone
      <3>1. pc' = "rest" /\ todo' = Order
        BY <2>6 DEF GroupDone
      <3>2. FreshBut(fl', todo')
        BY <3>1, NameFacts DEF FreshBut
      <3> QED  BY <3>1, <3>2 DEF ReleaseInv, RestInv
    <2>7. CASE RestDone
      <3>1. FreshBut(fl, todo) /\ ~Ahead(Wanted) /\ pc' = "read"
        BY <2>0, <2>7 DEF RestDone, RestInv
      <3>2. FreshBut(fl', <<>>)
        BY <1>1, <3>1, FreshAtEnd DEF Wanted, Considered
      <3> QED  BY <3>1, <3>2 DEF ReleaseInv, RestInv
    <2> QED  BY <2>1, <2>2, <2>3, <2>4, <2>5, <2>6, <2>7
  <1> QED  BY <1>0, <1>1, <1>2, <1>3, <1>4, <1>5, CoverStep

\* A download of f after which f is fresh refreshes the files.
LEMMA DownloadRefreshes ==
    ASSUME TypeInv, NEW f \in Files, NEW hint, NEW plan \in Plans(f, hint),
           Downloaded(f, plan), Smooth, faults' = 0
    PROVE  /\ Refreshed(disk, fl, disk', FlagsAfter(f, plan))
           /\ FlagsAfter(f, plan)[f].uptodate
           /\ Reported(plan) = "OK"
  <1>1. PICK h : h = FlagsAfter(f, plan)
    OBVIOUS
  <1>2. given.offers = Files /\ ~given.skip
    BY DEF Smooth
  <1>3. /\ Fresher(fl, h)
        /\ h[f].uptodate
        /\ (disk'[f] = disk[f] /\ fl[f].uptodate) \/ disk'[f] = Current
        /\ \A x \in Files : x # f => /\ disk'[x] = disk[x]
                                     /\ h[x].uptodate = fl[x].uptodate
        /\ Reported(plan) = "OK"
    BY <1>1, <1>2, DownloadFacts
  <1>4. Refreshed(disk, fl, disk', h)
    BY <1>3, NameFacts DEF Refreshed, Fresher
  <1> QED  BY <1>1, <1>3, <1>4

\* A step of a loop that downloads all that is left of S.
LEMMA LoopCover ==
    ASSUME HeardInv, CoverInv, NEW S, NEW hint, NEW k \in DOMAIN todo,
           NEW plan \in Plans(todo[k], hint), First(k, S),
           \A f \in Files : fl[f].ondisk /\ ~fl[f].ignore /\ ~fl[f].uptodate => f \in S,
           Downloaded(todo[k], plan), fl' = FlagsAfter(todo[k], plan), todo' = Rest(k),
           pc \in {"forced", "rest"}, pc' = pc, given' = given, heard' = heard,
           spared' = spared
    PROVE  CoverInv'
  <1>0. TypeInv
    BY DEF HeardInv
  <1>2. PICK f : f = todo[k]
    OBVIOUS
  <1>3. plan \in Plans(f, hint) /\ Downloaded(f, plan) /\ fl' = FlagsAfter(f, plan)
    BY <1>2
  <1>4. /\ f \in Files
        /\ \A x \in S : InTodo(x, todo) => x = f \/ InTodo(x, todo')
    BY <1>0, <1>2, FirstFacts
  <1>5. (faults' = 0 => faults = 0) /\ Fresher(fl, fl')
    BY <1>0, <1>3, <1>4, DownloadFacts
  <1>7. InstallInv'
    BY DEF InstallInv
  <1>8. ASSUME Smooth, faults' = 0
        PROVE  Refreshed(disk, fl, disk', fl') /\ ReleaseInv(pc', fl', todo') /\ RestInv'
    <2>1. Refreshed(disk, fl, disk', fl') /\ fl'[f].uptodate
      BY <1>0, <1>3, <1>4, <1>8, DownloadRefreshes
    <2>2. FreshBut(fl, todo)
      BY <1>8 DEF CoverInv, RestInv
    <2>4. FreshBut(fl', todo')
      BY <1>4, <1>5, <2>1, <2>2 DEF FreshBut, Fresher
    <2> QED  BY <2>1, <2>4 DEF ReleaseInv, RestInv
  <1> QED  BY <1>0, <1>5, <1>7, <1>8, CoverStep

\* The loops that download all that is left.
LEMMA RestCover == HeardInv /\ CoverInv /\ (Forced \/ RestDownload) => CoverInv'
  <1> SUFFICES ASSUME HeardInv, CoverInv, Forced \/ RestDownload PROVE CoverInv'
    OBVIOUS
  <1>1. pc \in {"forced", "rest"} /\ pc' = pc /\ given' = given /\ heard' = heard
        /\ spared' = spared
    BY DEF Forced, RestDownload
  <1>2. CASE Forced
    <2>1. PICK k \in DOMAIN todo : \E plan \in Plans(todo[k], FALSE) :
            /\ First(k, OnDisk) /\ Downloaded(todo[k], plan)
            /\ fl' = FlagsAfter(todo[k], plan) /\ todo' = Rest(k)
      BY <1>2 DEF Forced
    <2>2. PICK plan \in Plans(todo[k], FALSE) :
            /\ First(k, OnDisk) /\ Downloaded(todo[k], plan)
            /\ fl' = FlagsAfter(todo[k], plan) /\ todo' = Rest(k)
      BY <2>1
    <2>3. \A f \in Files : fl[f].ondisk /\ ~fl[f].ignore /\ ~fl[f].uptodate => f \in OnDisk
      BY DEF OnDisk
    <2> QED  BY <1>1, <2>2, <2>3, LoopCover
  <1>3. CASE RestDownload
    <2>1. PICK k \in DOMAIN todo : \E plan \in Plans(todo[k], TRUE) :
            /\ First(k, Wanted) /\ Downloaded(todo[k], plan)
            /\ fl' = FlagsAfter(todo[k], plan) /\ todo' = Rest(k)
      BY <1>3 DEF RestDownload
    <2>2. PICK plan \in Plans(todo[k], TRUE) :
            /\ First(k, Wanted) /\ Downloaded(todo[k], plan)
            /\ fl' = FlagsAfter(todo[k], plan) /\ todo' = Rest(k)
      BY <2>1
    <2>3. \A f \in Files : fl[f].ondisk /\ ~fl[f].ignore /\ ~fl[f].uptodate => f \in Wanted
      BY DEF Wanted, Considered
    <2> QED  BY <1>1, <2>2, <2>3, LoopCover
  <1> QED  BY <1>2, <1>3

\* The release file is updated first.
LEMMA UpdateReleaseCover == HeardInv /\ CoverInv /\ UpdateRelease => CoverInv'
  <1> SUFFICES ASSUME HeardInv, CoverInv, UpdateRelease PROVE CoverInv'
    OBVIOUS
  <1>0. TypeInv /\ todo \in Seq(Files)
    BY DEF HeardInv, TypeInv
  <1>1. pc = "update" /\ UNCHANGED <<given, heard, spared, stop>>
    BY DEF UpdateRelease
  <1>2. todo # <<>>
    BY <1>1 DEF HeardInv, UpdateTodo
  <1>3. PICK f : f = todo[1] /\ f \in Files
    BY <1>0, <1>2
  <1>4. PICK plan \in Plans(f, TRUE) :
          /\ Downloaded(f, plan)
          /\ fl' = FlagsAfter(f, plan)
          /\ IF Reported(plan) = "FAIL" /\ stop
             THEN pc' = "read" /\ todo' = <<>>
             ELSE pc' = "release" /\ todo' = Tail(todo)
    BY <1>3 DEF UpdateRelease
  <1>5. (faults' = 0 => faults = 0) /\ Fresher(fl, fl')
    BY <1>0, <1>3, <1>4, DownloadFacts
  <1>6. pc' \in {"read", "release"} /\ InstallInv'
    BY <1>4 DEF InstallInv
  <1>7. ASSUME Smooth, faults' = 0
        PROVE  Refreshed(disk, fl, disk', fl') /\ ReleaseInv(pc', fl', todo') /\ RestInv'
    <2>1. Refreshed(disk, fl, disk', fl') /\ fl'[f].uptodate /\ Reported(plan) = "OK"
      BY <1>0, <1>3, <1>4, <1>7, DownloadRefreshes
    <2>2. pc' = "release" /\ todo' = Tail(todo)
      BY <1>4, <2>1
    <2>3. todo = GoodReleases(fl)
      BY <1>1, <1>2, <1>7 DEF CoverInv, ReleaseInv
    <2>4. GoodReleases(fl') = GoodReleases(fl)
      BY <2>1 DEF Refreshed, GoodReleases, Releases
    <2>5. GoodReleases(fl) = <<f>>
      BY <1>2, <1>3, <2>3 DEF GoodReleases
    <2>6. todo' = <<>> /\ GoodFresh(fl')
      BY <2>1, <2>2, <2>3, <2>4, <2>5 DEF GoodFresh
    <2> QED  BY <2>1, <2>2, <2>6 DEF ReleaseInv, RestInv
  <1> QED  BY <1>0, <1>1, <1>5, <1>6, <1>7, CoverStep

\* Only files of the current release are restored.
LEMMA RestoreCover == HeardInv /\ CoverInv /\ (RestoreFiles \/ FixMissingByHashLinks) => CoverInv'
  <1> SUFFICES ASSUME HeardInv, CoverInv, RestoreFiles \/ FixMissingByHashLinks PROVE CoverInv'
    OBVIOUS
  <1>0. TypeInv /\ faults \in Nat
    BY DEF HeardInv, TypeInv
  <1>1. /\ UNCHANGED <<given, heard, spared, todo>>
        /\ faults' = faults \/ faults' = faults + 1
        /\ \/ pc = "release" /\ pc' = "update" /\ todo # <<>>
           \/ pc = "snapshots" /\ pc' \in {"snapshots", "extract"}
    BY DEF RestoreFiles, FixMissingByHashLinks
  <1>2. (\E v : Restored(v)) \/ faults' = faults + 1
    BY DEF RestoreFiles, FixMissingByHashLinks
  <1>3. faults' = 0 => faults = 0 /\ faults' # faults + 1
    BY <1>0, <1>1
  <1>4. InstallInv'
    BY <1>1 DEF InstallInv
  <1>5. ASSUME Smooth, faults' = 0
        PROVE  Refreshed(disk, fl, disk', fl') /\ ReleaseInv(pc', fl', todo') /\ RestInv'
    <2>1. PICK v : Restored(v)
      BY <1>2, <1>3, <1>5
    <2>2. /\ Fresher(fl, fl')
          /\ \A f \in Files : \/ disk'[f] = disk[f] /\ fl'[f].uptodate = fl[f].uptodate
                              \/ f \in Variants /\ disk'[f] \in given.blobs
      BY <1>0, <2>1, RestoredFacts
    <2>3. given.blobs \subseteq {Current}
      BY <1>5 DEF Smooth, NoLeftover
    <2>4. Refreshed(disk, fl, disk', fl')
      BY <2>2, <2>3, NameFacts DEF Refreshed, Fresher
    <2>5. /\ FreshCurrent(fl, disk) /\ DiffCurrent(fl, disk) /\ HeardFresh(fl, heard)
          /\ heard \in SUBSET Files /\ ReleaseInv(pc, fl, todo)
      BY <1>0, <1>5 DEF CoverInv, TypeInv
    <2>6. GoodReleases(fl') = GoodReleases(fl) /\ (GoodFresh(fl) => GoodFresh(fl'))
      BY <2>4, <2>5, RefreshedKeeps
    <2>7. ReleaseInv(pc', fl', todo')
      BY <1>1, <2>5, <2>6 DEF ReleaseInv
    <2> QED  BY <1>1, <2>4, <2>7 DEF RestInv
  <1> QED  BY <1>0, <1>1, <1>3, <1>4, <1>5, CoverStep

\* What the quick check finds fresh is equal to what the release file names.
LEMMA SyncGroupsCover == HeardInv /\ CoverInv /\ SyncGroups => CoverInv'
  <1> SUFFICES ASSUME HeardInv, CoverInv, SyncGroups PROVE CoverInv'
    OBVIOUS
  <1>0. TypeInv
    BY DEF HeardInv
  <1>1. /\ UNCHANGED <<disk, given, heard, spared, faults>>
        /\ pc = "sync" /\ pc' = "share" /\ fl' = QuickChecked(fl)
    BY DEF SyncGroups
  <1>2. /\ Fresher(fl, fl')
        /\ \A f \in Files : fl'[f].uptodate /\ ~fl[f].uptodate =>
             GoodReleases(fl) # <<>> /\ disk[f] = disk[GoodReleases(fl)[1]]
    BY <1>0, <1>1, QuickFacts
  <1>3. ASSUME Smooth PROVE Refreshed(disk, fl, disk', fl')
    <2>1. FreshCurrent(fl, disk) /\ GoodFresh(fl)
      BY <1>1, <1>3 DEF CoverInv, ReleaseInv
    <2>2. GoodReleases(fl) # <<>> => disk[GoodReleases(fl)[1]] = Current
      <3>1. GoodReleases(fl) # <<>> => 1 \in DOMAIN GoodReleases(fl) /\ GoodReleases(fl)[1] \in Files
        BY NameFacts DEF GoodReleases
      <3> QED  BY <2>1, <3>1 DEF GoodFresh, FreshCurrent
    <2> QED  BY <1>1, <1>2, <2>2, NameFacts DEF Refreshed, Fresher
  <1>4. InstallInv' /\ ReleaseInv(pc', fl', todo') /\ RestInv'
    BY <1>1 DEF InstallInv, ReleaseInv, RestInv
  <1> QED  BY <1>0, <1>1, <1>3, <1>4, CoverStep

\* A base for the patches.
LEMMA FetchBaseCover == HeardInv /\ CoverInv /\ FetchBase => CoverInv'
  <1> SUFFICES ASSUME HeardInv, CoverInv, FetchBase PROVE CoverInv'
    OBVIOUS
  <1>0. TypeInv /\ fl \in AllFlags
    BY DEF HeardInv, TypeInv
  <1>1. pc = "base" /\ pc' = "base" /\ UNCHANGED <<given, heard, spared>>
    BY DEF FetchBase
  <1>2. PICK k \in DOMAIN todo : \E plan \in Plans(todo[k], FALSE) :
          /\ First(k, Compressed)
          /\ Downloaded(todo[k], plan)
          /\ fl' = IF Reported(plan) = "OK"
                   THEN [FlagsAfter(todo[k], plan) EXCEPT ![todo[k]].ondisk = TRUE]
                   ELSE fl
    BY DEF FetchBase
  <1>3. PICK f : f = todo[k]
    OBVIOUS
  <1>4. PICK plan \in Plans(f, FALSE) :
          /\ Downloaded(f, plan)
          /\ fl' = IF Reported(plan) = "OK"
                   THEN [FlagsAfter(f, plan) EXCEPT ![f].ondisk = TRUE]
                   ELSE fl
    BY <1>2, <1>3
  <1>5. f \in Files /\ f \in Variants
    BY <1>0, <1>2, <1>3, FirstFacts, NameFacts
  <1>6. PICK h : h = FlagsAfter(f, plan)
    OBVIOUS
  <1>7. (faults' = 0 => faults = 0) /\ h \in AllFlags
    BY <1>0, <1>4, <1>5, <1>6, DownloadFacts
  <1>8. ASSUME Smooth, faults' = 0
        PROVE  Refreshed(disk, fl, disk', fl') /\ ReleaseInv(pc', fl', todo')
    <2>1. Refreshed(disk, fl, disk', h) /\ Reported(plan) = "OK"
      BY <1>0, <1>4, <1>5, <1>6, <1>8, DownloadRefreshes
    <2>2. fl' = [h EXCEPT ![f].ondisk = TRUE]
      BY <1>4, <1>6, <2>1
    <2>3. \A x \in Files : /\ fl'[x].uptodate = h[x].uptodate
                           /\ x # f => fl'[x].ondisk = h[x].ondisk
      BY <1>5, <1>7, <2>2 DEF AllFlags, Flags
    <2>4. Refreshed(disk, fl, disk', fl')
      BY <1>5, <2>1, <2>3, NameFacts DEF Refreshed, Releases
    <2>5. /\ FreshCurrent(fl, disk) /\ DiffCurrent(fl, disk) /\ HeardFresh(fl, heard)
          /\ heard \in SUBSET Files /\ GoodFresh(fl)
      BY <1>0, <1>1, <1>8 DEF CoverInv, ReleaseInv, TypeInv
    <2>6. GoodFresh(fl')
      BY <2>4, <2>5, RefreshedKeeps
    <2> QED  BY <1>1, <2>4, <2>6 DEF ReleaseInv
  <1>9. InstallInv' /\ RestInv'
    BY <1>1 DEF InstallInv, RestInv
  <1> QED  BY <1>0, <1>1, <1>7, <1>8, <1>9, CoverStep

\* Clients fetch what the servers have.
LEMMA OthersCover ==
    HeardInv /\ CoverInv /\ (Cancel \/ \E f \in Files : ClientFetch(f)) => CoverInv'
  <1> SUFFICES ASSUME HeardInv, CoverInv, Cancel \/ \E f \in Files : ClientFetch(f)
               PROVE  CoverInv'
    OBVIOUS
  <1>0. TypeInv /\ disk \in Disks
    BY DEF HeardInv, TypeInv
  <1>1. /\ UNCHANGED <<given, fl, errors, heard, spared, pc, todo, faults>>
        /\ pc # "walk" /\ (stop => stop')
    BY DEF Cancel, ClientFetch
  <1>2. disk' = disk \/ \E f \in Files : disk' = [disk EXCEPT ![f] = Current]
    BY DEF Cancel, ClientFetch
  <1>3. \A x \in Files : disk'[x] = disk[x] \/ disk'[x] = Current
    BY <1>0, <1>2 DEF Disks
  <1>4. Refreshed(disk, fl, disk', fl')
    BY <1>1, <1>3, NameFacts DEF Refreshed
  <1>5. GivesUp => GivesUp'
    BY <1>1 DEF GivesUp
  <1>6. InstallInv'
    BY <1>1 DEF CoverInv, InstallInv
  <1>7. Smooth => ReleaseInv(pc', fl', todo') /\ RestInv'
    BY <1>1, <1>5 DEF CoverInv, RestInv
  <1> QED  BY <1>0, <1>1, <1>4, <1>6, <1>7, CoverStep

\* SyncSiblings copies current files only, and does not touch the others.
LEMMA SyncRefreshes ==
    ASSUME NEW d \in Disks, NEW g \in AllFlags, NEW src \in Variants, muted \in BOOLEAN,
           faults \in Nat, SyncSiblings(d, g, src), d[src] = Current
    PROVE  Refreshed(d, g, disk', fl') /\ (faults' = 0 => faults = 0)
  <1>1. PICK new : new = Copied(d, g, src)
    OBVIOUS
  <1>2. new \subseteq Variants /\ src \in Files /\ \A f \in new : ~g[f].uptodate
    BY <1>1, PathsFacts, NameFacts DEF Copied
  <1>3. /\ faults' = 0 => faults = 0
        /\ \A f \in Files : /\ fl'[f].ondisk = g[f].ondisk
                            /\ g[f].uptodate => fl'[f].uptodate
                            /\ fl'[f].uptodate => g[f].uptodate \/ disk'[f] = d[src]
                            /\ f \notin new => disk'[f] = d[f]
    BY <1>1, <1>2, SyncEffect
  <1> QED  BY <1>2, <1>3, NameFacts DEF Refreshed

\* Two steps in one.
LEMMA RefreshedTwice ==
    ASSUME NEW a, NEW f, NEW b, NEW g, NEW c, NEW h,
           Refreshed(a, f, b, g), Refreshed(b, g, c, h)
    PROVE  Refreshed(a, f, c, h)
  BY NameFacts DEF Refreshed

\* A fresh variant shares what it has.
LEMMA ShareCover == HeardInv /\ CoverInv /\ (ShareKnowledge \/ GroupShare) => CoverInv'
  <1> SUFFICES ASSUME HeardInv, CoverInv, ShareKnowledge \/ GroupShare PROVE CoverInv'
    OBVIOUS
  <1>0. TypeInv /\ disk \in Disks /\ fl \in AllFlags /\ muted \in BOOLEAN /\ faults \in Nat
    BY DEF HeardInv, TypeInv
  <1>1. UNCHANGED <<given, heard, spared>> /\ pc' \in {"share", "group"}
    BY DEF ShareKnowledge, GroupShare
  <1>2. \/ \E src \in Variants : fl[src].uptodate /\ SyncSiblings(disk, fl, src)
        \/ UNCHANGED <<disk, fl, faults>>
    <2>1. CASE ShareKnowledge
      <3>1. PICK k \in DOMAIN todo : First(k, FreshPaths) /\ SyncSiblings(disk, fl, todo[k])
        BY <2>1 DEF ShareKnowledge
      <3>2. todo[k] \in Variants /\ fl[todo[k]].uptodate
        BY <3>1, PathsFacts DEF First, FreshPaths
      <3> QED  BY <3>1, <3>2
    <2>2. CASE GroupShare
      BY <2>2 DEF GroupShare
    <2> QED  BY <2>1, <2>2
  <1>3. ASSUME Smooth PROVE Refreshed(disk, fl, disk', fl')
    <2>1. FreshCurrent(fl, disk)
      BY <1>3 DEF CoverInv
    <2>2. CASE UNCHANGED <<disk, fl, faults>>
      BY <2>2, SameRefreshed
    <2>3. ASSUME NEW src \in Variants, fl[src].uptodate, SyncSiblings(disk, fl, src)
          PROVE  Refreshed(disk, fl, disk', fl')
      <3>1. disk[src] = Current
        BY <2>1, <2>3, NameFacts DEF FreshCurrent
      <3> QED  BY <1>0, <2>3, <3>1, SyncRefreshes
    <2> QED  BY <1>2, <2>2, <2>3
  <1>4. InstallInv' /\ ReleaseInv(pc', fl', todo') /\ RestInv'
    BY <1>1 DEF InstallInv, ReleaseInv, RestInv
  <1>5. faults' = 0 => faults = 0
    <2>1. ASSUME NEW src \in Variants, SyncSiblings(disk, fl, src)
          PROVE  faults' = 0 => faults = 0
      BY <1>0, <2>1, SyncEffect, NameFacts
    <2> QED  BY <1>2, <2>1
  <1> QED  BY <1>0, <1>1, <1>3, <1>4, <1>5, CoverStep

\* A variant that is what the list of diffs leads to is current.
LEMMA PatchFreshCover == HeardInv /\ CoverInv /\ PatchFresh => CoverInv'
  <1> SUFFICES ASSUME HeardInv, CoverInv, PatchFresh PROVE CoverInv'
    OBVIOUS
  <1>0. TypeInv /\ disk \in Disks /\ fl \in AllFlags /\ muted \in BOOLEAN /\ faults \in Nat
    BY DEF HeardInv, TypeInv
  <1>1. /\ UNCHANGED <<given, heard, spared>> /\ pc' = "group" /\ fl[DiffIndex].ondisk
    BY DEF PatchFresh, NeedsPatch
  <1>2. PICK f : /\ f \in Paths(fl) /\ disk[f] = disk[DiffIndex]
                 /\ SyncSiblings(disk, [fl EXCEPT ![f].uptodate = TRUE], f)
    BY DEF PatchFresh
  <1>3. f \in Variants /\ f \in Files
    BY <1>2, PathsFacts, NameFacts
  <1>4. PICK g : g = [fl EXCEPT ![f].uptodate = TRUE]
    OBVIOUS
  <1>5. /\ g \in AllFlags /\ Fresher(fl, g)
        /\ \A x \in Files : x # f => g[x].uptodate = fl[x].uptodate
    BY <1>0, <1>3, <1>4 DEF AllFlags, Flags, Fresher
  <1>6. ASSUME Smooth PROVE Refreshed(disk, fl, disk', fl')
    <2>1. disk[f] = Current
      BY <1>1, <1>2, <1>6 DEF CoverInv, DiffCurrent
    <2>2. Refreshed(disk, fl, disk, g)
      BY <1>5, <2>1, NameFacts DEF Refreshed, Fresher
    <2>3. Refreshed(disk, g, disk', fl')
      BY <1>0, <1>2, <1>3, <1>4, <1>5, <2>1, SyncRefreshes
    <2> QED  BY <2>2, <2>3, RefreshedTwice
  <1>7. InstallInv' /\ ReleaseInv(pc', fl', todo') /\ RestInv'
    BY <1>1 DEF InstallInv, ReleaseInv, RestInv
  <1>8. faults' = 0 => faults = 0
    BY <1>0, <1>2, <1>3, <1>4, <1>5, SyncEffect
  <1> QED  BY <1>0, <1>1, <1>6, <1>7, <1>8, CoverStep

\* So is what was patched.
LEMMA InstallCover == HeardInv /\ CoverInv /\ InstallPatched => CoverInv'
  <1> SUFFICES ASSUME HeardInv, CoverInv, InstallPatched PROVE CoverInv'
    OBVIOUS
  <1>0. TypeInv /\ disk \in Disks /\ fl \in AllFlags /\ muted \in BOOLEAN /\ faults \in Nat
    BY DEF HeardInv, TypeInv
  <1>1. pc = "install" /\ pc' = "install" /\ UNCHANGED <<given, heard, spared>>
    BY DEF InstallPatched
  <1>2. PICK k \in DOMAIN todo :
          /\ First(k, RawPaths)
          /\ SyncSiblings(IF ~fl[todo[k]].uptodate THEN [disk EXCEPT ![todo[k]] = disk[DiffIndex]]
                          ELSE disk,
                          IF ~fl[todo[k]].uptodate
                          THEN [fl EXCEPT ![todo[k]].uptodate = TRUE, ![todo[k]].ondisk = TRUE]
                          ELSE fl, todo[k])
    BY DEF InstallPatched
  <1>3. PICK t : t = todo[k]
    OBVIOUS
  <1>4. t \in Variants /\ t \in Files
    BY <1>2, <1>3, PathsFacts, NameFacts DEF First, RawPaths
  <1>5. PICK d : d = IF ~fl[t].uptodate THEN [disk EXCEPT ![t] = disk[DiffIndex]] ELSE disk
    OBVIOUS
  <1>6. PICK g : g = IF ~fl[t].uptodate
                     THEN [fl EXCEPT ![t].uptodate = TRUE, ![t].ondisk = TRUE] ELSE fl
    OBVIOUS
  <1>7. SyncSiblings(d, g, t)
    BY <1>2, <1>3, <1>5, <1>6
  <1>8. /\ d \in Disks
        /\ ~fl[t].uptodate => d[t] = disk[DiffIndex]
        /\ fl[t].uptodate => d[t] = disk[t]
        /\ \A x \in Files : x # t => d[x] = disk[x]
    BY <1>0, <1>4, <1>5, NameFacts DEF Disks
  <1>9. /\ g \in AllFlags
        /\ \A x \in Files : /\ fl[x].uptodate => g[x].uptodate
                            /\ x # t => g[x].ondisk = fl[x].ondisk /\ g[x].uptodate = fl[x].uptodate
    <2>1. CASE fl[t].uptodate
      BY <1>0, <1>6, <2>1
    <2>2. CASE ~fl[t].uptodate
      <3>1. g = [fl EXCEPT ![t].uptodate = TRUE, ![t].ondisk = TRUE]
        BY <1>6, <2>2
      <3> QED  BY <1>0, <1>4, <2>2, <3>1 DEF AllFlags, Flags
    <2> QED  BY <2>1, <2>2
  <1>10. fl[DiffIndex].ondisk /\ g[DiffIndex].ondisk
    <2>1. fl[DiffIndex].ondisk /\ DiffIndex \in Files /\ DiffIndex # t
      BY <1>1, <1>4, NameFacts DEF CoverInv, InstallInv
    <2> QED  BY <1>9, <2>1
  <1>11. InstallInv'
    <2>1. fl'[DiffIndex].ondisk = g[DiffIndex].ondisk
      BY <1>0, <1>4, <1>7, <1>8, <1>9, SyncEffect, NameFacts
    <2> QED  BY <1>10, <2>1 DEF InstallInv
  <1>12. ASSUME Smooth PROVE Refreshed(disk, fl, disk', fl')
    <2>1. disk[DiffIndex] = Current /\ FreshCurrent(fl, disk)
      BY <1>10, <1>12 DEF CoverInv, DiffCurrent
    <2>2. d[t] = Current
      BY <1>4, <1>8, <2>1 DEF FreshCurrent
    <2>3. Refreshed(disk, fl, d, g)
      BY <1>4, <1>8, <1>9, <2>2, NameFacts DEF Refreshed, Releases
    <2>4. Refreshed(d, g, disk', fl')
      BY <1>0, <1>4, <1>7, <1>8, <1>9, <2>2, SyncRefreshes
    <2> QED  BY <2>3, <2>4, RefreshedTwice
  <1>13. ReleaseInv(pc', fl', todo') /\ RestInv'
    BY <1>1 DEF ReleaseInv, RestInv
  <1>14. faults' = 0 => faults = 0
    BY <1>0, <1>4, <1>7, <1>8, <1>9, SyncEffect
  <1> QED  BY <1>0, <1>1, <1>11, <1>12, <1>13, <1>14, CoverStep

\* A fault is not smooth.
LEMMA InstallFailsCover == HeardInv /\ CoverInv /\ InstallFails => CoverInv'
  <1> SUFFICES ASSUME HeardInv, CoverInv, InstallFails PROVE CoverInv'
    OBVIOUS
  <1>1. /\ pc = "install" /\ pc' = "install" /\ faults \in Nat /\ faults' = faults + 1
        /\ fl' = fl
    BY DEF InstallFails, HeardInv, TypeInv
  <1>2. ~Smooth' /\ WalkInv' /\ InstallInv'
    BY <1>1 DEF Smooth, WalkInv, InstallInv, CoverInv
  <1> QED  BY <1>2 DEF CoverInv

\* A file of the group is downloaded.
LEMMA GroupDownloadCover == HeardInv /\ CoverInv /\ GroupDownload => CoverInv'
  <1> SUFFICES ASSUME HeardInv, CoverInv, GroupDownload PROVE CoverInv'
    OBVIOUS
  <1>0. TypeInv
    BY DEF HeardInv
  <1>1. UNCHANGED <<given, heard>> /\ pc' \in {"group", "shared"}
    BY DEF GroupDownload
  <1>2. PICK k \in DOMAIN todo : \E plan \in Plans(todo[k], FALSE) :
          /\ First(k, Considered)
          /\ Downloaded(todo[k], plan)
          /\ fl' = IF Reported(plan) = "FAIL"
                   THEN [FlagsAfter(todo[k], plan) EXCEPT ![todo[k]].ignore = TRUE]
                   ELSE FlagsAfter(todo[k], plan)
          /\ Reported(plan) # "FAIL" => spared' = spared
    BY DEF GroupDownload
  <1>3. PICK f : f = todo[k]
    OBVIOUS
  <1>4. PICK plan \in Plans(f, FALSE) :
          /\ Downloaded(f, plan)
          /\ fl' = IF Reported(plan) = "FAIL"
                   THEN [FlagsAfter(f, plan) EXCEPT ![f].ignore = TRUE]
                   ELSE FlagsAfter(f, plan)
          /\ Reported(plan) # "FAIL" => spared' = spared
    BY <1>2, <1>3
  <1>5. f \in Files
    BY <1>0, <1>2, <1>3, FirstFacts
  <1>6. faults' = 0 => faults = 0
    BY <1>0, <1>4, <1>5, DownloadFacts
  <1>7. ASSUME Smooth, faults' = 0 PROVE Refreshed(disk, fl, disk', fl') /\ spared' = spared
    <2>1. Refreshed(disk, fl, disk', FlagsAfter(f, plan)) /\ Reported(plan) = "OK"
      BY <1>0, <1>4, <1>5, <1>7, DownloadRefreshes
    <2>2. fl' = FlagsAfter(f, plan) /\ spared' = spared
      BY <1>4, <2>1
    <2> QED  BY <2>1, <2>2
  <1>8. InstallInv' /\ ReleaseInv(pc', fl', todo') /\ RestInv'
    BY <1>1 DEF InstallInv, ReleaseInv, RestInv
  <1> QED  BY <1>0, <1>1, <1>6, <1>7, <1>8, CoverStep

\* What may be read is fresh when the reading starts.
LEMMA StartReadingCover == HeardInv /\ CoverInv /\ StartReading => CoverInv'
  <1> SUFFICES ASSUME HeardInv, CoverInv, StartReading PROVE CoverInv'
    OBVIOUS
  <1>0. TypeInv /\ fl \in AllFlags
    BY DEF HeardInv, TypeInv
  <1>1. /\ pc = "read" /\ fl' = Preferred(fl)
        /\ \/ GivesUp /\ pc' = "end"
           \/ ~GivesUp /\ pc' = "reading"
        /\ UNCHANGED <<disk, given, heard, spared, faults>>
    BY DEF StartReading
  <1>2. /\ fl'[Release].ignore <=> fl[Release].ignore \/ (fl[InRelease].ondisk /\ fl[Release].ondisk)
        /\ \A x \in Files : /\ fl'[x].ondisk = fl[x].ondisk
                            /\ fl'[x].uptodate = fl[x].uptodate
                            /\ x # Release => fl'[x].ignore = fl[x].ignore
    BY <1>0, <1>1, PreferredFacts
  <1>3. Refreshed(disk, fl, disk', fl')
    BY <1>1, <1>2, NameFacts DEF Refreshed
  <1>4. InstallInv' /\ ReleaseInv(pc', fl', todo')
    BY <1>1 DEF InstallInv, ReleaseInv
  <1>5. ASSUME Smooth PROVE RestInv'
    <2>1. GivesUp \/ FreshBut(fl, <<>>)
      BY <1>1, <1>5 DEF CoverInv, RestInv
    <2>2. FreshBut(fl, <<>>) => FreshBut(fl', <<>>)
      BY <1>2 DEF FreshBut
    <2> QED  BY <1>1, <2>1, <2>2 DEF RestInv
  <1> QED  BY <1>0, <1>1, <1>3, <1>4, <1>5, CoverStep

\* What is read is fresh.
LEMMA ReadIndexCover == HeardInv /\ CoverInv /\ ReadIndex => CoverInv'
  <1> SUFFICES ASSUME HeardInv, CoverInv, ReadIndex PROVE CoverInv'
    OBVIOUS
  <1>0. TypeInv /\ faults \in Nat /\ heard \subseteq Files
    BY DEF HeardInv, TypeInv
  <1>1. pc = "reading" /\ pc' = "reading" /\ UNCHANGED <<disk, given>>
    BY DEF ReadIndex
  <1>2. PICK k \in DOMAIN todo :
          /\ First(k, Readable)
          /\ \/ /\ ReadsAll(todo[k])
                /\ fl' = IF given.byPath THEN fl ELSE AlreadyParsed(todo[k])
             \/ ReadsBad(todo[k]) /\ UNCHANGED fl
    BY DEF ReadIndex
  <1>3. PICK f : f = todo[k]
    OBVIOUS
  <1>4. f \in Files /\ f \in Readable
    BY <1>0, <1>2, <1>3, FirstFacts
  <1>5. /\ heard' \subseteq heard \cup {f}
        /\ faults' = faults \/ faults' = faults + 1
        /\ spared' = spared \/ disk[f] = None \/ faults' = faults + 1
    BY <1>2, <1>3 DEF ReadsAll, ReadsBad
  <1>6. \A x \in Files : /\ fl'[x].ondisk = fl[x].ondisk
                         /\ fl'[x].ignore = fl[x].ignore
                         /\ fl'[x].uptodate = fl[x].uptodate
    <2>1. CASE UNCHANGED fl
      BY <2>1
    <2>2. CASE fl' = IF given.byPath THEN fl ELSE AlreadyParsed(f)
      BY <1>0, <1>4, <2>2, ParsedFacts
    <2> QED  BY <1>2, <1>3, <2>1, <2>2
  <1>7. WalkInv' /\ InstallInv'
    BY <1>1 DEF WalkInv, InstallInv
  <1>8. ASSUME Smooth'
        PROVE  /\ FreshCurrent(fl', disk') /\ DiffCurrent(fl', disk')
               /\ ReleaseInv(pc', fl', todo') /\ RestInv'
               /\ HeardFresh(fl', heard') /\ spared' = {}
    <2>1. Smooth
      BY <1>0, <1>1, <1>5, <1>8 DEF Smooth, NoLeftover
    <2>2. /\ FreshCurrent(fl, disk) /\ DiffCurrent(fl, disk) /\ HeardFresh(fl, heard)
          /\ FreshBut(fl, <<>>) /\ spared = {}
      BY <1>1, <2>1 DEF CoverInv, RestInv
    <2>3. FreshCurrent(fl', disk') /\ DiffCurrent(fl', disk')
      BY <1>1, <1>6, <2>2, NameFacts DEF FreshCurrent, DiffCurrent
    <2>4. ReleaseInv(pc', fl', todo') /\ RestInv'
      <3>1. FreshBut(fl', <<>>)
        BY <1>6, <2>2 DEF FreshBut
      <3> QED  BY <1>1, <3>1 DEF ReleaseInv, RestInv
    <2>5. fl[f].uptodate
      <3>1. ~InTodo(f, <<>>)
        BY DEF InTodo
      <3> QED  BY <1>4, <2>2, <3>1 DEF Readable, FreshBut
    <2>6. HeardFresh(fl', heard')
      BY <1>0, <1>4, <1>5, <1>6, <2>2, <2>5 DEF HeardFresh
    <2>7. spared' = {}
      <3>1. disk[f] # None
        BY <1>4, <2>2, <2>5, NameFacts DEF FreshCurrent
      <3>2. faults' # faults + 1
        BY <1>0, <1>8 DEF Smooth
      <3> QED  BY <1>5, <2>2, <3>1, <3>2
    <2> QED  BY <2>3, <2>4, <2>6, <2>7
  <1> QED  BY <1>7, <1>8 DEF CoverInv

\* The end of the reading.
LEMMA ReadingDoneCover == HeardInv /\ CoverInv /\ ReadingDone => CoverInv'
  <1> SUFFICES ASSUME HeardInv, CoverInv, ReadingDone PROVE CoverInv'
    OBVIOUS
  <1>0. TypeInv
    BY DEF HeardInv
  <1>1. /\ pc = "reading" /\ pc' \in {"end", "review"}
        /\ UNCHANGED <<disk, given, fl, heard, spared, faults>>
    BY DEF ReadingDone
  <1>2. Refreshed(disk, fl, disk', fl')
    BY <1>1, SameRefreshed
  <1>3. InstallInv' /\ ReleaseInv(pc', fl', todo')
    BY <1>1 DEF InstallInv, ReleaseInv
  <1>4. Smooth => RestInv'
    BY <1>1 DEF CoverInv, RestInv
  <1> QED  BY <1>0, <1>1, <1>2, <1>3, <1>4, CoverStep

\* The second part of the invariant is inductive with the first.
LEMMA NextCover == HeardInv /\ CoverInv /\ [Next]_vars => CoverInv'
  <1> SUFFICES ASSUME HeardInv, CoverInv, [Next]_vars PROVE CoverInv'
    OBVIOUS
  <1>1. CASE UNCHANGED vars
    <2>1. UNCHANGED <<disk, given, fl, errors, heard, spared, stop, pc, todo, faults>>
      BY <1>1 DEF vars
    <2>2. WalkInv' /\ InstallInv'
      BY <2>1 DEF CoverInv, WalkInv, InstallInv
    <2>3. Smooth' <=> Smooth
      BY <2>1 DEF Smooth, NoLeftover
    <2>4. RestInv' <=> RestInv
      BY <2>1 DEF RestInv, GivesUp
    <2> QED  BY <2>1, <2>2, <2>3, <2>4 DEF CoverInv
  <1>2. CASE Task
    BY <1>2, WalkCover, QuietCover, RestCover, UpdateReleaseCover, RestoreCover,
       SyncGroupsCover, FetchBaseCover, ShareCover, PatchFreshCover, InstallCover,
       InstallFailsCover, GroupDownloadCover, StartReadingCover, ReadIndexCover, ReadingDoneCover DEF Task
  <1>3. CASE Cancel \/ \E f \in Files : ClientFetch(f)
    BY <1>3, OthersCover
  <1> QED  BY <1>1, <1>2, <1>3 DEF Next

\* What was read is current, and a variant was read.
LEMMA CoverSuffices == HeardInv /\ CoverInv => CoverKept
  <1> SUFFICES ASSUME HeardInv, CoverInv, Reviewed, ~muted, Smooth,
                      NEW r \in heard \cap Releases, \E f \in Variants : fl[f].ondisk
               PROVE  \E t \in heard \cap Variants : disk[t] = disk[r]
    BY DEF CoverKept, Smooth
  <1>1. heard \cap Variants # {}
    <2>1. spared = {} /\ GroupHeard
      BY HeardSuffices DEF CoverInv
    <2> QED  BY <2>1 DEF GroupHeard, Unread
  <1>2. PICK t \in heard \cap Variants : TRUE
    BY <1>1
  <1>3. \A f \in heard : f \in Files /\ disk[f] = Current
    BY DEF HeardInv, TypeInv, CoverInv, HeardFresh, FreshCurrent
  <1> QED  BY <1>2, <1>3

\* The index that is read is the one of the release: for any variants, any
\* mixture of versions in the cache and any clients, a run in which nothing
\* fails, and which finds no leftover of an older release, reads a variant of
\* the version of the release file (CoverKept).
THEOREM CoverKeptHolds == Spec => []CoverKept
  <1>1. Spec => []CoverInv
    BY HeardInvHolds, InitCover, NextCover, PTL DEF Spec
  <1> QED  BY <1>1, HeardInvHolds, CoverSuffices, PTL
=============================================================================
