---------------------------- MODULE ItemRegistry ----------------------------
(***************************************************************************)
(* The registry of shared cache items (acregistry.cc).  mapItems is the    *)
(* map from a cache path to the item that new users of the path share;     *)
(* a TFileItemHolder is one user's reference to an item.  Users run in     *)
(* different threads: Create is atomic under the registry mutex, and the   *)
(* destructor of a holder is two steps, because it reads the item's        *)
(* m_owner before it has any lock.                                         *)
(*                                                                         *)
(* Item objects are taken from the pool Items (make_shared) and return to  *)
(* it when nothing references them.  Of what users and downloaders do to   *)
(* an item the registry only sees the status, the start time, the volatile *)
(* flag and the destroy mode change: SetupItem, DlProgress, DlSetError.    *)
(***************************************************************************)
EXTENDS FileItemStates, Sequences, FiniteSets

CONSTANTS
    Paths,         \* normalised cache paths
    Items,         \* item objects that can exist at the same time
    Holders,       \* TFileItemHolder objects that can exist at the same time
    NoItem,        \* a null tFileItemPtr
    NoPath,        \* mapItems.end(), and the path of an item moved aside
    StuckSecs,     \* cfg::stucksecs
    MaxTempDelay,  \* cfg::maxtempdelay
    Times,         \* the values the wall clock shows
    Requests       \* what the users of the registry ask for

ASSUME RegistryAssumption ==
    /\ NoItem \notin Items
    /\ NoPath \notin Paths
    /\ StuckSecs \in Nat /\ MaxTempDelay \in Nat
    \* the clock counts seconds since 1970: it is past any configured delay
    /\ Times \subseteq Nat /\ Times # {} /\ \A t \in Times : t > StuckSecs
    /\ IsFiniteSet(Holders)
    /\ Requests \subseteq ESharingRequests

VARIABLES
    item,        \* the item objects
    mapItems,    \* TFileItemRegistry::mapItems
    holder,      \* the TFileItemHolder objects
    prolongedQ,  \* TFileItemRegistry::prolongedLifetimeQ, holders in order
    now,         \* GetTime()
    in_shutdown, \* evabase::in_shutdown
    corrupted    \* mapItems.erase(end()) was executed: undefined behaviour

vars == <<item, mapItems, holder, prolongedQ, now, in_shutdown, corrupted>>

-----------------------------------------------------------------------------
(* State *)

FreeItem == [live |-> FALSE, path |-> NoPath, volatile |-> FALSE,
             headOnly |-> FALSE, noStore |-> FALSE, status |-> FIST_FRESH,
             usercount |-> 0, started |-> 0, owner |-> FALSE,
             globRef |-> NoPath, destroy |-> KEEP]

ItemType == [live : BOOLEAN, path : Paths \cup {NoPath}, volatile : BOOLEAN,
             headOnly : BOOLEAN, noStore : BOOLEAN, status : FiStatus,
             usercount : Int, started : Nat, owner : BOOLEAN,
             globRef : Paths \cup {NoPath}, destroy : EDestroyMode]

NullHolder == [pc |-> "null", ref |-> NoItem, manger |-> FALSE,
               counted |-> FALSE, timeExpired |-> 0]

HolderType == [pc : {"null", "held", "queued", "released", "dtor"},
               ref : Items \cup {NoItem}, manger : BOOLEAN,
               counted : BOOLEAN, timeExpired : Nat]

\* Holders whose reference keeps the item object alive.
RefsOf(i) == {h \in Holders : holder[h].ref = i}

\* Holders that the item's usercount accounts for.
CountedRefs(i) == {h \in Holders : holder[h].ref = i /\ holder[h].counted}

\* Bug for the mutation check: m_owner is not reset.
UnregisteredKeepsOwner(it) == [it EXCEPT !.globRef = NoPath]

\* What abandon_replace() and Unreg() do to an item that leaves the map.
Unregistered(it) == [it EXCEPT !.owner = FALSE, !.globRef = NoPath]

Init ==
    /\ item = [i \in Items |-> FreeItem]
    /\ mapItems = [p \in Paths |-> NoItem]
    /\ holder = [h \in Holders |-> NullHolder]
    /\ prolongedQ = <<>>
    /\ now \in Times
    /\ in_shutdown = FALSE
    /\ corrupted = FALSE

-----------------------------------------------------------------------------
(* TFileItemRegistry::Create(path, how, attributes)                        *)

\* A new item as regnew() leaves it, with the creator as its only user.
NewItem(p, req) ==
    [live |-> TRUE, path |-> p, volatile |-> req.volatile,
     headOnly |-> req.headOnly, noStore |-> FALSE, status |-> FIST_FRESH,
     usercount |-> 1, started |-> 0, owner |-> TRUE,
     globRef |-> p, destroy |-> KEEP]

HeldBy(h, i, counted) ==
    [holder EXCEPT ![h] = [pc |-> "held", ref |-> i, manger |-> FALSE,
                           counted |-> counted, timeExpired |-> 0]]

\* now > m_nTimeDlStarted + stucksecs: the download got stuck somehow.
IsStuck(it, t) == t > it.started + StuckSecs

\* Which way Create goes when the path has a registered item.
CreateDecision(it, req, t) ==
    CASE req.how = ALWAYS_TRY_SHARING -> "share"
      [] req.how = FORCE_MOVE_OUT_OF_THE_WAY -> "makeWay"
      [] IsStuck(it, t) -> "makeWay"
      [] it.volatile # req.volatile /\ ~it.volatile -> "makeWay"
      [] it.headOnly # req.headOnly -> IF it.headOnly THEN "makeWay" ELSE "nostore"
      [] OTHER -> "share"

\* The path is unknown: regnew().
CreateNew(h, p, req, i) ==
    /\ ~corrupted
    /\ holder[h].pc = "null"
    /\ mapItems[p] = NoItem
    /\ ~item[i].live
    /\ item' = [item EXCEPT ![i] = NewItem(p, req)]
    /\ mapItems' = [mapItems EXCEPT ![p] = i]
    /\ holder' = HeldBy(h, i, TRUE)
    /\ UNCHANGED <<prolongedQ, now, in_shutdown, corrupted>>

\* Bug for the mutation check: share() forgets usercount++.
SharedUncounted(it) == it

\* share(): the existing item has one more user.
Shared(it) == [it EXCEPT !.usercount = @ + 1]

CreateShare(h, p, req) ==
    LET i == mapItems[p] IN
    /\ ~corrupted
    /\ holder[h].pc = "null"
    /\ i # NoItem
    /\ CreateDecision(item[i], req, now) = "share"
    /\ item' = [item EXCEPT ![i] = Shared(@)]
    /\ holder' = HeldBy(h, i, TRUE)
    /\ UNCHANGED <<mapItems, prolongedQ, now, in_shutdown, corrupted>>

\* A HEAD request beside a full item: an extra item that is not registered.
NoStoreItem(p, req) ==
    [live |-> TRUE, path |-> p, volatile |-> req.volatile,
     headOnly |-> req.headOnly, noStore |-> TRUE, status |-> FIST_FRESH,
     usercount |-> 1, started |-> 0, owner |-> FALSE,
     globRef |-> NoPath, destroy |-> KEEP]

CreateNoStore(h, p, req, i) ==
    /\ ~corrupted
    /\ holder[h].pc = "null"
    /\ mapItems[p] # NoItem
    /\ CreateDecision(item[mapItems[p]], req, now) = "nostore"
    /\ ~item[i].live
    /\ item' = [item EXCEPT ![i] = NoStoreItem(p, req)]
    /\ holder' = HeldBy(h, i, TRUE)
    /\ UNCHANGED <<mapItems, prolongedQ, now, in_shutdown, corrupted>>

\* abandon_replace(): the old item leaves the map, its file was moved aside
\* (or was never there), and a new item takes the path.
MovedAside(it) == [it EXCEPT !.path = NoPath, !.destroy = ABANDONED]

CreateMakeWay(h, p, req, i) ==
    LET old == mapItems[p] IN
    /\ ~corrupted
    /\ holder[h].pc = "null"
    /\ old # NoItem
    /\ CreateDecision(item[old], req, now) = "makeWay"
    /\ ~item[i].live
    /\ item' = [item EXCEPT ![old] = MovedAside(Unregistered(@)),
                            ![i] = NewItem(p, req)]
    /\ mapItems' = [mapItems EXCEPT ![p] = i]
    /\ holder' = HeldBy(h, i, TRUE)
    /\ UNCHANGED <<prolongedQ, now, in_shutdown, corrupted>>

\* Create(spCustomFileItem, isShareable): every caller passes FALSE.
CustomItem(p) ==
    [live |-> TRUE, path |-> p, volatile |-> FALSE, headOnly |-> FALSE,
     noStore |-> FALSE, status |-> FIST_FRESH, usercount |-> 1,
     started |-> 0, owner |-> TRUE, globRef |-> p, destroy |-> KEEP]

CreateCustom(h, p, i) ==
    /\ ~corrupted
    /\ holder[h].pc = "null"
    /\ mapItems[p] = NoItem
    /\ ~item[i].live
    /\ item' = [item EXCEPT ![i] = CustomItem(p)]
    /\ mapItems' = [mapItems EXCEPT ![p] = i]
    /\ holder' = HeldBy(h, i, TRUE)
    /\ UNCHANGED <<prolongedQ, now, in_shutdown, corrupted>>

\* "conflict, another agent is already active": the caller keeps its item,
\* unregistered and not counted.
ConflictItem(p) ==
    [live |-> TRUE, path |-> p, volatile |-> FALSE, headOnly |-> FALSE,
     noStore |-> FALSE, status |-> FIST_FRESH, usercount |-> 0,
     started |-> 0, owner |-> FALSE, globRef |-> NoPath, destroy |-> KEEP]

CreateCustomConflict(h, p, i) ==
    /\ ~corrupted
    /\ holder[h].pc = "null"
    /\ mapItems[p] # NoItem
    /\ ~item[i].live
    /\ item' = [item EXCEPT ![i] = ConflictItem(p)]
    /\ holder' = HeldBy(h, i, FALSE)
    /\ UNCHANGED <<mapItems, prolongedQ, now, in_shutdown, corrupted>>

-----------------------------------------------------------------------------
(* TFileItemHolder::~TFileItemHolder                                       *)

\* m_owner.lock(), before any mutex is taken.
SawOwner(ho, owner) == [ho EXCEPT !.pc = "dtor", !.manger = owner]

HolderDtorReadOwner(h) ==
    /\ ~corrupted
    /\ holder[h].pc \in {"held", "released"}
    /\ holder' = [holder EXCEPT ![h] = SawOwner(@, item[@.ref].owner)]
    /\ UNCHANGED <<item, mapItems, prolongedQ, now, in_shutdown, corrupted>>

\* The precedence of ?: makes the sum the condition, not the value.
ExpDate(it) == IF MaxTempDelay + it.started # 0 THEN it.started ELSE now

\* The last user leaves, but the item is kept for the next one.
Prolong(h, it) ==
    /\ holder[h].manger
    /\ ~in_shutdown
    /\ MaxTempDelay # 0
    /\ it.volatile
    /\ it.status = FIST_COMPLETE
    /\ ExpDate(it) > now

\* Bugs for the mutation check: the comparison with 0 is off by one.
LastUserEarly(it) == it.usercount - 1 <= 1
LastUserLate(it) == it.usercount - 1 < 0

\* The count that the destructor decremented is not above 0.
LastUser(it) == it.usercount - 1 <= 0

\* "let's put the item into shutdown state".
ShutdownStatus(status) ==
    IF status < FIST_COMPLETE THEN FIST_DLSTOP ELSE status

\* The item in the state the last user leaves it in.
Retired(it) ==
    [it EXCEPT !.usercount = @ - 1, !.status = ShutdownStatus(@)]

\* The rest of the destructor, under the registry's and the item's mutex:
\* "still in active use".
OneUserLess(it) == [it EXCEPT !.usercount = @ - 1]

HolderDtorStillUsed(h) ==
    LET i == holder[h].ref IN
    /\ ~corrupted
    /\ holder[h].pc = "dtor"
    /\ ~LastUser(item[i])
    /\ item' = [item EXCEPT ![i] = OneUserLess(@)]
    /\ holder' = [holder EXCEPT ![h] = NullHolder]
    /\ UNCHANGED <<mapItems, prolongedQ, now, in_shutdown, corrupted>>

\* AddToProlongedQueue: the count goes down and up again, the queue's entry
\* is the holder from now on.
Queued(ho, expTime) == [ho EXCEPT !.pc = "queued", !.timeExpired = expTime]

HolderDtorProlong(h) ==
    LET i == holder[h].ref IN
    /\ ~corrupted
    /\ holder[h].pc = "dtor"
    /\ LastUser(item[i])
    /\ Prolong(h, item[i])
    /\ holder' = [holder EXCEPT ![h] = Queued(@, ExpDate(item[i]))]
    /\ prolongedQ' = Append(prolongedQ, h)
    /\ UNCHANGED <<item, mapItems, now, in_shutdown, corrupted>>

\* The last user of an item that had an owner when the destructor looked:
\* Unreg.  If the item was displaced since then, this is erase(end()).
HolderDtorUnreg(h) ==
    LET i == holder[h].ref IN
    /\ ~corrupted
    /\ holder[h].pc = "dtor"
    /\ LastUser(item[i])
    /\ ~Prolong(h, item[i])
    /\ holder[h].manger
    /\ item' = [item EXCEPT ![i] = Unregistered(Retired(@))]
    /\ mapItems' = [p \in Paths |->
                      IF p = item[i].globRef THEN NoItem ELSE mapItems[p]]
    /\ corrupted' = (item[i].globRef = NoPath)
    /\ holder' = [holder EXCEPT ![h] = NullHolder]
    /\ UNCHANGED <<prolongedQ, now, in_shutdown>>

\* The last user of an item without an owner.
HolderDtorUnowned(h) ==
    LET i == holder[h].ref IN
    /\ ~corrupted
    /\ holder[h].pc = "dtor"
    /\ LastUser(item[i])
    /\ ~holder[h].manger
    /\ item' = [item EXCEPT ![i] = Retired(@)]
    /\ holder' = [holder EXCEPT ![h] = NullHolder]
    /\ UNCHANGED <<mapItems, prolongedQ, now, in_shutdown, corrupted>>

\* ~fileitem: the last shared_ptr is gone.
DestroyItem(i) ==
    /\ ~corrupted
    /\ item[i].live
    /\ \A p \in Paths : mapItems[p] # i
    /\ RefsOf(i) = {}
    /\ item' = [item EXCEPT ![i] = FreeItem]
    /\ UNCHANGED <<mapItems, holder, prolongedQ, now, in_shutdown, corrupted>>

-----------------------------------------------------------------------------
(* The rest of the registry, and its environment                           *)

\* Bug for the mutation check: the splice stops one entry too early.
SplicedShort(q, cut) == SubSeq(q, cut, Len(q))

\* The queue after releasedQ.splice() took its first entries.
Spliced(q, cut) == SubSeq(q, cut + 1, Len(q))

\* An entry of releasedQ, whose destructor is due.
Released(ho) == [ho EXCEPT !.pc = "released", !.timeExpired = 0]

\* TFileItemRegistry::BackgroundCleanup, run by the cleaner thread: the
\* entries before the first one that is not expired are released.
BackgroundCleanup ==
    LET Expired(k) == holder[prolongedQ[k]].timeExpired <= now IN
    /\ ~corrupted
    /\ \E cut \in 1..Len(prolongedQ) :
         /\ \A k \in 1..cut : Expired(k)
         /\ cut < Len(prolongedQ) => ~Expired(cut + 1)
         /\ holder' = [h \in Holders |->
                         IF \E k \in 1..cut : prolongedQ[k] = h
                         THEN Released(holder[h]) ELSE holder[h]]
         /\ prolongedQ' = Spliced(prolongedQ, cut)
    /\ UNCHANGED <<item, mapItems, now, in_shutdown, corrupted>>

\* fileitem_with_storage::Setup: what is in the cache decides; a solid item
\* that is not complete on disk turns volatile.
AfterSetup(it, s, v) == [it EXCEPT !.status = s, !.volatile = v]

SetupItem(i, s) ==
    /\ ~corrupted
    /\ item[i].live
    /\ ~item[i].noStore
    /\ item[i].status = FIST_FRESH
    /\ \/ s = FIST_INITED
       \/ s = FIST_COMPLETE /\ ~item[i].volatile /\ ~item[i].headOnly
       \/ s = FIST_DLGOTHEAD /\ ~item[i].volatile /\ item[i].headOnly
    /\ \E v \in BOOLEAN :
         /\ item[i].volatile => v
         /\ v # item[i].volatile => s = FIST_INITED
         /\ item' = [item EXCEPT ![i] = AfterSetup(@, s, v)]
    /\ UNCHANGED <<mapItems, holder, prolongedQ, now, in_shutdown, corrupted>>

\* tDlJob::CheckAndSaveHeader stamps the start, DlStarted, SafeOpenOutFile
\* and DlFinish move the status on.  SafeOpenOutFile does not look at the
\* status, so it also revives an item that was stopped or failed.  A job
\* gets a downloader only after Setup, and none for a nostore item.
Progressed(it, s, t) == [it EXCEPT !.status = s, !.started = t]

DlProgress(i, s) ==
    /\ ~corrupted
    /\ item[i].live
    /\ ~item[i].noStore
    /\ item[i].status \notin {FIST_FRESH, FIST_COMPLETE}
    /\ \/ s \in FIST_DLGOTHEAD..FIST_COMPLETE /\ item[i].status < FIST_COMPLETE
       \/ s = FIST_DLRECEIVING
    /\ \E t \in {item[i].started, now} :
         item' = [item EXCEPT ![i] = Progressed(@, s, t)]
    /\ UNCHANGED <<mapItems, holder, prolongedQ, now, in_shutdown, corrupted>>

\* fileitem::DlSetError, from a downloader or from MarkFaulty.
Failed(it, d) == [it EXCEPT !.status = FIST_DLERROR, !.destroy = d]

DlSetError(i, kmode) ==
    /\ ~corrupted
    /\ item[i].live
    /\ item[i].status # FIST_FRESH
    /\ item' = [item EXCEPT ![i] = Failed(@, DlSetErrorDestroy(@.destroy, kmode))]
    /\ UNCHANGED <<mapItems, holder, prolongedQ, now, in_shutdown, corrupted>>

\* The wall clock, which an administrator or NTP may also set back.
ClockStep ==
    /\ ~corrupted
    /\ now' \in Times
    /\ UNCHANGED <<item, mapItems, holder, prolongedQ, in_shutdown, corrupted>>

\* evabase::MainLoop, once the event loop was told to stop.
SignalShutdown ==
    /\ ~corrupted
    /\ ~in_shutdown
    /\ in_shutdown' = TRUE
    /\ UNCHANGED <<item, mapItems, holder, prolongedQ, now, corrupted>>

\* Undefined behaviour happened: nothing is said about the program any more.
Crashed == corrupted /\ UNCHANGED vars

Next ==
    \/ \E h \in Holders, p \in Paths :
         \/ \E req \in Requests :
              \/ CreateShare(h, p, req)
              \/ \E i \in Items : \/ CreateNew(h, p, req, i)
                                  \/ CreateNoStore(h, p, req, i)
                                  \/ CreateMakeWay(h, p, req, i)
         \/ \E i \in Items : CreateCustom(h, p, i) \/ CreateCustomConflict(h, p, i)
    \/ \E h \in Holders :
         \/ HolderDtorReadOwner(h)
         \/ HolderDtorStillUsed(h)
         \/ HolderDtorProlong(h)
         \/ HolderDtorUnreg(h)
         \/ HolderDtorUnowned(h)
    \/ \E i \in Items :
         \/ DestroyItem(i)
         \/ \E s \in FiStatus : SetupItem(i, s) \/ DlProgress(i, s)
         \/ \E kmode \in {KEEP, TRUNCATE, DELETE} : DlSetError(i, kmode)
    \/ BackgroundCleanup
    \/ ClockStep
    \/ SignalShutdown
    \/ Crashed

Spec == Init /\ [][Next]_vars

-----------------------------------------------------------------------------
(* Properties.  All but the type invariant speak of the program before any *)
(* undefined behaviour: once corrupted is set the state means nothing.     *)

\* Every variable holds what the declarations of acregistry.cc and
\* fileitem.h allow it to hold.
TypeOK ==
    /\ item \in [Items -> ItemType]
    /\ mapItems \in [Paths -> Items \cup {NoItem}]
    /\ holder \in [Holders -> HolderType]
    /\ prolongedQ \in Seq(Holders)
    /\ now \in Times
    /\ in_shutdown \in BOOLEAN
    /\ corrupted \in BOOLEAN

\* The map and the back references of the items agree: a mapped item is a
\* live object that knows its place (m_globRef, m_owner), an item that
\* believes to be registered is the one the map has at that place.  Create
\* and Unreg follow these references without any check.
MapConsistent ==
    ~corrupted =>
      /\ \A p \in Paths : mapItems[p] # NoItem =>
           /\ item[mapItems[p]].live
           /\ item[mapItems[p]].globRef = p
           /\ item[mapItems[p]].path = p
      /\ \A i \in Items :
           /\ item[i].owner <=> item[i].globRef # NoPath
           /\ item[i].globRef # NoPath => mapItems[item[i].globRef] = i

\* The user count of an item is the number of holders that were counted,
\* whatever the order of Create, the two halves of the destructor, and the
\* prolongation: it neither runs ahead (the item would never leave the map)
\* nor behind (it would be stopped under a user).
UserCountExact ==
    ~corrupted => \A i \in Items :
        item[i].live /\ RefsOf(i) # {} =>
            item[i].usercount = Cardinality(CountedRefs(i))

\* "FIST_DLSTOP // assumed to not have any users left": no holder refers to
\* a stopped item, so no reader sees its item stopped by another user.
StoppedUnused ==
    ~corrupted => \A i \in Items :
        item[i].status = FIST_DLSTOP => RefsOf(i) = {}

\* A registered item has a user: the map never keeps an item that nobody
\* will ever unregister.
RegisteredHasUser ==
    ~corrupted => \A p \in Paths :
        mapItems[p] # NoItem => CountedRefs(mapItems[p]) # {}

\* An entry of the prolonged queue is one holder, in the queue once, and
\* every holder that waits there is in the queue: BackgroundCleanup loses
\* none and releases none twice.
QueueConsistent ==
    ~corrupted =>
      /\ \A j, k \in DOMAIN prolongedQ :
           prolongedQ[j] = prolongedQ[k] => j = k
      /\ {prolongedQ[k] : k \in DOMAIN prolongedQ}
           = {h \in Holders : holder[h].pc = "queued"}

\* An item that left the map stays out of it for the rest of its life, and
\* it leaves only with its last user or because Create put another item in
\* its place.
LeavesMapForGood ==
    [][\A i \in Items : ~corrupted' /\ item[i].live =>
         /\ ~item[i].owner => ~item'[i].owner
         /\ item[i].owner /\ ~item'[i].owner =>
              \/ CountedRefs(i)' = {} /\ mapItems'[item[i].path] = NoItem
              \/ mapItems'[item[i].path] \notin {i, NoItem}]_vars

-----------------------------------------------------------------------------
(* What comments of the code promise and the code does not keep            *)

\* acregistry.cc: "make sure it's not double-unregistered accidentally!"
NoDoubleUnreg == ~corrupted
=============================================================================
