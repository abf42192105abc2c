------------------------- MODULE ItemRegistryProofs -------------------------
(***************************************************************************)
(* What holds in the registry for any number of paths, items and holders.  *)
(* The inductive invariant adds to the properties of ItemRegistry what     *)
(* relates a holder's own state to its item; see IInv.                     *)
(***************************************************************************)
EXTENDS ItemRegistry, FiniteSetTheorems, TLAPS

-----------------------------------------------------------------------------
(* Types *)

\* The enumerations are ranges of numbers.
LEMMA StatusTypes ==
    /\ FiStatus = 0..7
    /\ EDestroyMode = 0..4
BY DEF FiStatus, EDestroyMode, FIST_FRESH, FIST_DLSTOP, KEEP, DELETE

\* What a request says.
LEMMA RequestTypes ==
    ASSUME NEW req \in Requests
    PROVE  /\ req.volatile \in BOOLEAN
           /\ req.headOnly \in BOOLEAN
BY RegistryAssumption DEF ESharingRequests

\* The items that Create makes are well typed.
LEMMA FreeItemType == FreeItem \in ItemType
BY StatusTypes DEF FreeItem, ItemType, FIST_FRESH, KEEP

\* A new item.
LEMMA NewItemType ==
    ASSUME NEW p \in Paths, NEW req \in Requests
    PROVE  /\ NewItem(p, req) \in ItemType
           /\ NewItem(p, req).live
           /\ NewItem(p, req).path = p
           /\ NewItem(p, req).globRef = p
           /\ NewItem(p, req).owner
           /\ NewItem(p, req).usercount = 1
           /\ NewItem(p, req).status = FIST_FRESH
BY RequestTypes, StatusTypes DEF NewItem, ItemType, FIST_FRESH, KEEP

\* A holder that holds nothing.
LEMMA NullHolderType == NullHolder \in HolderType
BY DEF NullHolder, HolderType

\* A holder gets an item.
LEMMA HeldByType ==
    ASSUME TypeOK, NEW h \in Holders, NEW i \in Items, NEW b \in BOOLEAN
    PROVE  /\ HeldBy(h, i, b) \in [Holders -> HolderType]
           /\ HeldBy(h, i, b)[h].pc = "held"
           /\ HeldBy(h, i, b)[h].ref = i
           /\ HeldBy(h, i, b)[h].counted = b
           /\ ~HeldBy(h, i, b)[h].manger
           /\ \A g \in Holders : g # h => HeldBy(h, i, b)[g] = holder[g]
BY DEF HeldBy, TypeOK, HolderType

\* An item that somebody else has made.
LEMMA CustomItemType ==
    ASSUME NEW p \in Paths
    PROVE  CustomItem(p) \in ItemType /\ ConflictItem(p) \in ItemType
BY StatusTypes DEF CustomItem, ConflictItem, ItemType, FIST_FRESH, KEEP

\* An item outside of the registry.
LEMMA NoStoreItemType ==
    ASSUME NEW p \in Paths, NEW req \in Requests
    PROVE  NoStoreItem(p, req) \in ItemType
BY RequestTypes, StatusTypes DEF NoStoreItem, ItemType, FIST_FRESH, KEEP

\* What each update of an item or a holder returns.
LEMMA UnregisteredType ==
    ASSUME NEW it \in ItemType
    PROVE  /\ Unregistered(it) \in ItemType
           /\ ~Unregistered(it).owner
           /\ Unregistered(it).globRef = NoPath
           /\ Unregistered(it).live = it.live
           /\ Unregistered(it).path = it.path
           /\ Unregistered(it).usercount = it.usercount
           /\ Unregistered(it).status = it.status
BY DEF Unregistered, ItemType

\* An item gets another user.
LEMMA SharedType ==
    ASSUME NEW it \in ItemType
    PROVE  /\ Shared(it) \in ItemType
           /\ Shared(it).usercount = it.usercount + 1
           /\ Shared(it).live = it.live
           /\ Shared(it).path = it.path
           /\ Shared(it).owner = it.owner
           /\ Shared(it).globRef = it.globRef
           /\ Shared(it).status = it.status
BY DEF Shared, ItemType

\* An item loses a user.
LEMMA OneUserLessType ==
    ASSUME NEW it \in ItemType
    PROVE  /\ OneUserLess(it) \in ItemType
           /\ OneUserLess(it).usercount = it.usercount - 1
           /\ OneUserLess(it).live = it.live
           /\ OneUserLess(it).path = it.path
           /\ OneUserLess(it).owner = it.owner
           /\ OneUserLess(it).globRef = it.globRef
           /\ OneUserLess(it).status = it.status
BY DEF OneUserLess, ItemType

\* A displaced item.
LEMMA MovedAsideType ==
    ASSUME NEW it \in ItemType
    PROVE  /\ MovedAside(it) \in ItemType
           /\ MovedAside(it).live = it.live
           /\ MovedAside(it).usercount = it.usercount
           /\ MovedAside(it).owner = it.owner
           /\ MovedAside(it).globRef = it.globRef
           /\ MovedAside(it).status = it.status
<1>1. ABANDONED \in EDestroyMode
  BY StatusTypes DEF ABANDONED
<1> QED BY <1>1 DEF MovedAside, ItemType

\* An item that leaves the map with its last user.
LEMMA RetiredType ==
    ASSUME NEW it \in ItemType
    PROVE  /\ Retired(it) \in ItemType
           /\ Retired(it).live = it.live
           /\ Retired(it).path = it.path
           /\ Retired(it).owner = it.owner
           /\ Retired(it).globRef = it.globRef
<1>1. ShutdownStatus(it.status) \in FiStatus
  BY StatusTypes DEF ShutdownStatus, ItemType, FIST_DLSTOP
<1>2. it.usercount - 1 \in Int
  BY DEF ItemType
<1> DEFINE Put(n, s) == [it EXCEPT !.usercount = n, !.status = s]
<1>3. ASSUME NEW n \in Int, NEW s \in FiStatus
      PROVE  /\ Put(n, s) \in ItemType
             /\ Put(n, s).live = it.live
             /\ Put(n, s).path = it.path
             /\ Put(n, s).owner = it.owner
             /\ Put(n, s).globRef = it.globRef
  BY DEF ItemType
<1>4. Retired(it) = Put(it.usercount - 1, ShutdownStatus(it.status))
  BY Zenon DEF Retired
<1> HIDE DEF Put
<1> QED BY <1>1, <1>2, <1>3, <1>4

\* An item after Setup.
LEMMA AfterSetupType ==
    ASSUME NEW it \in ItemType, NEW s \in FiStatus, NEW v \in BOOLEAN
    PROVE  /\ AfterSetup(it, s, v) \in ItemType
           /\ AfterSetup(it, s, v).live = it.live
           /\ AfterSetup(it, s, v).path = it.path
           /\ AfterSetup(it, s, v).owner = it.owner
           /\ AfterSetup(it, s, v).globRef = it.globRef
           /\ AfterSetup(it, s, v).usercount = it.usercount
           /\ AfterSetup(it, s, v).status = s
BY DEF AfterSetup, ItemType

\* An item whose download goes on.
LEMMA ProgressedType ==
    ASSUME NEW it \in ItemType, NEW s \in FiStatus, NEW t \in Nat
    PROVE  /\ Progressed(it, s, t) \in ItemType
           /\ Progressed(it, s, t).live = it.live
           /\ Progressed(it, s, t).path = it.path
           /\ Progressed(it, s, t).owner = it.owner
           /\ Progressed(it, s, t).globRef = it.globRef
           /\ Progressed(it, s, t).usercount = it.usercount
           /\ Progressed(it, s, t).status = s
BY DEF Progressed, ItemType

\* An item whose download failed.
LEMMA FailedType ==
    ASSUME NEW it \in ItemType, NEW d \in EDestroyMode
    PROVE  /\ Failed(it, d) \in ItemType
           /\ Failed(it, d).live = it.live
           /\ Failed(it, d).path = it.path
           /\ Failed(it, d).owner = it.owner
           /\ Failed(it, d).globRef = it.globRef
           /\ Failed(it, d).usercount = it.usercount
           /\ Failed(it, d).status = FIST_DLERROR
<1>1. FIST_DLERROR \in FiStatus
  BY StatusTypes DEF FIST_DLERROR
<1> QED BY <1>1 DEF Failed, ItemType

\* A holder whose destructor has read m_owner.
LEMMA SawOwnerType ==
    ASSUME NEW ho \in HolderType, NEW b \in BOOLEAN
    PROVE  /\ SawOwner(ho, b) \in HolderType
           /\ SawOwner(ho, b).pc = "dtor"
           /\ SawOwner(ho, b).ref = ho.ref
           /\ SawOwner(ho, b).counted = ho.counted
           /\ SawOwner(ho, b).manger = b
BY DEF SawOwner, HolderType

\* A holder that waits in the prolonged queue.
LEMMA QueuedType ==
    ASSUME NEW ho \in HolderType, NEW t \in Nat
    PROVE  /\ Queued(ho, t) \in HolderType
           /\ Queued(ho, t).pc = "queued"
           /\ Queued(ho, t).ref = ho.ref
           /\ Queued(ho, t).counted = ho.counted
           /\ Queued(ho, t).manger = ho.manger
BY DEF Queued, HolderType

\* A holder that has let go of its item.
LEMMA ReleasedType ==
    ASSUME NEW ho \in HolderType
    PROVE  /\ Released(ho) \in HolderType
           /\ Released(ho).pc = "released"
           /\ Released(ho).ref = ho.ref
           /\ Released(ho).counted = ho.counted
           /\ Released(ho).manger = ho.manger
BY DEF Released, HolderType

-----------------------------------------------------------------------------
(* The inductive invariant *)

\* A holder has an item unless it is null.
HolderRefs ==
    \A h \in Holders : holder[h].ref \in Items <=> holder[h].pc # "null"

\* The queue and its holders.
QueueInv ==
    /\ \A j, k \in 1..Len(prolongedQ) : prolongedQ[j] = prolongedQ[k] => j = k
    /\ \A k \in 1..Len(prolongedQ) : holder[prolongedQ[k]].pc = "queued"
    /\ \A h \in Holders : holder[h].pc = "queued" =>
         \E k \in 1..Len(prolongedQ) : prolongedQ[k] = h

BaseInv == TypeOK /\ HolderRefs /\ QueueInv

\* MapConsistent, without its premise.
MapInv ==
    /\ \A p \in Paths : mapItems[p] # NoItem =>
         /\ item[mapItems[p]].live
         /\ item[mapItems[p]].globRef = p
         /\ item[mapItems[p]].path = p
    /\ \A i \in Items :
         /\ item[i].owner <=> item[i].globRef # NoPath
         /\ item[i].globRef # NoPath => mapItems[item[i].globRef] = i

\* A held item exists; a holder in its destructor has seen the owner that
\* the item still has; a holder that was not counted, the loser of a
\* conflict in CreateCustom, has an item of its own that is not registered.
HolderInv ==
    \A h \in Holders : holder[h].pc # "null" =>
      /\ item[holder[h].ref].live
      /\ holder[h].pc = "dtor" /\ item[holder[h].ref].owner => holder[h].manger
      /\ ~holder[h].counted =>
           /\ ~item[holder[h].ref].owner
           /\ ~holder[h].manger
           /\ \A g \in Holders : holder[g].ref = holder[h].ref => g = h

\* UserCountExact, without its premise.
CountInv ==
    \A i \in Items : RefsOf(i) # {} =>
        item[i].usercount = Cardinality(CountedRefs(i))

StopInv == \A i \in Items : item[i].status = FIST_DLSTOP => RefsOf(i) = {}

UsedInv == \A p \in Paths : mapItems[p] # NoItem => CountedRefs(mapItems[p]) # {}

SafeInv == MapInv /\ HolderInv /\ CountInv /\ StopInv /\ UsedInv

IInv == BaseInv /\ (~corrupted => SafeInv)

\* What is left of the queue behind the entries that go.
LEMMA SplicedFacts ==
    ASSUME NEW S, NEW q \in Seq(S), NEW cut \in 1..Len(q)
    PROVE  /\ Spliced(q, cut) \in Seq(S)
           /\ Len(Spliced(q, cut)) = Len(q) - cut
           /\ \A k \in 1..(Len(q) - cut) : Spliced(q, cut)[k] = q[k + cut]
BY DEF Spliced

\* A new entry at the end of the queue.
LEMMA AppendFacts ==
    ASSUME NEW S, NEW q \in Seq(S), NEW x \in S
    PROVE  /\ Append(q, x) \in Seq(S)
           /\ Len(Append(q, x)) = Len(q) + 1
           /\ \A k \in 1..Len(q) : Append(q, x)[k] = q[k]
           /\ Append(q, x)[Len(q) + 1] = x
OBVIOUS

\* Every step keeps every variable in its type.
LEMMA TypeStep ==
    ASSUME BaseInv, [Next]_vars
    PROVE  TypeOK'
<1> USE DEF BaseInv, TypeOK
<1>1. ASSUME NEW h \in Holders, NEW p \in Paths, NEW req \in Requests,
             NEW i \in Items, CreateNew(h, p, req, i)
      PROVE  TypeOK'
  <2>1. holder' \in [Holders -> HolderType]
    BY <1>1, HeldByType DEF CreateNew
  <2>2. item' \in [Items -> ItemType]
    BY <1>1, NewItemType DEF CreateNew
  <2> QED BY <1>1, <2>1, <2>2 DEF CreateNew
<1>2. ASSUME NEW h \in Holders, NEW p \in Paths, NEW req \in Requests,
             CreateShare(h, p, req)
      PROVE  TypeOK'
  <2> DEFINE i == mapItems[p]
  <2>0. i \in Items
    BY <1>2 DEF CreateShare
  <2>1. holder' \in [Holders -> HolderType]
    BY <1>2, <2>0, HeldByType DEF CreateShare
  <2>2. item' \in [Items -> ItemType]
    BY <1>2, <2>0, SharedType DEF CreateShare
  <2> QED BY <1>2, <2>1, <2>2 DEF CreateShare
<1>3. ASSUME NEW h \in Holders, NEW p \in Paths, NEW req \in Requests,
             NEW i \in Items, CreateNoStore(h, p, req, i)
      PROVE  TypeOK'
  <2>1. holder' \in [Holders -> HolderType]
    BY <1>3, HeldByType DEF CreateNoStore
  <2>2. item' \in [Items -> ItemType]
    BY <1>3, NoStoreItemType DEF CreateNoStore
  <2> QED BY <1>3, <2>1, <2>2 DEF CreateNoStore
<1>4. ASSUME NEW h \in Holders, NEW p \in Paths, NEW req \in Requests,
             NEW i \in Items, CreateMakeWay(h, p, req, i)
      PROVE  TypeOK'
  <2> DEFINE old == mapItems[p]
  <2>0. old \in Items
    BY <1>4 DEF CreateMakeWay
  <2>1. holder' \in [Holders -> HolderType]
    BY <1>4, HeldByType DEF CreateMakeWay
  <2>2. MovedAside(Unregistered(item[old])) \in ItemType
    BY <2>0, UnregisteredType, MovedAsideType
  <2>3. item' \in [Items -> ItemType]
    BY <1>4, <2>0, <2>2, NewItemType DEF CreateMakeWay
  <2> QED BY <1>4, <2>1, <2>3 DEF CreateMakeWay
<1>5. ASSUME NEW h \in Holders, NEW p \in Paths, NEW i \in Items,
             CreateCustom(h, p, i) \/ CreateCustomConflict(h, p, i)
      PROVE  TypeOK'
  <2>1. holder' \in [Holders -> HolderType]
    <3>1. CASE CreateCustom(h, p, i)
      BY <3>1, HeldByType DEF CreateCustom
    <3>2. CASE CreateCustomConflict(h, p, i)
      BY <3>2, HeldByType DEF CreateCustomConflict
    <3> QED BY <1>5, <3>1, <3>2
  <2>2. item' \in [Items -> ItemType]
    BY <1>5, CustomItemType DEF CreateCustom, CreateCustomConflict
  <2> QED BY <1>5, <2>1, <2>2 DEF CreateCustom, CreateCustomConflict
<1>6. ASSUME NEW h \in Holders, HolderDtorReadOwner(h)
      PROVE  TypeOK'
  <2>1. item[holder[h].ref].owner \in BOOLEAN
    BY <1>6 DEF HolderDtorReadOwner, HolderRefs, ItemType
  <2>2. holder' \in [Holders -> HolderType]
    BY <1>6, <2>1, SawOwnerType DEF HolderDtorReadOwner
  <2> QED BY <1>6, <2>2 DEF HolderDtorReadOwner
<1>7. ASSUME NEW h \in Holders, HolderDtorStillUsed(h)
      PROVE  TypeOK'
  <2>1. holder[h].ref \in Items
    BY <1>7 DEF HolderDtorStillUsed, HolderRefs
  <2>2. item' \in [Items -> ItemType]
    BY <1>7, <2>1, OneUserLessType DEF HolderDtorStillUsed
  <2> QED BY <1>7, <2>2, NullHolderType DEF HolderDtorStillUsed
<1>8. ASSUME NEW h \in Holders, HolderDtorProlong(h)
      PROVE  TypeOK'
  <2>1. holder[h].ref \in Items
    BY <1>8 DEF HolderDtorProlong, HolderRefs
  <2>2. ExpDate(item[holder[h].ref]) \in Nat
    BY <2>1, RegistryAssumption DEF ExpDate, ItemType
  <2>3. holder' \in [Holders -> HolderType]
    BY <1>8, <2>2, QueuedType DEF HolderDtorProlong
  <2> QED BY <1>8, <2>3, AppendFacts DEF HolderDtorProlong
<1>9. ASSUME NEW h \in Holders, HolderDtorUnreg(h)
      PROVE  TypeOK'
  <2>1. holder[h].ref \in Items
    BY <1>9 DEF HolderDtorUnreg, HolderRefs
  <2>2. item' \in [Items -> ItemType]
    BY <1>9, <2>1, UnregisteredType, RetiredType DEF HolderDtorUnreg
  <2> QED BY <1>9, <2>2, NullHolderType DEF HolderDtorUnreg
<1>10. ASSUME NEW h \in Holders, HolderDtorUnowned(h)
       PROVE  TypeOK'
  <2>1. holder[h].ref \in Items
    BY <1>10 DEF HolderDtorUnowned, HolderRefs
  <2>2. item' \in [Items -> ItemType]
    BY <1>10, <2>1, RetiredType DEF HolderDtorUnowned
  <2> QED BY <1>10, <2>2, NullHolderType DEF HolderDtorUnowned
<1>11. ASSUME NEW i \in Items, DestroyItem(i)
       PROVE  TypeOK'
  BY <1>11, FreeItemType DEF DestroyItem
<1>12. ASSUME NEW i \in Items, NEW s \in FiStatus, SetupItem(i, s)
       PROVE  TypeOK'
  BY <1>12, AfterSetupType DEF SetupItem
<1>13. ASSUME NEW i \in Items, NEW s \in FiStatus, DlProgress(i, s)
       PROVE  TypeOK'
  <2>1. PICK t \in {item[i].started, now} :
          item' = [item EXCEPT ![i] = Progressed(@, s, t)]
    BY <1>13 DEF DlProgress
  <2>2. t \in Nat
    BY RegistryAssumption DEF ItemType
  <2>3. item' \in [Items -> ItemType]
    BY <2>1, <2>2, ProgressedType
  <2> QED BY <1>13, <2>3 DEF DlProgress
<1>14. ASSUME NEW i \in Items, NEW kmode \in {KEEP, TRUNCATE, DELETE},
              DlSetError(i, kmode)
       PROVE  TypeOK'
  <2>1. DlSetErrorDestroy(item[i].destroy, kmode) \in EDestroyMode
    BY StatusTypes DEF DlSetErrorDestroy, ItemType, KEEP, TRUNCATE, DELETE
  <2>3. item' \in [Items -> ItemType]
    BY <1>14, <2>1, FailedType DEF DlSetError
  <2> QED BY <1>14, <2>3 DEF DlSetError
<1>15. ASSUME BackgroundCleanup
       PROVE  TypeOK'
  <2>1. PICK cut \in 1..Len(prolongedQ) :
          /\ holder' = [h \in Holders |->
                         IF \E k \in 1..cut : prolongedQ[k] = h
                         THEN Released(holder[h]) ELSE holder[h]]
          /\ prolongedQ' = Spliced(prolongedQ, cut)
    BY <1>15 DEF BackgroundCleanup
  <2>2. prolongedQ' \in Seq(Holders)
    BY <2>1, SplicedFacts
  <2>3. holder' \in [Holders -> HolderType]
    BY <2>1, ReleasedType
  <2> QED BY <1>15, <2>2, <2>3 DEF BackgroundCleanup
<1>16. ASSUME ClockStep \/ SignalShutdown \/ UNCHANGED vars
       PROVE  TypeOK'
  BY <1>16 DEF ClockStep, SignalShutdown, vars
<1> QED
  BY <1>1, <1>2, <1>3, <1>4, <1>5, <1>6, <1>7, <1>8, <1>9, <1>10, <1>11,
     <1>12, <1>13, <1>14, <1>15, <1>16 DEF Next, Crashed

\* The queue and the references of the holders in one step.
LEMMA BaseStep ==
    ASSUME BaseInv, [Next]_vars
    PROVE  BaseInv'
<1>0. TypeOK'
  BY TypeStep
<1> USE DEF BaseInv, TypeOK
<1>a. \A g \in Holders : holder[g].pc = "null" =>
        \A k \in 1..Len(prolongedQ) : prolongedQ[k] # g
  BY DEF QueueInv
<1>1. ASSUME NEW h \in Holders, NEW i \in Items, NEW b \in BOOLEAN,
             holder[h].pc = "null", holder' = HeldBy(h, i, b),
             UNCHANGED prolongedQ
      PROVE  HolderRefs' /\ QueueInv'
  <2>1. /\ holder'[h].pc = "held"
        /\ holder'[h].ref = i
        /\ \A g \in Holders : g # h => holder'[g] = holder[g]
    BY <1>1, HeldByType
  <2>2. HolderRefs'
    BY <2>1 DEF HolderRefs
  <2>3. QueueInv'
    BY <1>1, <2>1, <1>a DEF QueueInv
  <2> QED BY <2>2, <2>3
<1>2. ASSUME NEW h \in Holders, holder[h].pc = "dtor",
             holder' = [holder EXCEPT ![h] = NullHolder],
             UNCHANGED prolongedQ
      PROVE  HolderRefs' /\ QueueInv'
  <2>1. /\ holder'[h] = NullHolder
        /\ \A g \in Holders : g # h => holder'[g] = holder[g]
    BY <1>2
  <2>2. HolderRefs'
    BY <2>1, RegistryAssumption DEF HolderRefs, NullHolder
  <2>3. QueueInv'
    BY <1>2, <2>1 DEF QueueInv, NullHolder
  <2> QED BY <2>2, <2>3
<1>3. ASSUME NEW h \in Holders, HolderDtorReadOwner(h)
      PROVE  HolderRefs' /\ QueueInv'
  <2>0. item[holder[h].ref].owner \in BOOLEAN
    BY <1>3 DEF HolderDtorReadOwner, HolderRefs, ItemType
  <2>a. /\ holder'[h] = SawOwner(holder[h], item[holder[h].ref].owner)
        /\ holder[h].pc \in {"held", "released"}
        /\ \A g \in Holders : g # h => holder'[g] = holder[g]
    BY <1>3 DEF HolderDtorReadOwner
  <2>1. holder'[h].pc = "dtor" /\ holder'[h].ref = holder[h].ref
    BY <2>0, <2>a, SawOwnerType
  <2>2. HolderRefs'
    BY <2>1, <2>a DEF HolderRefs
  <2>3. QueueInv'
    BY <1>3, <2>1, <2>a DEF QueueInv, HolderDtorReadOwner
  <2> QED BY <2>2, <2>3
<1>4. ASSUME NEW h \in Holders, HolderDtorProlong(h)
      PROVE  HolderRefs' /\ QueueInv'
  <2>0. ExpDate(item[holder[h].ref]) \in Nat
    BY <1>4, RegistryAssumption
       DEF HolderDtorProlong, HolderRefs, ExpDate, ItemType
  <2>a. /\ holder'[h] = Queued(holder[h], ExpDate(item[holder[h].ref]))
        /\ holder[h].pc = "dtor"
        /\ \A g \in Holders : g # h => holder'[g] = holder[g]
    BY <1>4 DEF HolderDtorProlong
  <2>1. holder'[h].pc = "queued" /\ holder'[h].ref = holder[h].ref
    <3>1. holder[h] \in HolderType
      OBVIOUS
    <3>2. ASSUME NEW t \in Nat
          PROVE  Queued(holder[h], t).pc = "queued" /\ Queued(holder[h], t).ref = holder[h].ref
      BY <3>1, QueuedType
    <3> QED BY <2>0, <2>a, <3>2
  <2>2. HolderRefs'
    BY <2>1, <2>a DEF HolderRefs
  <2>3. /\ Len(prolongedQ') = Len(prolongedQ) + 1
        /\ \A k \in 1..Len(prolongedQ) : prolongedQ'[k] = prolongedQ[k]
        /\ prolongedQ'[Len(prolongedQ) + 1] = h
        /\ Len(prolongedQ) \in Nat
    BY <1>4, AppendFacts DEF HolderDtorProlong
  <2>4. \A k \in 1..Len(prolongedQ) : prolongedQ[k] # h
    BY <2>a DEF QueueInv
  <2>5. \A k \in 1..Len(prolongedQ') :
          \/ k \in 1..Len(prolongedQ) /\ prolongedQ'[k] = prolongedQ[k]
          \/ k = Len(prolongedQ) + 1 /\ prolongedQ'[k] = h
    BY <2>3
  <2>6. \A j, k \in 1..Len(prolongedQ') : prolongedQ'[j] = prolongedQ'[k] => j = k
    BY <2>4, <2>5 DEF QueueInv
  <2>7. \A k \in 1..Len(prolongedQ') : holder'[prolongedQ'[k]].pc = "queued"
    BY <2>1, <2>a, <2>4, <2>5 DEF QueueInv
  <2>8. \A g \in Holders : holder'[g].pc = "queued" =>
          \E k \in 1..Len(prolongedQ') : prolongedQ'[k] = g
    <3> SUFFICES ASSUME NEW g \in Holders, holder'[g].pc = "queued"
                 PROVE  \E k \in 1..Len(prolongedQ') : prolongedQ'[k] = g
      OBVIOUS
    <3>1. CASE g = h
      BY <2>3, <3>1
    <3>2. CASE g # h
      BY <2>3, <2>a, <3>2 DEF QueueInv
    <3> QED BY <3>1, <3>2
  <2> QED BY <2>2, <2>6, <2>7, <2>8 DEF QueueInv
<1>5. ASSUME BackgroundCleanup
      PROVE  HolderRefs' /\ QueueInv'
  <2>1. PICK cut \in 1..Len(prolongedQ) :
          /\ holder' = [h \in Holders |->
                         IF \E k \in 1..cut : prolongedQ[k] = h
                         THEN Released(holder[h]) ELSE holder[h]]
          /\ prolongedQ' = Spliced(prolongedQ, cut)
    BY <1>5 DEF BackgroundCleanup
  <2>2. /\ Len(prolongedQ') = Len(prolongedQ) - cut
        /\ \A k \in 1..(Len(prolongedQ) - cut) :
             prolongedQ'[k] = prolongedQ[k + cut]
        /\ Len(prolongedQ) \in Nat
    <3>1. prolongedQ \in Seq(Holders)
      OBVIOUS
    <3>2. Len(prolongedQ) \in Nat
      OBVIOUS
    <3>3. /\ Len(Spliced(prolongedQ, cut)) = Len(prolongedQ) - cut
          /\ \A k \in 1..(Len(prolongedQ) - cut) :
               Spliced(prolongedQ, cut)[k] = prolongedQ[k + cut]
      BY <3>1, SplicedFacts
    <3> QED BY <2>1, <3>2, <3>3
  <2>3. \A h \in Holders :
          IF \E k \in 1..cut : prolongedQ[k] = h
          THEN holder'[h].pc = "released" /\ holder'[h].ref = holder[h].ref
               /\ holder[h].pc = "queued"
          ELSE holder'[h] = holder[h]
    BY <2>1, ReleasedType DEF QueueInv
  <2>4. HolderRefs'
    BY <2>3 DEF HolderRefs
  <2>a. \A k \in 1..(Len(prolongedQ) - cut) : \A j \in 1..cut :
          /\ j \in 1..Len(prolongedQ)
          /\ k + cut \in 1..Len(prolongedQ)
          /\ j # k + cut
    BY <2>2
  <2>5. \A k \in 1..(Len(prolongedQ) - cut) : \A j \in 1..cut :
          prolongedQ[j] # prolongedQ[k + cut]
    BY <2>a DEF QueueInv
  <2>6. \A k \in 1..(Len(prolongedQ) - cut) :
          holder'[prolongedQ'[k]].pc = "queued"
    <3> SUFFICES ASSUME NEW k \in 1..(Len(prolongedQ) - cut)
                 PROVE  holder'[prolongedQ'[k]].pc = "queued"
      OBVIOUS
    <3>1. k + cut \in 1..Len(prolongedQ) /\ prolongedQ'[k] = prolongedQ[k + cut]
      BY <2>2
    <3>2. prolongedQ[k + cut] \in Holders /\ holder[prolongedQ[k + cut]].pc = "queued"
      BY <3>1 DEF QueueInv
    <3> QED BY <2>3, <2>5, <3>1, <3>2
  <2>7. ASSUME NEW h \in Holders, holder'[h].pc = "queued"
        PROVE  \E k \in 1..(Len(prolongedQ) - cut) : prolongedQ'[k] = h
    <3>1. /\ ~ \E k \in 1..cut : prolongedQ[k] = h
          /\ holder[h].pc = "queued"
      BY <2>3, <2>7
    <3>2. PICK k \in 1..Len(prolongedQ) : prolongedQ[k] = h
      BY <3>1 DEF QueueInv
    <3>3. k - cut \in 1..(Len(prolongedQ) - cut) /\ (k - cut) + cut = k
      BY <2>2, <3>1, <3>2
    <3> QED BY <2>2, <3>2, <3>3
  <2>b. \A j, k \in 1..Len(prolongedQ') : prolongedQ'[j] = prolongedQ'[k] => j = k
    <3> SUFFICES ASSUME NEW j \in 1..Len(prolongedQ'), NEW k \in 1..Len(prolongedQ'),
                        prolongedQ'[j] = prolongedQ'[k]
                 PROVE  j = k
      OBVIOUS
    <3>1. /\ j + cut \in 1..Len(prolongedQ) /\ k + cut \in 1..Len(prolongedQ)
          /\ prolongedQ[j + cut] = prolongedQ[k + cut]
      BY <2>2
    <3>2. j + cut = k + cut
      BY <3>1 DEF QueueInv
    <3> QED BY <2>2, <3>2
  <2>8. QueueInv'
    BY <2>2, <2>6, <2>7, <2>b DEF QueueInv
  <2> QED BY <2>4, <2>8
<1>6. ASSUME UNCHANGED <<holder, prolongedQ>>
      PROVE  HolderRefs' /\ QueueInv'
  BY <1>6 DEF HolderRefs, QueueInv
<1>7. ASSUME NEW h \in Holders, NEW p \in Paths, NEW req \in Requests,
             NEW i \in Items,
             \/ CreateNew(h, p, req, i)
             \/ CreateNoStore(h, p, req, i)
             \/ CreateMakeWay(h, p, req, i)
      PROVE  HolderRefs' /\ QueueInv'
  <2>2. CASE CreateNew(h, p, req, i)
    BY <1>1, <2>2 DEF CreateNew
  <2>3. CASE CreateNoStore(h, p, req, i)
    BY <1>1, <2>3 DEF CreateNoStore
  <2>4. CASE CreateMakeWay(h, p, req, i)
    BY <1>1, <2>4 DEF CreateMakeWay
  <2> QED BY <1>7, <2>2, <2>3, <2>4
<1>11. ASSUME NEW h \in Holders, NEW p \in Paths, NEW req \in Requests,
              CreateShare(h, p, req)
       PROVE  HolderRefs' /\ QueueInv'
  <2>1. mapItems[p] \in Items
    BY <1>11 DEF CreateShare
  <2> QED BY <1>1, <1>11, <2>1 DEF CreateShare
<1>10. ASSUME NEW h \in Holders, NEW p \in Paths, NEW i \in Items,
              CreateCustom(h, p, i) \/ CreateCustomConflict(h, p, i)
       PROVE  HolderRefs' /\ QueueInv'
  <2>1. CASE CreateCustom(h, p, i)
    BY <1>1, <2>1 DEF CreateCustom
  <2>2. CASE CreateCustomConflict(h, p, i)
    BY <1>1, <2>2 DEF CreateCustomConflict
  <2> QED BY <1>10, <2>1, <2>2
<1>8. CASE \E h \in Holders : \/ HolderDtorStillUsed(h)
                              \/ HolderDtorUnreg(h)
                              \/ HolderDtorUnowned(h)
  BY <1>0, <1>2, <1>8
     DEF HolderDtorStillUsed, HolderDtorUnreg, HolderDtorUnowned
<1>9. CASE \/ \E i \in Items :
                \/ DestroyItem(i)
                \/ \E s \in FiStatus : SetupItem(i, s) \/ DlProgress(i, s)
                \/ \E kmode \in {KEEP, TRUNCATE, DELETE} : DlSetError(i, kmode)
           \/ ClockStep \/ SignalShutdown \/ UNCHANGED vars
  BY <1>0, <1>6, <1>9
     DEF DestroyItem, SetupItem, DlProgress, DlSetError, ClockStep,
         SignalShutdown, vars
<1> QED
  BY <1>0, <1>3, <1>4, <1>5, <1>7, <1>8, <1>9, <1>10, <1>11 DEF Next, Crashed

-----------------------------------------------------------------------------
(* Counting holders *)

\* How the sets of holders change when a null holder takes an item,
LEMMA RefsTaken ==
    ASSUME BaseInv, NEW h \in Holders, NEW i \in Items, NEW b \in BOOLEAN,
           holder[h].pc = "null", holder' = HeldBy(h, i, b)
    PROVE  /\ RefsOf(i)' = RefsOf(i) \cup {h}
           /\ CountedRefs(i)' = IF b THEN CountedRefs(i) \cup {h} ELSE CountedRefs(i)
           /\ h \notin CountedRefs(i)
           /\ \A j \in Items : j # i => /\ RefsOf(j)' = RefsOf(j)
                                        /\ CountedRefs(j)' = CountedRefs(j)
<1> USE DEF BaseInv
<1>1. holder[h].ref \notin Items
  BY DEF HolderRefs
<1>2. /\ holder'[h].ref = i
      /\ holder'[h].counted = b
      /\ \A g \in Holders : g # h => holder'[g] = holder[g]
  BY HeldByType
<1> QED BY <1>1, <1>2 DEF RefsOf, CountedRefs

\* when a holder gives its item up,
LEMMA RefsDropped ==
    ASSUME BaseInv, NEW h \in Holders, NEW i \in Items, holder[h].ref = i,
           holder' = [holder EXCEPT ![h] = NullHolder]
    PROVE  /\ RefsOf(i)' = RefsOf(i) \ {h}
           /\ CountedRefs(i)' = CountedRefs(i) \ {h}
           /\ \A j \in Items : j # i =>
                /\ RefsOf(j)' = RefsOf(j)
                /\ CountedRefs(j)' = CountedRefs(j)
<1>1. /\ holder'[h].ref = NoItem
      /\ \A g \in Holders : g # h => holder'[g] = holder[g]
  BY DEF BaseInv, TypeOK, NullHolder
<1> QED BY <1>1, RegistryAssumption DEF RefsOf, CountedRefs

\* and when no reference changes.
LEMMA RefsSame ==
    ASSUME \A g \in Holders : /\ holder'[g].ref = holder[g].ref
                              /\ holder'[g].counted = holder[g].counted
    PROVE  \A j : RefsOf(j)' = RefsOf(j) /\ CountedRefs(j)' = CountedRefs(j)
BY DEF RefsOf, CountedRefs

\* The users of an item can be counted.
LEMMA CountedFinite ==
    \A i : /\ IsFiniteSet(CountedRefs(i))
           /\ Cardinality(CountedRefs(i)) \in Nat
           /\ CountedRefs(i) \subseteq RefsOf(i)
           /\ RefsOf(i) \subseteq Holders
<1> SUFFICES ASSUME NEW i
             PROVE  /\ IsFiniteSet(CountedRefs(i))
                    /\ Cardinality(CountedRefs(i)) \in Nat
                    /\ CountedRefs(i) \subseteq RefsOf(i)
                    /\ RefsOf(i) \subseteq Holders
  OBVIOUS
<1>1. CountedRefs(i) \in SUBSET Holders
  BY DEF CountedRefs
<1>2. IsFiniteSet(CountedRefs(i))
  BY <1>1, RegistryAssumption, FS_Subset
<1> QED BY <1>2, FS_CardinalityType DEF CountedRefs, RefsOf

\* An item that does not exist has no holders and is not in the map.
LEMMA DeadItem ==
    ASSUME BaseInv, SafeInv, NEW i \in Items, ~item[i].live
    PROVE  /\ RefsOf(i) = {}
           /\ CountedRefs(i) = {}
           /\ \A p \in Paths : mapItems[p] # i
<1>1. RefsOf(i) = {}
  BY DEF BaseInv, HolderRefs, SafeInv, HolderInv, RefsOf
<1>2. \A p \in Paths : mapItems[p] # i
  BY RegistryAssumption DEF SafeInv, MapInv
<1> QED BY <1>1, <1>2, CountedFinite

\* The last user of an item is its only holder.
LEMMA LastUserAlone ==
    ASSUME BaseInv, SafeInv, NEW h \in Holders, NEW i \in Items,
           holder[h].ref = i, LastUser(item[i])
    PROVE  /\ RefsOf(i) = {h}
           /\ holder[h].counted => item[i].usercount = 1
<1> USE DEF BaseInv, SafeInv
<1>0. /\ h \in RefsOf(i)
      /\ holder[h].pc # "null"
      /\ item[i].usercount \in Int
  BY DEF RefsOf, HolderRefs, TypeOK, ItemType
<1>1. CASE ~holder[h].counted
  BY <1>0, <1>1 DEF HolderInv, RefsOf
<1>2. CASE holder[h].counted
  <2>1. h \in CountedRefs(i)
    BY <1>2 DEF CountedRefs
  <2>2. Cardinality(CountedRefs(i)) # 0
    BY <2>1, CountedFinite, FS_EmptySet
  <2>3. item[i].usercount = Cardinality(CountedRefs(i))
    BY <1>0 DEF CountInv
  <2>4. Cardinality(CountedRefs(i)) = 1
    BY <1>0, <2>2, <2>3, CountedFinite DEF LastUser
  <2>5. \E x : CountedRefs(i) = {x}
    BY <2>4, CountedFinite, FS_Singleton
  <2>6. CountedRefs(i) = {h}
    BY <2>1, <2>5
  <2>7. \A g \in RefsOf(i) : g \in CountedRefs(i)
    BY <2>1 DEF RefsOf, CountedRefs, HolderInv, HolderRefs
  <2> QED BY <1>0, <2>3, <2>4, <2>6, <2>7
<1> QED BY <1>1, <1>2

-----------------------------------------------------------------------------
(* Every step keeps the safety part of the invariant *)

\* Steps that neither move references nor the back links of an item.
LEMMA QuietStep ==
    ASSUME BaseInv, SafeInv, TypeOK',
           UNCHANGED mapItems,
           \A g \in Holders : /\ holder'[g].ref = holder[g].ref
                              /\ holder'[g].counted = holder[g].counted
                              /\ holder'[g].pc = "null" <=> holder[g].pc = "null"
                              /\ holder'[g].pc = "dtor" =>
                                   \/ /\ holder[g].pc = "dtor"
                                      /\ holder'[g].manger = holder[g].manger
                                   \/ holder'[g].manger = item[holder[g].ref].owner
                              /\ holder'[g].manger =>
                                   holder[g].manger \/ item[holder[g].ref].owner,
           \A j \in Items : /\ item'[j].live = item[j].live
                            /\ item'[j].path = item[j].path
                            /\ item'[j].owner = item[j].owner
                            /\ item'[j].globRef = item[j].globRef
                            /\ item'[j].usercount = item[j].usercount
                            /\ item'[j].status = FIST_DLSTOP =>
                                 item[j].status = FIST_DLSTOP
    PROVE  SafeInv'
<1> USE DEF BaseInv, SafeInv
<1>1. \A j : RefsOf(j)' = RefsOf(j) /\ CountedRefs(j)' = CountedRefs(j)
  BY RefsSame
<1>2. MapInv'
  BY RegistryAssumption DEF MapInv, TypeOK
<1>3. HolderInv'
  BY DEF HolderInv, HolderRefs
<1>4. CountInv'
  BY <1>1 DEF CountInv
<1>5. StopInv'
  BY <1>1 DEF StopInv
<1>6. UsedInv'
  BY <1>1 DEF UsedInv
<1> QED BY <1>2, <1>3, <1>4, <1>5, <1>6

\* A new item with one counted user, registered at p; the item that was
\* there, if any, is not registered any more.
LEMMA RegisterStep ==
    ASSUME BaseInv, SafeInv, TypeOK', NEW h \in Holders, NEW p \in Paths,
           NEW i \in Items, ~item[i].live,
           holder[h].pc = "null", holder' = HeldBy(h, i, TRUE),
           mapItems' = [mapItems EXCEPT ![p] = i],
           /\ item'[i].live
           /\ item'[i].path = p
           /\ item'[i].owner
           /\ item'[i].globRef = p
           /\ item'[i].usercount = 1
           /\ item'[i].status = FIST_FRESH,
           \A j \in Items : j # i /\ j # mapItems[p] => item'[j] = item[j],
           mapItems[p] # NoItem =>
             /\ item'[mapItems[p]].live = item[mapItems[p]].live
             /\ item'[mapItems[p]].usercount = item[mapItems[p]].usercount
             /\ item'[mapItems[p]].status = item[mapItems[p]].status
             /\ ~item'[mapItems[p]].owner
             /\ item'[mapItems[p]].globRef = NoPath
    PROVE  SafeInv'
<1> USE DEF BaseInv, SafeInv
<1>1. /\ RefsOf(i) = {} /\ CountedRefs(i) = {}
      /\ \A q \in Paths : mapItems[q] # i
  BY DeadItem
<1>2. /\ RefsOf(i)' = {h}
      /\ CountedRefs(i)' = {h}
      /\ \A j \in Items : j # i => /\ RefsOf(j)' = RefsOf(j)
                                   /\ CountedRefs(j)' = CountedRefs(j)
  BY <1>1, RefsTaken
<1>3. /\ holder'[h].ref = i
      /\ holder'[h].pc = "held"
      /\ holder'[h].counted = TRUE
      /\ \A g \in Holders : g # h => holder'[g] = holder[g]
  BY DEF HeldBy, TypeOK
<1>4. \A g \in Holders : holder[g].pc # "null" =>
        holder[g].ref \in Items /\ holder[g].ref # i
  BY <1>1 DEF HolderRefs, RefsOf
<1>5. \A j \in Items : j # i =>
        /\ item'[j].live = item[j].live
        /\ item'[j].usercount = item[j].usercount
        /\ item'[j].status = item[j].status
        /\ item'[j].owner => item[j].owner
  <2> SUFFICES ASSUME NEW j \in Items, j # i
               PROVE  /\ item'[j].live = item[j].live
                      /\ item'[j].usercount = item[j].usercount
                      /\ item'[j].status = item[j].status
                      /\ item'[j].owner => item[j].owner
    OBVIOUS
  <2>1. CASE j = mapItems[p]
    BY <2>1, RegistryAssumption
  <2>2. CASE j # mapItems[p]
    BY <2>2
  <2> QED BY <2>1, <2>2
<1>6. MapInv'
  <2>1. \A q \in Paths : mapItems'[q] # NoItem =>
          /\ item'[mapItems'[q]].live
          /\ item'[mapItems'[q]].globRef = q
          /\ item'[mapItems'[q]].path = q
    <3> SUFFICES ASSUME NEW q \in Paths, mapItems'[q] # NoItem
                 PROVE  /\ item'[mapItems'[q]].live
                        /\ item'[mapItems'[q]].globRef = q
                        /\ item'[mapItems'[q]].path = q
      OBVIOUS
    <3>1. CASE q = p
      BY <3>1 DEF TypeOK
    <3>2. CASE q # p
      <4>1. mapItems'[q] = mapItems[q] /\ mapItems[q] \in Items
        BY <3>2 DEF TypeOK
      <4>2. mapItems[q] # i /\ mapItems[q] # mapItems[p]
        BY <1>1, <3>2, <4>1 DEF MapInv
      <4> QED BY <4>1, <4>2 DEF MapInv
    <3> QED BY <3>1, <3>2
  <2>2. ASSUME NEW j \in Items
        PROVE  /\ item'[j].owner <=> item'[j].globRef # NoPath
               /\ item'[j].globRef # NoPath => mapItems'[item'[j].globRef] = j
    <3>1. CASE j = i
      BY <3>1, RegistryAssumption DEF TypeOK
    <3>2. CASE j # i /\ j = mapItems[p]
      BY <3>2, RegistryAssumption
    <3>3. CASE j # i /\ j # mapItems[p]
      <4>1. item'[j] = item[j] /\ item[j].globRef \in Paths \cup {NoPath}
        BY <3>3 DEF TypeOK, ItemType
      <4>2. item[j].globRef # p
        BY <3>3, RegistryAssumption DEF MapInv
      <4> QED BY <4>1, <4>2 DEF MapInv, TypeOK
    <3> QED BY <3>1, <3>2, <3>3
  <2> QED BY <2>1, <2>2 DEF MapInv
<1>7. HolderInv'
  <2> SUFFICES ASSUME NEW g \in Holders, holder'[g].pc # "null"
               PROVE  /\ item'[holder'[g].ref].live
                      /\ holder'[g].pc = "dtor" /\ item'[holder'[g].ref].owner
                           => holder'[g].manger
                      /\ ~holder'[g].counted =>
                           /\ ~item'[holder'[g].ref].owner
                           /\ ~holder'[g].manger
                           /\ \A g2 \in Holders :
                                holder'[g2].ref = holder'[g].ref => g2 = g
    BY DEF HolderInv
  <2>1. CASE g = h
    BY <1>3, <2>1
  <2>2. CASE g # h
    <3>1. /\ holder'[g] = holder[g]
          /\ holder[g].pc # "null"
          /\ holder[g].ref \in Items /\ holder[g].ref # i
      BY <1>3, <1>4, <2>2
    <3>2. item'[holder[g].ref].live
      BY <1>5, <3>1 DEF HolderInv
    <3>3. holder[g].pc = "dtor" /\ item'[holder[g].ref].owner => holder[g].manger
      BY <1>5, <3>1 DEF HolderInv
    <3>4. ~holder[g].counted => ~item'[holder[g].ref].owner /\ ~holder[g].manger
      BY <1>5, <3>1 DEF HolderInv
    <3>5. ~holder[g].counted =>
            \A g2 \in Holders : holder'[g2].ref = holder[g].ref => g2 = g
      BY <1>3, <3>1 DEF HolderInv
    <3> QED BY <3>1, <3>2, <3>3, <3>4, <3>5
  <2> QED BY <2>1, <2>2
<1>8. CountInv'
  <2>1. Cardinality({h}) = 1
    BY FS_Singleton
  <2> QED BY <1>2, <1>5, <2>1 DEF CountInv
<1>9. StopInv'
  BY <1>2, <1>5 DEF StopInv, FIST_FRESH, FIST_DLSTOP
<1>10. UsedInv'
  BY <1>1, <1>2 DEF UsedInv, TypeOK
<1> QED BY <1>6, <1>7, <1>8, <1>9, <1>10

\* A new item that is not registered, with one user that may be uncounted.
LEMMA PrivateStep ==
    ASSUME BaseInv, SafeInv, TypeOK', NEW h \in Holders,
           NEW i \in Items, ~item[i].live, NEW b \in BOOLEAN,
           holder[h].pc = "null", holder' = HeldBy(h, i, b),
           UNCHANGED mapItems,
           /\ item'[i].live
           /\ ~item'[i].owner
           /\ item'[i].globRef = NoPath
           /\ item'[i].usercount = IF b THEN 1 ELSE 0
           /\ item'[i].status = FIST_FRESH,
           \A j \in Items : j # i => item'[j] = item[j]
    PROVE  SafeInv'
<1> USE DEF BaseInv, SafeInv
<1>1. /\ RefsOf(i) = {} /\ CountedRefs(i) = {}
      /\ \A q \in Paths : mapItems[q] # i
  BY DeadItem
<1>2. /\ RefsOf(i)' = {h}
      /\ CountedRefs(i)' = IF b THEN {h} ELSE {}
      /\ \A j \in Items : j # i => /\ RefsOf(j)' = RefsOf(j)
                                   /\ CountedRefs(j)' = CountedRefs(j)
  BY <1>1, RefsTaken
<1>3. /\ holder'[h].ref = i
      /\ holder'[h].pc = "held"
      /\ holder'[h].manger = FALSE
      /\ \A g \in Holders : g # h => holder'[g] = holder[g]
  BY DEF HeldBy, TypeOK
<1>4. \A g \in Holders : holder[g].ref # i
  BY <1>1 DEF RefsOf
<1>5. MapInv'
  <2>1. \A q \in Paths : mapItems[q] # NoItem =>
          mapItems[q] \in Items /\ item'[mapItems[q]] = item[mapItems[q]]
    BY <1>1 DEF TypeOK
  <2> QED BY <2>1 DEF MapInv
<1>6. HolderInv'
  <2> SUFFICES ASSUME NEW g \in Holders, holder'[g].pc # "null"
               PROVE  /\ item'[holder'[g].ref].live
                      /\ holder'[g].pc = "dtor" /\ item'[holder'[g].ref].owner
                           => holder'[g].manger
                      /\ ~holder'[g].counted =>
                           /\ ~item'[holder'[g].ref].owner
                           /\ ~holder'[g].manger
                           /\ \A g2 \in Holders :
                                holder'[g2].ref = holder'[g].ref => g2 = g
    BY DEF HolderInv
  <2>1. CASE g = h
    <3>1. \A g2 \in Holders : holder'[g2].ref = i => g2 = h
      BY <1>3, <1>4
    <3> QED BY <1>3, <2>1, <3>1
  <2>2. CASE g # h
    <3>1. /\ holder'[g] = holder[g]
          /\ holder[g].pc # "null"
          /\ holder[g].ref \in Items
          /\ holder[g].ref # i
          /\ item'[holder[g].ref] = item[holder[g].ref]
      BY <1>3, <1>4, <2>2 DEF HolderRefs
    <3>2. ~holder[g].counted =>
            \A g2 \in Holders : holder'[g2].ref = holder[g].ref => g2 = g
      BY <1>3, <3>1 DEF HolderInv
    <3> QED BY <3>1, <3>2 DEF HolderInv
  <2> QED BY <2>1, <2>2
<1>7. CountInv'
  <2>1. Cardinality({h}) = 1 /\ Cardinality({}) = 0
    BY FS_Singleton, FS_EmptySet
  <2>2. item'[i].usercount = Cardinality(CountedRefs(i)')
    BY <1>2, <2>1
  <2> QED BY <1>2, <2>2 DEF CountInv
<1>8. StopInv'
  BY <1>2 DEF StopInv, FIST_FRESH, FIST_DLSTOP
<1>9. UsedInv'
  BY <1>1, <1>2 DEF UsedInv, TypeOK
<1> QED BY <1>5, <1>6, <1>7, <1>8, <1>9

\* One more counted user of a registered item.
LEMMA ShareStep ==
    ASSUME BaseInv, SafeInv, TypeOK', NEW h \in Holders, NEW p \in Paths,
           NEW req \in Requests, CreateShare(h, p, req)
    PROVE  SafeInv'
<1> USE DEF BaseInv, SafeInv
<1>1. PICK i \in Items : i = mapItems[p]
  BY DEF CreateShare, TypeOK
<1>2. /\ holder[h].pc = "null"
      /\ holder' = HeldBy(h, i, TRUE)
      /\ UNCHANGED mapItems
      /\ item'[i] = Shared(item[i])
      /\ \A j \in Items : j # i => item'[j] = item[j]
  BY <1>1 DEF CreateShare, TypeOK
<1>3. /\ item'[i].usercount = item[i].usercount + 1
      /\ item'[i].live = item[i].live
      /\ item'[i].path = item[i].path
      /\ item'[i].owner = item[i].owner
      /\ item'[i].globRef = item[i].globRef
      /\ item'[i].status = item[i].status
  BY <1>2, SharedType DEF TypeOK
<1>4. /\ RefsOf(i)' = RefsOf(i) \cup {h}
      /\ CountedRefs(i)' = CountedRefs(i) \cup {h}
      /\ h \notin CountedRefs(i)
      /\ \A j \in Items : j # i => /\ RefsOf(j)' = RefsOf(j)
                                   /\ CountedRefs(j)' = CountedRefs(j)
  BY <1>2, RefsTaken
<1>5. /\ holder'[h].ref = i
      /\ holder'[h].pc = "held"
      /\ holder'[h].counted = TRUE
      /\ \A g \in Holders : g # h => holder'[g] = holder[g]
  BY <1>2 DEF HeldBy, TypeOK
<1>6. /\ CountedRefs(i) # {}
      /\ item[i].owner
      /\ item[i].live
      /\ RefsOf(i) # {}
  BY <1>1, RegistryAssumption, CountedFinite DEF UsedInv, MapInv, TypeOK
<1>7. MapInv'
  <2>1. \A j \in Items : /\ item'[j].live = item[j].live
                         /\ item'[j].path = item[j].path
                         /\ item'[j].owner = item[j].owner
                         /\ item'[j].globRef = item[j].globRef
    BY <1>2, <1>3
  <2> QED BY <1>2, <2>1 DEF MapInv, TypeOK
<1>8. HolderInv'
  <2> SUFFICES ASSUME NEW g \in Holders, holder'[g].pc # "null"
               PROVE  /\ item'[holder'[g].ref].live
                      /\ holder'[g].pc = "dtor" /\ item'[holder'[g].ref].owner
                           => holder'[g].manger
                      /\ ~holder'[g].counted =>
                           /\ ~item'[holder'[g].ref].owner
                           /\ ~holder'[g].manger
                           /\ \A g2 \in Holders :
                                holder'[g2].ref = holder'[g].ref => g2 = g
    BY DEF HolderInv
  <2>1. CASE g = h
    BY <1>3, <1>5, <1>6, <2>1
  <2>2. CASE g # h
    <3>1. /\ holder'[g] = holder[g]
          /\ holder[g].pc # "null"
          /\ holder[g].ref \in Items
          /\ item'[holder[g].ref].live = item[holder[g].ref].live
          /\ item'[holder[g].ref].owner = item[holder[g].ref].owner
      BY <1>2, <1>3, <1>5, <2>2 DEF HolderRefs
    <3>2. ~holder[g].counted => holder[g].ref # i
      BY <1>6, <3>1 DEF HolderInv
    <3>3. ~holder[g].counted =>
            \A g2 \in Holders : holder'[g2].ref = holder[g].ref => g2 = g
      BY <1>5, <3>1, <3>2 DEF HolderInv
    <3> QED BY <3>1, <3>3 DEF HolderInv
  <2> QED BY <2>1, <2>2
<1>9. CountInv'
  <2>1. item'[i].usercount = Cardinality(CountedRefs(i)')
    <3>1. Cardinality(CountedRefs(i) \cup {h}) = Cardinality(CountedRefs(i)) + 1
      BY <1>4, CountedFinite, FS_AddElement
    <3>2. item[i].usercount = Cardinality(CountedRefs(i))
      BY <1>6 DEF CountInv
    <3> QED BY <1>3, <1>4, <3>1, <3>2
  <2> QED BY <1>2, <1>4, <2>1 DEF CountInv
<1>10. StopInv'
  BY <1>2, <1>3, <1>4, <1>6 DEF StopInv
<1>11. UsedInv'
  BY <1>2, <1>4 DEF UsedInv, TypeOK
<1> QED BY <1>7, <1>8, <1>9, <1>10, <1>11

\* A user leaves and another one remains.
LEMMA StillUsedStep ==
    ASSUME BaseInv, SafeInv, TypeOK', NEW h \in Holders, HolderDtorStillUsed(h)
    PROVE  SafeInv'
<1> USE DEF BaseInv, SafeInv
<1>1. PICK i \in Items : i = holder[h].ref
  BY DEF HolderDtorStillUsed, HolderRefs
<1>2. /\ ~LastUser(item[i])
      /\ holder[h].pc # "null"
      /\ holder' = [holder EXCEPT ![h] = NullHolder]
      /\ UNCHANGED mapItems
      /\ item'[i] = OneUserLess(item[i])
      /\ \A j \in Items : j # i => item'[j] = item[j]
  BY <1>1 DEF HolderDtorStillUsed, TypeOK
<1>3. /\ item'[i].usercount = item[i].usercount - 1
      /\ item'[i].live = item[i].live
      /\ item'[i].path = item[i].path
      /\ item'[i].owner = item[i].owner
      /\ item'[i].globRef = item[i].globRef
      /\ item'[i].status = item[i].status
      /\ item[i].usercount \in Int
  BY <1>2, OneUserLessType DEF TypeOK, ItemType
<1>4. /\ RefsOf(i)' = RefsOf(i) \ {h}
      /\ CountedRefs(i)' = CountedRefs(i) \ {h}
      /\ \A j \in Items : j # i => /\ RefsOf(j)' = RefsOf(j)
                                   /\ CountedRefs(j)' = CountedRefs(j)
  BY <1>1, <1>2, RefsDropped
<1>5. /\ holder'[h].pc = "null"
      /\ holder'[h].ref = NoItem
      /\ \A g \in Holders : g # h => holder'[g] = holder[g]
  BY <1>2 DEF NullHolder, TypeOK
<1>6. h \in RefsOf(i) /\ item[i].usercount = Cardinality(CountedRefs(i))
  BY <1>1 DEF RefsOf, CountInv
<1>7. h \in CountedRefs(i)
  <2> SUFFICES ASSUME ~holder[h].counted
               PROVE  FALSE
    BY <1>1 DEF CountedRefs
  <2>1. CountedRefs(i) = {}
    BY <1>1, <1>2 DEF CountedRefs, HolderInv
  <2> QED BY <1>2, <1>6, <2>1, FS_EmptySet DEF LastUser
<1>8. item'[i].usercount = Cardinality(CountedRefs(i)') /\ CountedRefs(i)' # {}
  <2>1. Cardinality(CountedRefs(i) \ {h}) = Cardinality(CountedRefs(i)) - 1
    BY <1>7, CountedFinite, FS_RemoveElement
  <2>2. Cardinality(CountedRefs(i)') # 0
    BY <1>2, <1>3, <1>4, <1>6, <2>1 DEF LastUser
  <2> QED BY <1>3, <1>4, <1>6, <2>1, <2>2, FS_EmptySet
<1>9. MapInv'
  <2>1. \A j \in Items : /\ item'[j].live = item[j].live
                         /\ item'[j].path = item[j].path
                         /\ item'[j].owner = item[j].owner
                         /\ item'[j].globRef = item[j].globRef
    BY <1>2, <1>3
  <2>2. \A q \in Paths : mapItems'[q] = mapItems[q] /\ mapItems[q] \in Items \cup {NoItem}
    BY <1>2 DEF TypeOK
  <2> QED BY <2>1, <2>2, <1>2 DEF MapInv
<1>10. HolderInv'
  <2> SUFFICES ASSUME NEW g \in Holders, holder'[g].pc # "null"
               PROVE  /\ item'[holder'[g].ref].live
                      /\ holder'[g].pc = "dtor" /\ item'[holder'[g].ref].owner
                           => holder'[g].manger
                      /\ ~holder'[g].counted =>
                           /\ ~item'[holder'[g].ref].owner
                           /\ ~holder'[g].manger
                           /\ \A g2 \in Holders :
                                holder'[g2].ref = holder'[g].ref => g2 = g
    BY DEF HolderInv
  <2>1. /\ holder'[g] = holder[g]
        /\ holder[g].pc # "null"
        /\ holder[g].ref \in Items
        /\ item'[holder[g].ref].live = item[holder[g].ref].live
        /\ item'[holder[g].ref].owner = item[holder[g].ref].owner
    BY <1>2, <1>3, <1>5 DEF HolderRefs
  <2>2. ~holder[g].counted =>
          \A g2 \in Holders : holder'[g2].ref = holder[g].ref => g2 = g
    BY <1>5, <2>1, RegistryAssumption DEF HolderInv
  <2> QED BY <2>1, <2>2 DEF HolderInv
<1>11. CountInv'
  BY <1>2, <1>4, <1>8 DEF CountInv
<1>12. StopInv'
  BY <1>2, <1>3, <1>4 DEF StopInv
<1>13. UsedInv'
  BY <1>2, <1>4, <1>8 DEF UsedInv, TypeOK
<1> QED BY <1>9, <1>10, <1>11, <1>12, <1>13

\* The last user leaves an item that is not in the map any more (m is then
\* empty), or takes it out of the map.
LEMMA LastUserStep ==
    ASSUME BaseInv, SafeInv, TypeOK', NEW h \in Holders, NEW i \in Items,
           i = holder[h].ref, LastUser(item[i]), holder[h].pc = "dtor",
           holder' = [holder EXCEPT ![h] = NullHolder],
           mapItems' = [p \in Paths |->
                          IF p = item[i].globRef THEN NoItem ELSE mapItems[p]],
           /\ item'[i].live = item[i].live
           /\ ~item'[i].owner
           /\ item'[i].globRef = NoPath,
           \A j \in Items : j # i => item'[j] = item[j]
    PROVE  SafeInv'
<1> USE DEF BaseInv, SafeInv
<1>1. RefsOf(i) = {h}
  BY LastUserAlone
<1>2. /\ RefsOf(i)' = {}
      /\ \A j \in Items : j # i => /\ RefsOf(j)' = RefsOf(j)
                                   /\ CountedRefs(j)' = CountedRefs(j)
  BY <1>1, RefsDropped
<1>3. /\ holder'[h].pc = "null"
      /\ holder'[h].ref = NoItem
      /\ \A g \in Holders : g # h => holder'[g] = holder[g]
  BY DEF NullHolder, TypeOK
<1>4. \A p \in Paths : mapItems'[p] # NoItem =>
        /\ mapItems'[p] = mapItems[p]
        /\ mapItems[p] \in Items
        /\ mapItems[p] # i
  BY DEF MapInv, TypeOK
<1>5. MapInv'
  <2>1. \A p \in Paths : mapItems'[p] # NoItem =>
          /\ item'[mapItems'[p]].live
          /\ item'[mapItems'[p]].globRef = p
          /\ item'[mapItems'[p]].path = p
    BY <1>4 DEF MapInv
  <2>2. ASSUME NEW j \in Items
        PROVE  /\ item'[j].owner <=> item'[j].globRef # NoPath
               /\ item'[j].globRef # NoPath => mapItems'[item'[j].globRef] = j
    <3>1. CASE j = i
      BY <3>1
    <3>2. CASE j # i
      <4>1. item'[j] = item[j] /\ item[j].globRef \in Paths \cup {NoPath}
        BY <3>2 DEF TypeOK, ItemType
      <4>2. item[j].globRef # NoPath => item[j].globRef # item[i].globRef
        BY <3>2 DEF MapInv
      <4> QED BY <4>1, <4>2 DEF MapInv
    <3> QED BY <3>1, <3>2
  <2> QED BY <2>1, <2>2 DEF MapInv
<1>6. HolderInv'
  <2> SUFFICES ASSUME NEW g \in Holders, holder'[g].pc # "null"
               PROVE  /\ item'[holder'[g].ref].live
                      /\ holder'[g].pc = "dtor" /\ item'[holder'[g].ref].owner
                           => holder'[g].manger
                      /\ ~holder'[g].counted =>
                           /\ ~item'[holder'[g].ref].owner
                           /\ ~holder'[g].manger
                           /\ \A g2 \in Holders :
                                holder'[g2].ref = holder'[g].ref => g2 = g
    BY DEF HolderInv
  <2>1. /\ holder'[g] = holder[g]
        /\ holder[g].pc # "null"
        /\ holder[g].ref \in Items
        /\ holder[g].ref # i
    BY <1>1, <1>3 DEF HolderRefs, RefsOf
  <2>2. ~holder[g].counted =>
          \A g2 \in Holders : holder'[g2].ref = holder[g].ref => g2 = g
    BY <1>3, <2>1, RegistryAssumption DEF HolderInv
  <2> QED BY <2>1, <2>2 DEF HolderInv
<1>7. CountInv'
  BY <1>2 DEF CountInv
<1>8. StopInv'
  BY <1>2 DEF StopInv
<1>9. UsedInv'
  BY <1>2, <1>4 DEF UsedInv
<1> QED BY <1>5, <1>6, <1>7, <1>8, <1>9

\* Every step of the registry keeps the safety part, unless it is the step
\* that corrupts the map.
LEMMA SafeStep ==
    ASSUME BaseInv, SafeInv, TypeOK', Next, ~corrupted'
    PROVE  SafeInv'
<1> USE DEF BaseInv
<1>1. ASSUME NEW h \in Holders, NEW p \in Paths, NEW req \in Requests,
             NEW i \in Items, CreateNew(h, p, req, i)
      PROVE  SafeInv'
  <2>1. item'[i] = NewItem(p, req) /\ \A j \in Items : j # i => item'[j] = item[j]
    BY <1>1 DEF CreateNew, TypeOK
  <2>2. /\ ~item[i].live /\ holder[h].pc = "null" /\ mapItems[p] = NoItem
        /\ holder' = HeldBy(h, i, TRUE)
        /\ mapItems' = [mapItems EXCEPT ![p] = i]
    BY <1>1 DEF CreateNew
  <2>3. /\ item'[i].live
        /\ item'[i].path = p
        /\ item'[i].owner
        /\ item'[i].globRef = p
        /\ item'[i].usercount = 1
        /\ item'[i].status = FIST_FRESH
    BY <2>1, NewItemType
  <2> QED BY <2>1, <2>2, <2>3, RegisterStep
<1>2. ASSUME NEW h \in Holders, NEW p \in Paths, NEW i \in Items,
             CreateCustom(h, p, i)
      PROVE  SafeInv'
  <2>1. item'[i] = CustomItem(p) /\ \A j \in Items : j # i => item'[j] = item[j]
    BY <1>2 DEF CreateCustom, TypeOK
  <2>2. /\ ~item[i].live /\ holder[h].pc = "null" /\ mapItems[p] = NoItem
        /\ holder' = HeldBy(h, i, TRUE)
        /\ mapItems' = [mapItems EXCEPT ![p] = i]
    BY <1>2 DEF CreateCustom
  <2>3. /\ item'[i].live
        /\ item'[i].path = p
        /\ item'[i].owner
        /\ item'[i].globRef = p
        /\ item'[i].usercount = 1
        /\ item'[i].status = FIST_FRESH
    BY <2>1 DEF CustomItem
  <2> QED BY <2>1, <2>2, <2>3, RegisterStep
<1>3. ASSUME NEW h \in Holders, NEW p \in Paths, NEW req \in Requests,
             NEW i \in Items, CreateMakeWay(h, p, req, i)
      PROVE  SafeInv'
  <2> DEFINE old == mapItems[p]
  <2>1. /\ ~item[i].live /\ holder[h].pc = "null"
        /\ old \in Items /\ item[old].live /\ old # i
        /\ holder' = HeldBy(h, i, TRUE)
        /\ mapItems' = [mapItems EXCEPT ![p] = i]
    BY <1>3, DeadItem DEF CreateMakeWay, TypeOK, SafeInv, MapInv
  <2>2. /\ item'[i] = NewItem(p, req)
        /\ item'[old] = MovedAside(Unregistered(item[old]))
        /\ \A j \in Items : j # i /\ j # old => item'[j] = item[j]
    BY <1>3, <2>1 DEF CreateMakeWay, TypeOK
  <2>3. /\ item'[i].live
        /\ item'[i].path = p
        /\ item'[i].owner
        /\ item'[i].globRef = p
        /\ item'[i].usercount = 1
        /\ item'[i].status = FIST_FRESH
    BY <2>2, NewItemType
  <2>4. /\ item'[old].live = item[old].live
        /\ item'[old].usercount = item[old].usercount
        /\ item'[old].status = item[old].status
        /\ ~item'[old].owner
        /\ item'[old].globRef = NoPath
    <3> DEFINE un == Unregistered(item[old])
    <3>1. /\ un \in ItemType
          /\ ~un.owner /\ un.globRef = NoPath
          /\ un.live = item[old].live
          /\ un.usercount = item[old].usercount
          /\ un.status = item[old].status
      BY <2>1, UnregisteredType DEF TypeOK
    <3> HIDE DEF un
    <3> QED BY <2>2, <3>1, MovedAsideType DEF un
  <2> QED BY <2>1, <2>2, <2>3, <2>4, RegisterStep
<1>4. ASSUME NEW h \in Holders, NEW p \in Paths, NEW req \in Requests,
             NEW i \in Items, CreateNoStore(h, p, req, i)
      PROVE  SafeInv'
  <2>1. item'[i] = NoStoreItem(p, req) /\ \A j \in Items : j # i => item'[j] = item[j]
    BY <1>4 DEF CreateNoStore, TypeOK
  <2>2. /\ ~item[i].live /\ holder[h].pc = "null"
        /\ holder' = HeldBy(h, i, TRUE)
        /\ UNCHANGED mapItems
    BY <1>4 DEF CreateNoStore
  <2>3. /\ item'[i].live
        /\ ~item'[i].owner
        /\ item'[i].globRef = NoPath
        /\ item'[i].usercount = 1
        /\ item'[i].status = FIST_FRESH
    BY <2>1 DEF NoStoreItem
  <2> QED BY <2>1, <2>2, <2>3, PrivateStep
<1>5. ASSUME NEW h \in Holders, NEW p \in Paths, NEW i \in Items,
             CreateCustomConflict(h, p, i)
      PROVE  SafeInv'
  <2>1. item'[i] = ConflictItem(p) /\ \A j \in Items : j # i => item'[j] = item[j]
    BY <1>5 DEF CreateCustomConflict, TypeOK
  <2>2. /\ ~item[i].live /\ holder[h].pc = "null"
        /\ holder' = HeldBy(h, i, FALSE)
        /\ UNCHANGED mapItems
    BY <1>5 DEF CreateCustomConflict
  <2>3. /\ item'[i].live
        /\ ~item'[i].owner
        /\ item'[i].globRef = NoPath
        /\ item'[i].usercount = 0
        /\ item'[i].status = FIST_FRESH
    BY <2>1 DEF ConflictItem
  <2> QED BY <2>1, <2>2, <2>3, PrivateStep
<1>6. ASSUME NEW h \in Holders, HolderDtorReadOwner(h)
      PROVE  SafeInv'
  <2>1. item[holder[h].ref].owner \in BOOLEAN /\ holder[h] \in HolderType
    BY <1>6 DEF HolderDtorReadOwner, HolderRefs, TypeOK, ItemType
  <2>2. /\ holder'[h] = SawOwner(holder[h], item[holder[h].ref].owner)
        /\ holder[h].pc \in {"held", "released"}
        /\ \A g \in Holders : g # h => holder'[g] = holder[g]
        /\ UNCHANGED <<item, mapItems>>
    BY <1>6 DEF HolderDtorReadOwner, TypeOK
  <2>3. /\ holder'[h].pc = "dtor"
        /\ holder'[h].ref = holder[h].ref
        /\ holder'[h].counted = holder[h].counted
        /\ holder'[h].manger = item[holder[h].ref].owner
    BY <2>1, <2>2, SawOwnerType
  <2> QED BY <2>2, <2>3, QuietStep
<1>7. ASSUME NEW h \in Holders, HolderDtorProlong(h)
      PROVE  SafeInv'
  <2>1. ExpDate(item[holder[h].ref]) \in Nat /\ holder[h] \in HolderType
    BY <1>7, RegistryAssumption
       DEF HolderDtorProlong, HolderRefs, ExpDate, TypeOK, ItemType
  <2>2. /\ holder'[h] = Queued(holder[h], ExpDate(item[holder[h].ref]))
        /\ holder[h].pc = "dtor"
        /\ \A g \in Holders : g # h => holder'[g] = holder[g]
        /\ UNCHANGED <<item, mapItems>>
    BY <1>7 DEF HolderDtorProlong, TypeOK
  <2>3. ASSUME NEW t \in Nat
        PROVE  /\ Queued(holder[h], t).pc = "queued"
               /\ Queued(holder[h], t).ref = holder[h].ref
               /\ Queued(holder[h], t).counted = holder[h].counted
               /\ Queued(holder[h], t).manger = holder[h].manger
    BY <2>1, QueuedType
  <2>4. /\ holder'[h].pc = "queued"
        /\ holder'[h].ref = holder[h].ref
        /\ holder'[h].counted = holder[h].counted
        /\ holder'[h].manger = holder[h].manger
    BY <2>1, <2>2, <2>3
  <2> QED BY <2>2, <2>4, QuietStep
<1>8. ASSUME NEW h \in Holders, HolderDtorUnreg(h)
      PROVE  SafeInv'
  <2>1. PICK i \in Items : i = holder[h].ref
    BY <1>8 DEF HolderDtorUnreg, HolderRefs
  <2>2. /\ LastUser(item[i]) /\ holder[h].pc = "dtor"
        /\ holder' = [holder EXCEPT ![h] = NullHolder]
        /\ mapItems' = [p \in Paths |->
                          IF p = item[i].globRef THEN NoItem ELSE mapItems[p]]
        /\ item'[i] = Unregistered(Retired(item[i]))
        /\ \A j \in Items : j # i => item'[j] = item[j]
    BY <1>8, <2>1 DEF HolderDtorUnreg, TypeOK
  <2>3. /\ item'[i].live = item[i].live
        /\ ~item'[i].owner
        /\ item'[i].globRef = NoPath
    BY <2>2, UnregisteredType, RetiredType DEF TypeOK
  <2> QED BY <2>1, <2>2, <2>3, LastUserStep
<1>9. ASSUME NEW h \in Holders, HolderDtorUnowned(h)
      PROVE  SafeInv'
  <2>1. PICK i \in Items : i = holder[h].ref
    BY <1>9 DEF HolderDtorUnowned, HolderRefs
  <2>2. /\ LastUser(item[i]) /\ holder[h].pc = "dtor"
        /\ holder' = [holder EXCEPT ![h] = NullHolder]
        /\ UNCHANGED mapItems
        /\ item'[i] = Retired(item[i])
        /\ \A j \in Items : j # i => item'[j] = item[j]
    BY <1>9, <2>1 DEF HolderDtorUnowned, TypeOK
  <2>3. ~item[i].owner /\ item[i].globRef = NoPath
    BY <1>9, <2>1, <2>2 DEF HolderDtorUnowned, SafeInv, HolderInv, MapInv
  <2>4. /\ item'[i].live = item[i].live
        /\ ~item'[i].owner
        /\ item'[i].globRef = NoPath
    BY <2>2, <2>3, RetiredType DEF TypeOK
  <2>5. mapItems' = [p \in Paths |->
                       IF p = item[i].globRef THEN NoItem ELSE mapItems[p]]
    BY <2>2, <2>3, RegistryAssumption DEF TypeOK
  <2> QED BY <2>1, <2>2, <2>4, <2>5, LastUserStep
<1>10. ASSUME NEW i \in Items, DestroyItem(i)
       PROVE  SafeInv'
  <2>1. /\ RefsOf(i) = {} /\ \A p \in Paths : mapItems[p] # i
        /\ item'[i] = FreeItem
        /\ \A j \in Items : j # i => item'[j] = item[j]
        /\ UNCHANGED <<mapItems, holder>>
    BY <1>10 DEF DestroyItem, TypeOK
  <2>2. \A j : RefsOf(j)' = RefsOf(j) /\ CountedRefs(j)' = CountedRefs(j)
    BY <2>1, RefsSame
  <2>3. MapInv'
    <3>1. \A p \in Paths : mapItems[p] # NoItem =>
            mapItems[p] \in Items /\ item'[mapItems[p]] = item[mapItems[p]]
      BY <2>1 DEF TypeOK
    <3>2. item'[i].owner = FALSE /\ item'[i].globRef = NoPath
      BY <2>1 DEF FreeItem
    <3> QED BY <2>1, <3>1, <3>2 DEF SafeInv, MapInv
  <2>4. HolderInv'
    <3>1. \A g \in Holders : holder[g].pc # "null" =>
            item'[holder[g].ref] = item[holder[g].ref]
      BY <2>1 DEF HolderRefs, RefsOf
    <3> QED BY <2>1, <3>1 DEF SafeInv, HolderInv
  <2>5. CountInv'
    BY <2>1, <2>2 DEF SafeInv, CountInv
  <2>6. StopInv'
    BY <2>1, <2>2 DEF SafeInv, StopInv
  <2>7. UsedInv'
    BY <2>1, <2>2 DEF SafeInv, UsedInv
  <2> QED BY <2>3, <2>4, <2>5, <2>6, <2>7 DEF SafeInv
<1>11. ASSUME NEW i \in Items, NEW s \in FiStatus, SetupItem(i, s)
       PROVE  SafeInv'
  <2>1. PICK v \in BOOLEAN : item'[i] = AfterSetup(item[i], s, v)
    BY <1>11 DEF SetupItem, TypeOK
  <2>2. /\ \A j \in Items : j # i => item'[j] = item[j]
        /\ UNCHANGED <<mapItems, holder>>
        /\ s # FIST_DLSTOP
    BY <1>11 DEF SetupItem, TypeOK, FIST_DLSTOP, FIST_INITED, FIST_COMPLETE,
                 FIST_DLGOTHEAD
  <2>3. /\ item'[i].live = item[i].live
        /\ item'[i].path = item[i].path
        /\ item'[i].owner = item[i].owner
        /\ item'[i].globRef = item[i].globRef
        /\ item'[i].usercount = item[i].usercount
        /\ item'[i].status # FIST_DLSTOP
    BY <2>1, <2>2, AfterSetupType DEF TypeOK
  <2> QED BY <2>2, <2>3, QuietStep
<1>12. ASSUME NEW i \in Items, NEW s \in FiStatus, DlProgress(i, s)
       PROVE  SafeInv'
  <2>1. PICK t \in {item[i].started, now} : item'[i] = Progressed(item[i], s, t)
    BY <1>12 DEF DlProgress, TypeOK
  <2>2. /\ \A j \in Items : j # i => item'[j] = item[j]
        /\ UNCHANGED <<mapItems, holder>>
        /\ s # FIST_DLSTOP
        /\ t \in Nat
    BY <1>12, RegistryAssumption
       DEF DlProgress, TypeOK, ItemType, FIST_DLSTOP, FIST_COMPLETE,
           FIST_DLGOTHEAD, FIST_DLRECEIVING
  <2>3. /\ item'[i].live = item[i].live
        /\ item'[i].path = item[i].path
        /\ item'[i].owner = item[i].owner
        /\ item'[i].globRef = item[i].globRef
        /\ item'[i].usercount = item[i].usercount
        /\ item'[i].status # FIST_DLSTOP
    BY <2>1, <2>2, ProgressedType DEF TypeOK
  <2> QED BY <2>2, <2>3, QuietStep
<1>13. ASSUME NEW i \in Items, NEW kmode \in {KEEP, TRUNCATE, DELETE},
              DlSetError(i, kmode)
       PROVE  SafeInv'
  <2>1. DlSetErrorDestroy(item[i].destroy, kmode) \in EDestroyMode
    BY StatusTypes DEF DlSetErrorDestroy, TypeOK, ItemType, KEEP, TRUNCATE, DELETE
  <2>2. /\ item'[i] = Failed(item[i], DlSetErrorDestroy(item[i].destroy, kmode))
        /\ \A j \in Items : j # i => item'[j] = item[j]
        /\ UNCHANGED <<mapItems, holder>>
    BY <1>13 DEF DlSetError, TypeOK
  <2>3. /\ item'[i].live = item[i].live
        /\ item'[i].path = item[i].path
        /\ item'[i].owner = item[i].owner
        /\ item'[i].globRef = item[i].globRef
        /\ item'[i].usercount = item[i].usercount
        /\ item'[i].status # FIST_DLSTOP
    BY <2>1, <2>2, FailedType DEF TypeOK, FIST_DLERROR, FIST_DLSTOP
  <2> QED BY <2>2, <2>3, QuietStep
<1>14. ASSUME BackgroundCleanup
       PROVE  SafeInv'
  <2>1. PICK cut \in 1..Len(prolongedQ) :
          holder' = [h \in Holders |->
                       IF \E k \in 1..cut : prolongedQ[k] = h
                       THEN Released(holder[h]) ELSE holder[h]]
    BY <1>14 DEF BackgroundCleanup
  <2>2. \A h \in Holders :
          \/ /\ holder'[h].pc = "released"
             /\ holder'[h].ref = holder[h].ref
             /\ holder'[h].counted = holder[h].counted
             /\ holder'[h].manger = holder[h].manger
             /\ holder[h].pc = "queued"
          \/ holder'[h] = holder[h]
    BY <2>1, ReleasedType DEF TypeOK, QueueInv
  <2>3. UNCHANGED <<item, mapItems>>
    BY <1>14 DEF BackgroundCleanup
  <2> QED BY <2>2, <2>3, QuietStep
<1>15. ASSUME ClockStep \/ SignalShutdown
       PROVE  SafeInv'
  <2>1. UNCHANGED <<item, mapItems, holder>>
    BY <1>15 DEF ClockStep, SignalShutdown
  <2> QED BY <2>1, QuietStep
<1>16. ~Crashed
  BY DEF Crashed, vars
<1> QED
  BY <1>1, <1>2, <1>3, <1>4, <1>5, <1>6, <1>7, <1>8, <1>9, <1>10, <1>11,
     <1>12, <1>13, <1>14, <1>15, <1>16, ShareStep, StillUsedStep DEF Next

-----------------------------------------------------------------------------
(* The theorems *)

\* Nothing is registered yet.
LEMMA InitInv ==
    ASSUME Init
    PROVE  IInv
<1> USE DEF Init
<1>1. TypeOK
  <2>1. item \in [Items -> ItemType] /\ holder \in [Holders -> HolderType]
    BY FreeItemType, NullHolderType
  <2>2. mapItems \in [Paths -> Items \cup {NoItem}] /\ prolongedQ \in Seq(Holders)
    OBVIOUS
  <2> QED BY <2>1, <2>2 DEF TypeOK
<1>2. /\ \A h \in Holders : holder[h].pc = "null" /\ holder[h].ref = NoItem
      /\ \A i \in Items : /\ item[i].owner = FALSE
                          /\ item[i].globRef = NoPath
                          /\ item[i].status = FIST_FRESH
  BY DEF NullHolder, FreeItem
<1>3. \A i \in Items : RefsOf(i) = {}
  BY <1>2, RegistryAssumption DEF RefsOf
<1>4. HolderRefs /\ QueueInv
  BY <1>2, RegistryAssumption DEF HolderRefs, QueueInv
<1>5. SafeInv
  BY <1>2, <1>3 DEF SafeInv, MapInv, HolderInv, CountInv, StopInv, UsedInv
<1> QED BY <1>1, <1>4, <1>5 DEF IInv, BaseInv

\* After undefined behaviour the model stops.
LEMMA CorruptedStuck ==
    ASSUME Next, corrupted
    PROVE  Crashed
BY DEF Next, CreateNew, CreateShare, CreateNoStore, CreateMakeWay,
       CreateCustom, CreateCustomConflict, HolderDtorReadOwner,
       HolderDtorStillUsed, HolderDtorProlong, HolderDtorUnreg,
       HolderDtorUnowned, DestroyItem, SetupItem, DlProgress, DlSetError,
       BackgroundCleanup, ClockStep, SignalShutdown

\* Every step keeps the invariant.
LEMMA NextInv ==
    ASSUME IInv, [Next]_vars
    PROVE  IInv'
<1>1. BaseInv' /\ TypeOK'
  BY BaseStep DEF IInv, BaseInv
<1>2. ASSUME ~corrupted'
      PROVE  SafeInv'
  <2>1. CASE UNCHANGED vars
    <3>1. ~corrupted
      BY <1>2, <2>1 DEF vars
    <3>2. UNCHANGED <<item, mapItems, holder>>
      BY <2>1 DEF vars
    <3> QED BY <1>1, <3>1, <3>2, QuietStep DEF IInv
  <2>2. CASE Next /\ ~corrupted
    BY <1>1, <1>2, <2>2, SafeStep DEF IInv
  <2>3. CASE Next /\ corrupted
    <3>1. Crashed
      BY <2>3, CorruptedStuck
    <3> QED BY <1>2, <2>3, <3>1 DEF Crashed, vars
  <2> QED BY <2>1, <2>2, <2>3
<1> QED BY <1>1, <1>2 DEF IInv

\* The invariant of the registry.
LEMMA Invariance == Spec => []IInv
BY InitInv, NextInv, PTL DEF Spec

\* Whatever threads create, share, displace and drop items, every variable
\* of the registry and of its items and holders keeps its type.
THEOREM TypeCorrect == Spec => []TypeOK
<1>1. IInv => TypeOK
  BY DEF IInv, BaseInv
<1> QED BY <1>1, Invariance, PTL

\* Until the map is corrupted, the registry's map and the items' back
\* references into it agree (acregistry.cc: regnew, abandon_replace, Unreg).
THEOREM MapAlwaysConsistent == Spec => []MapConsistent
<1>1. IInv => MapConsistent
  BY DEF IInv, SafeInv, MapInv, MapConsistent
<1> QED BY <1>1, Invariance, PTL

\* usercount is exact for any number of users: the increments of Create and
\* the decrements of ~TFileItemHolder, the prolongation included, balance.
THEOREM UserCountCorrect == Spec => []UserCountExact
<1>1. IInv => UserCountExact
  BY DEF IInv, SafeInv, CountInv, UserCountExact
<1> QED BY <1>1, Invariance, PTL

\* ~TFileItemHolder stops an item only when no holder refers to it, and no
\* later Create hands a stopped item out.
THEOREM StoppedItemsUnused == Spec => []StoppedUnused
<1>1. IInv => StoppedUnused
  BY DEF IInv, SafeInv, StopInv, StoppedUnused
<1> QED BY <1>1, Invariance, PTL

\* Whatever is in the map has a user that will take it out again.
THEOREM RegisteredItemsUsed == Spec => []RegisteredHasUser
<1>1. IInv => RegisteredHasUser
  BY DEF IInv, SafeInv, UsedInv, RegisteredHasUser
<1> QED BY <1>1, Invariance, PTL

\* The prolonged queue and the holders in it correspond one to one
\* (AddToProlongedQueue, BackgroundCleanup).
THEOREM QueueAlwaysConsistent == Spec => []QueueConsistent
<1>1. IInv => QueueConsistent
  <2> SUFFICES ASSUME IInv
               PROVE  QueueConsistent
    OBVIOUS
  <2>1. DOMAIN prolongedQ = 1..Len(prolongedQ)
    BY DEF IInv, BaseInv, TypeOK
  <2>2. \A k \in 1..Len(prolongedQ) : prolongedQ[k] \in Holders
    BY DEF IInv, BaseInv, TypeOK
  <2>3. {prolongedQ[k] : k \in DOMAIN prolongedQ}
          = {h \in Holders : holder[h].pc = "queued"}
    BY <2>1, <2>2 DEF IInv, BaseInv, QueueInv
  <2> QED BY <2>1, <2>3 DEF IInv, BaseInv, QueueInv, QueueConsistent
<1> QED BY <1>1, Invariance, PTL

\* One step of the registry moves an item out of the map only with its last
\* counted user or in favour of another item, and never back into it.
LEMMA LeaveStep ==
    ASSUME IInv, [Next]_vars, ~corrupted', NEW i \in Items, item[i].live
    PROVE  /\ ~item[i].owner => ~item'[i].owner
           /\ item[i].owner /\ ~item'[i].owner =>
                \/ CountedRefs(i)' = {} /\ mapItems'[item[i].path] = NoItem
                \/ mapItems'[item[i].path] \notin {i, NoItem}
<1> DEFINE Goal ==
      /\ ~item[i].owner => ~item'[i].owner
      /\ item[i].owner /\ ~item'[i].owner =>
           \/ CountedRefs(i)' = {} /\ mapItems'[item[i].path] = NoItem
           \/ mapItems'[item[i].path] \notin {i, NoItem}
<1> SUFFICES Goal
  OBVIOUS
<1>0. CASE corrupted
  <2>1. UNCHANGED item
    BY <1>0, CorruptedStuck DEF Crashed, vars
  <2> QED BY <2>1
<1> SUFFICES ASSUME ~corrupted
             PROVE  Goal
  BY <1>0
<1>1. BaseInv /\ SafeInv /\ TypeOK
  BY DEF IInv, BaseInv
<1>2. item \in [Items -> ItemType] /\ item[i] \in ItemType
  BY <1>1 DEF TypeOK
<1>3. item[i].owner => /\ item[i].path \in Paths
                       /\ item[i].globRef = item[i].path
                       /\ mapItems[item[i].path] = i
  <2> SUFFICES ASSUME item[i].owner
               PROVE  /\ item[i].path \in Paths
                      /\ item[i].globRef = item[i].path
                      /\ mapItems[item[i].path] = i
    OBVIOUS
  <2>1. item[i].globRef \in Paths /\ mapItems[item[i].globRef] = i
    BY <1>1, <1>2 DEF SafeInv, MapInv, ItemType
  <2>2. item[i].path = item[i].globRef
    BY <1>1, <2>1, RegistryAssumption DEF SafeInv, MapInv
  <2> QED BY <2>1, <2>2
<1>4. ASSUME item'[i].owner = item[i].owner
      PROVE  Goal
  BY <1>4
<1>5. ASSUME NEW h \in Holders, NEW p \in Paths, NEW j \in Items,
             \/ CreateCustom(h, p, j)
             \/ CreateCustomConflict(h, p, j)
             \/ \E req \in Requests : CreateNew(h, p, req, j) \/ CreateNoStore(h, p, req, j)
      PROVE  Goal
  <2>1. ~item[j].live /\ \A k \in Items : k # j => item'[k] = item[k]
    BY <1>2, <1>5 DEF CreateCustom, CreateCustomConflict, CreateNew, CreateNoStore
  <2> QED BY <1>4, <2>1
<1>6. ASSUME NEW h \in Holders, NEW p \in Paths, NEW req \in Requests,
             CreateShare(h, p, req)
      PROVE  Goal
  <2>1. item'[i] = item[i] \/ item'[i] = Shared(item[i])
    BY <1>2, <1>6 DEF CreateShare
  <2> QED BY <1>2, <1>4, <2>1, SharedType
<1>7. ASSUME NEW h \in Holders, NEW p \in Paths, NEW req \in Requests,
             NEW j \in Items, CreateMakeWay(h, p, req, j)
      PROVE  Goal
  <2>1. /\ i # j
        /\ mapItems[p] # i => item'[i] = item[i]
        /\ mapItems' = [mapItems EXCEPT ![p] = j]
    BY <1>2, <1>7 DEF CreateMakeWay
  <2>2. CASE mapItems[p] = i
    <3>1. item[i].path = p /\ item[i].owner
      BY <1>1, <2>2, RegistryAssumption DEF SafeInv, MapInv
    <3>2. mapItems'[p] = j /\ j # NoItem
      BY <1>1, <2>1, RegistryAssumption DEF TypeOK
    <3> QED BY <2>1, <3>1, <3>2
  <2>3. CASE mapItems[p] # i
    BY <1>4, <2>1, <2>3
  <2> QED BY <2>2, <2>3
<1>8. ASSUME NEW h \in Holders, HolderDtorUnreg(h)
      PROVE  Goal
  <2>1. PICK j \in Items : j = holder[h].ref
    BY <1>1, <1>8 DEF HolderDtorUnreg, BaseInv, HolderRefs
  <2>2. CASE j # i
    <3>1. item'[i] = item[i]
      BY <1>2, <1>8, <2>1, <2>2 DEF HolderDtorUnreg
    <3> QED BY <1>4, <3>1
  <2>3. CASE j = i
    <3>1. /\ LastUser(item[i])
          /\ holder' = [holder EXCEPT ![h] = NullHolder]
          /\ mapItems' = [p \in Paths |->
                            IF p = item[i].globRef THEN NoItem ELSE mapItems[p]]
          /\ item'[i] = Unregistered(Retired(item[i]))
      BY <1>2, <1>8, <2>1, <2>3 DEF HolderDtorUnreg
    <3>2. RefsOf(i)' = {}
      <4>1. holder[h].ref = i
        BY <2>1, <2>3
      <4>2. RefsOf(i) = {h}
        BY <1>1, <3>1, <4>1, LastUserAlone
      <4>3. RefsOf(i)' = RefsOf(i) \ {h}
        BY <1>1, <3>1, <4>1, RefsDropped
      <4> QED BY <4>2, <4>3
    <3>3. CountedRefs(i)' = {}
      BY <3>2 DEF CountedRefs, RefsOf
    <3>4. ~item'[i].owner
      BY <1>2, <3>1, UnregisteredType, RetiredType
    <3> QED BY <1>3, <3>1, <3>3, <3>4
  <2> QED BY <2>2, <2>3
<1>9. ASSUME NEW h \in Holders, HolderDtorStillUsed(h) \/ HolderDtorUnowned(h)
      PROVE  Goal
  <2>1. \/ item'[i] = item[i]
        \/ item'[i] = OneUserLess(item[i])
        \/ item'[i] = Retired(item[i])
    BY <1>2, <1>9 DEF HolderDtorStillUsed, HolderDtorUnowned
  <2> QED BY <1>2, <1>4, <2>1, OneUserLessType, RetiredType
<1>10. ASSUME NEW j \in Items, DestroyItem(j)
       PROVE  Goal
  <2>1. CASE j # i
    BY <1>2, <1>4, <1>10, <2>1 DEF DestroyItem
  <2>2. CASE j = i
    <3>1. ~item[i].owner
      BY <1>3, <1>10, <2>2 DEF DestroyItem
    <3>2. item'[i] = FreeItem
      BY <1>2, <1>10, <2>2 DEF DestroyItem
    <3>3. ~item'[i].owner
      BY <3>2 DEF FreeItem
    <3> QED BY <3>1, <3>3
  <2> QED BY <2>1, <2>2
<1>11. ASSUME NEW j \in Items, NEW s \in FiStatus,
              SetupItem(j, s) \/ DlProgress(j, s)
       PROVE  Goal
  <2>1. \/ item'[i] = item[i]
        \/ \E v \in BOOLEAN : item'[i] = AfterSetup(item[i], s, v)
        \/ \E t \in {item[i].started, now} : item'[i] = Progressed(item[i], s, t)
    BY <1>2, <1>11 DEF SetupItem, DlProgress
  <2>2. item[i].started \in Nat /\ now \in Nat
    BY <1>1, <1>2, RegistryAssumption DEF TypeOK, ItemType
  <2> QED BY <1>2, <1>4, <2>1, <2>2, AfterSetupType, ProgressedType
<1>12. ASSUME NEW j \in Items, NEW kmode \in {KEEP, TRUNCATE, DELETE},
              DlSetError(j, kmode)
       PROVE  Goal
  <2>1. CASE j # i
    BY <1>2, <1>4, <1>12, <2>1 DEF DlSetError
  <2>2. CASE j = i
    <3>1. DlSetErrorDestroy(item[i].destroy, kmode) \in EDestroyMode
      BY <1>2, StatusTypes DEF DlSetErrorDestroy, ItemType, KEEP, TRUNCATE, DELETE
    <3>2. item'[i] = Failed(item[i], DlSetErrorDestroy(item[i].destroy, kmode))
      BY <1>2, <1>12, <2>2 DEF DlSetError
    <3> QED BY <1>2, <1>4, <3>1, <3>2, FailedType
  <2> QED BY <2>1, <2>2
<1>13. ASSUME \/ \E h \in Holders : HolderDtorReadOwner(h) \/ HolderDtorProlong(h)
              \/ BackgroundCleanup \/ ClockStep \/ SignalShutdown
              \/ UNCHANGED vars
       PROVE  Goal
  <2>1. UNCHANGED item
    BY <1>13 DEF HolderDtorReadOwner, HolderDtorProlong, BackgroundCleanup,
         ClockStep, SignalShutdown, vars
  <2> QED BY <1>4, <2>1
<1> HIDE DEF Goal
<1> QED
  BY <1>5, <1>6, <1>7, <1>8, <1>9, <1>10, <1>11, <1>12, <1>13 DEF Next, Crashed

\* An item leaves the map for good, with its last user or displaced by
\* Create, and in no other way.
THEOREM ItemsLeaveForGood == Spec => LeavesMapForGood
<1>1. IInv /\ [Next]_vars =>
        [\A i \in Items : ~corrupted' /\ item[i].live =>
           /\ ~item[i].owner => ~item'[i].owner
           /\ item[i].owner /\ ~item'[i].owner =>
                \/ CountedRefs(i)' = {} /\ mapItems'[item[i].path] = NoItem
                \/ mapItems'[item[i].path] \notin {i, NoItem}]_vars
  BY LeaveStep
<1> QED BY <1>1, Invariance, PTL DEF Spec, LeavesMapForGood
=============================================================================
