---------------------------- MODULE RwLockProofs ----------------------------
(***************************************************************************)
(* The reader-writer lock keeps its counters exact, excludes writers from   *)
(* everyone else and implements GuardedValue, for every set of slots, every *)
(* set of values and every range of ids.                                    *)
(***************************************************************************)
EXTENDS RwLock, FiniteSetTheorems, WellFoundedInduction, TLAPS

ReadGuards == {g \in Ids : guards[g] = "Read"}

\* The types of the variables, but for the queue and what plays no part.
LockTypes ==
    /\ readers \in Nat /\ writer \in BOOLEAN /\ closed \in BOOLEAN
    /\ nextGuardId \in Ids
    /\ guards \in [Ids -> Kinds \cup {Absent}]
    /\ payload \in Values
    /\ future \in [Slots -> {"none", "pending", "ready"}]
    /\ kind \in [Slots -> Kinds]
    /\ outcome \in [Slots -> Ids \cup {None, Invalid}]
    /\ token \in [Slots -> Ids \cup {None}]
    /\ nextWaiterId \in Ids
    /\ waiters \in [Ids -> Kinds \cup {Absent}]
    /\ waiterId \in [Slots -> Ids \cup {None}]

\* A write guard is alone in the map.
WriterAlone == \A g, h \in Ids : guards[g] = "Write" /\ guards[h] # Absent => g = h

\* The counters and the map, as they stand between two calls.
GuardsInv == CountersMatchGuards /\ WriterAlone

\* A slot is vacant, has a future, or has a token, never two of them.
SlotPhases ==
    \A s \in Slots :
        /\ token[s] # None => future[s] = "none"
        /\ future[s] # "ready" => outcome[s] = None

\* What a slot owns is in the map with the slot's kind, and is its own.
OwnersInv ==
    /\ \A s \in Slots : Owned(s) # None => guards[Owned(s)] = kind[s]
    /\ \A s, r \in Slots : Owned(s) # None /\ Owned(s) = Owned(r) => s = r

\* A registered future is pending, its waiter has its kind and is its own.
WaitersInv ==
    /\ \A s \in Slots : waiterId[s] # None =>
        future[s] = "pending" /\ waiters[waiterId[s]] = kind[s]
    /\ \A s, r \in Slots : waiterId[s] # None /\ waiterId[s] = waiterId[r] => s = r

IInv == LockTypes /\ GuardsInv /\ SlotPhases /\ OwnersInv /\ WaitersInv

-----------------------------------------------------------------------------
\* The allocation loop of allocate_rwlock_guard_id, which wraps around at the
\* largest id, ends with an id that the map does not contain.
LEMMA FreshIdIsFree ==
    ASSUME NEW next \in Ids, NEW used \in [Ids -> Kinds \cup {Absent}], HasFreeId(used)
    PROVE  FreshId(next, used) \in Ids /\ used[FreshId(next, used)] = Absent
<1> DEFINE free == {j \in 0..(MaxId - 1) : used[Candidate(next, j)] = Absent}
<1>1. MaxId \in Nat /\ MaxId > 0 /\ next \in 1..MaxId
  BY IdAssumption DEF Ids
<1>2. free # {}
  <2>1. PICK id \in 1..MaxId : used[id] = Absent
    BY DEF HasFreeId, Ids
  <2>2. CASE id >= next
    <3>1. id - next \in 0..(MaxId - 1) /\ Candidate(next, id - next) = id
      BY <1>1, <2>2 DEF Candidate
    <3> QED BY <3>1, <2>1
  <2>3. CASE id < next
    <3>1. id - next + MaxId \in 0..(MaxId - 1) /\ Candidate(next, id - next + MaxId) = id
      BY <1>1, <2>3 DEF Candidate
    <3> QED BY <3>1, <2>1
  <2> QED BY <1>1, <2>1, <2>2, <2>3
<1>3. free \subseteq Nat
  BY <1>1
<1>4. \E j \in free : \A i \in free : j <= i
  <2>1. PICK j \in free : \A i \in free : ~ (<<i, j>> \in OpToRel(<, Nat))
    BY <1>2, <1>3, NatLessThanWellFounded, WFMin, Zenon
  <2>2. \A i \in free : ~ (i < j)
    BY <2>1, <1>3 DEF OpToRel
  <2> QED BY <2>2, <1>3
<1> DEFINE first == CHOOSE j \in free : \A i \in free : j <= i
<1>5. first \in free
  BY <1>4
<1>6. first \in 0..(MaxId - 1) /\ used[Candidate(next, first)] = Absent
  BY <1>5
<1>7. Candidate(next, first) \in Ids
  <2> HIDE DEF first
  <2> QED BY <1>6, <1>1 DEF Candidate, Ids
<1>8. FreshId(next, used) = Candidate(next, first)
  BY DEF FreshId
<1> QED BY <1>6, <1>7, <1>8

\* There are finitely many ids, so the counters count.
LEMMA GuardsFinite == IsFiniteSet(ReadGuards)
<1>1. IsFiniteSet(Ids)
  BY IdAssumption, FS_Interval DEF Ids
<1> QED BY <1>1, FS_Subset DEF ReadGuards

\* No reader is counted exactly when no read guard is in the map.
LEMMA NoReaders ==
    ASSUME LockTypes, GuardsInv, readers = 0, NEW g \in Ids
    PROVE  guards[g] # "Read"
<1>1. ReadGuards = {}
  BY GuardsFinite, FS_EmptySet DEF GuardsInv, CountersMatchGuards, ReadGuards
<1> QED BY <1>1 DEF ReadGuards

\* rwlock_acquire_guard keeps the counters exact and the writer alone if the
\* lock is free for the kind of guard it grants.
LEMMA AcquireKeepsGuards ==
    ASSUME LockTypes, GuardsInv, NEW k \in Kinds, Free(k), AcquireGuard(k)
    PROVE  GuardsInv'
<1> DEFINE id == FreshId(nextGuardId, guards)
<1>1. id \in Ids /\ guards[id] = Absent
  BY FreshIdIsFree DEF LockTypes, AcquireGuard
<1>2. guards' = [guards EXCEPT ![id] = k] /\ guards \in [Ids -> Kinds \cup {Absent}]
  BY DEF AcquireGuard, LockTypes
<1>3. k \in {"Read", "Write"} /\ "Read" # Absent /\ "Write" # Absent
  BY DEF Kinds, Absent
<1> HIDE DEF id
<1>4. CASE k = "Read"
  <2>1. ReadGuards' = ReadGuards \cup {id} /\ id \notin ReadGuards
    BY <1>1, <1>2, <1>3, <1>4 DEF ReadGuards
  <2>2. Cardinality(ReadGuards') = Cardinality(ReadGuards) + 1
    BY <2>1, GuardsFinite, FS_AddElement
  <2>3. readers' = Cardinality(ReadGuards')
    BY <2>2, <1>4 DEF AcquireGuard, GuardsInv, CountersMatchGuards, ReadGuards
  <2>4. \A g \in Ids : guards[g] # "Write"
    BY DEF Free, GuardsInv, CountersMatchGuards
  <2>5. \A g \in Ids : guards'[g] # "Write"
    BY <2>4, <1>2, <1>4
  <2>6. writer' = FALSE
    BY <1>4, <1>3 DEF AcquireGuard, Free, LockTypes
  <2> QED BY <2>3, <2>5, <2>6 DEF GuardsInv, CountersMatchGuards, WriterAlone, ReadGuards
<1>5. CASE k = "Write"
  <2>1. \A g \in Ids : guards[g] = Absent
    <3>1. \A g \in Ids : guards[g] # "Read"
      BY <1>5, NoReaders DEF Free
    <3>2. \A g \in Ids : guards[g] # "Write"
      BY DEF Free, GuardsInv, CountersMatchGuards
    <3> QED BY <3>1, <3>2 DEF LockTypes, Kinds
  <2>2. ReadGuards' = ReadGuards
    BY <1>1, <1>2, <1>3, <1>5 DEF ReadGuards
  <2>3. readers' = Cardinality(ReadGuards')
    BY <2>2, <1>5 DEF AcquireGuard, GuardsInv, CountersMatchGuards, ReadGuards
  <2>4. guards'[id] = "Write" /\ \A g \in Ids : g # id => guards'[g] = Absent
    BY <2>1, <1>1, <1>2, <1>5
  <2>5. writer' = TRUE
    BY <1>5 DEF AcquireGuard
  <2> QED BY <2>3, <2>4, <2>5, <1>1, <1>3 DEF GuardsInv, CountersMatchGuards, WriterAlone, ReadGuards
<1> QED BY <1>3, <1>4, <1>5

\* rwlock_acquire_guard keeps the types of the counters.
LEMMA AcquireTypes ==
    ASSUME LockTypes, NEW k \in Kinds, AcquireGuard(k)
    PROVE  readers' \in Nat /\ writer' \in BOOLEAN
<1>1. readers' = readers + 1 \/ readers' = readers
  BY DEF AcquireGuard
<1>2. writer' = TRUE \/ writer' = writer
  BY DEF AcquireGuard
<1>3. readers \in Nat /\ writer \in BOOLEAN
  BY DEF LockTypes
<1>4. readers' \in Nat
  BY <1>1, <1>3
<1>5. writer' \in BOOLEAN
  BY <1>2, <1>3
<1> QED BY <1>4, <1>5

\* rwlock_guard_unlock keeps them so.
LEMMA ReleaseKeepsGuards ==
    ASSUME LockTypes, GuardsInv, NEW id \in Ids, NEW k \in Kinds, guards[id] = k,
           guards' = [guards EXCEPT ![id] = Absent], Release(k)
    PROVE  GuardsInv' /\ readers' \in Nat /\ writer' \in BOOLEAN
<1>2. guards \in [Ids -> Kinds \cup {Absent}] /\ readers \in Nat /\ writer \in BOOLEAN
  BY DEF LockTypes
<1>3. k \in {"Read", "Write"} /\ "Read" # Absent /\ "Write" # Absent
  BY DEF Kinds, Absent
<1>4. CASE k = "Read"
  <2>1. ReadGuards' = ReadGuards \ {id} /\ id \in ReadGuards
    BY <1>2, <1>3, <1>4 DEF ReadGuards
  <2>2. Cardinality(ReadGuards') = Cardinality(ReadGuards) - 1
    BY <2>1, GuardsFinite, FS_RemoveElement
  <2>3. readers = Cardinality(ReadGuards)
    BY DEF GuardsInv, CountersMatchGuards, ReadGuards
  <2>4. readers # 0
    BY <1>4, NoReaders
  <2>5. readers' = Cardinality(ReadGuards') /\ readers' \in Nat
    BY <2>2, <2>3, <2>4, <1>2, <1>4 DEF Release
  <2>6. \A g \in Ids : guards[g] # "Write"
    BY <1>3, <1>4 DEF GuardsInv, WriterAlone
  <2>7. \A g \in Ids : guards'[g] # "Write"
    BY <2>6, <1>2, <1>3
  <2>8. writer' = FALSE
    BY <2>6, <1>4 DEF Release, GuardsInv, CountersMatchGuards
  <2> QED BY <2>5, <2>7, <2>8 DEF GuardsInv, CountersMatchGuards, WriterAlone, ReadGuards
<1>5. CASE k = "Write"
  <2>1. ReadGuards' = ReadGuards
    BY <1>2, <1>3, <1>5 DEF ReadGuards
  <2>2. readers' = Cardinality(ReadGuards') /\ readers' \in Nat
    BY <2>1, <1>2, <1>5 DEF Release, GuardsInv, CountersMatchGuards, ReadGuards
  <2>3. \A g \in Ids : guards'[g] # "Write"
    BY <1>2, <1>3, <1>5 DEF GuardsInv, WriterAlone
  <2>4. writer' = FALSE
    BY <1>5 DEF Release
  <2> QED BY <2>2, <2>3, <2>4 DEF GuardsInv, CountersMatchGuards, WriterAlone, ReadGuards
<1> QED BY <1>3, <1>4, <1>5

\* The id that follows one is an id.
LEMMA SuccessorIsId == ASSUME NEW id \in Ids PROVE Successor(id) \in Ids
BY IdAssumption DEF Successor, Ids

\* None and Invalid are no ids.
LEMMA IdsArePositive == None \notin Ids /\ Invalid \notin Ids /\ None # Invalid
BY DEF None, Invalid, Ids

\* A pending future owns nothing yet.
LEMMA PendingOwnsNothing ==
    ASSUME IInv, NEW s \in Slots, future[s] = "pending"
    PROVE  token[s] = None /\ outcome[s] = None /\ Owned(s) = None
BY IdsArePositive DEF IInv, SlotPhases, Owned

\* A guard under a fresh id that becomes the property of slot s disturbs no
\* other owner.
LEMMA GrantKeepsOwners ==
    ASSUME IInv, NEW s \in Slots, Owned(s) = None,
           NEW id \in Ids, guards[id] = Absent, Owned(s)' = id,
           \A r \in Slots \ {s} : Owned(r)' = Owned(r) /\ kind'[r] = kind[r],
           kind'[s] \in Kinds, guards' = [guards EXCEPT ![id] = kind'[s]]
    PROVE  OwnersInv'
<1>1. guards \in [Ids -> Kinds \cup {Absent}]
  BY DEF IInv, LockTypes
<1>2. \A r \in Slots : kind[r] # Absent
  BY DEF IInv, LockTypes, Kinds, Absent
<1>3. \A r \in Slots : Owned(r) \in Ids \cup {None}
  BY DEF IInv, LockTypes, Owned
<1>4. \A r \in Slots : Owned(r) # id
  BY <1>2, IdsArePositive DEF IInv, OwnersInv
<1>5. \A r \in Slots : Owned(r)' # None => guards'[Owned(r)'] = kind'[r]
  <2> TAKE r \in Slots
  <2>1. CASE r = s
    BY <2>1, <1>1
  <2>2. CASE r # s
    BY <2>2, <1>1, <1>3, <1>4 DEF IInv, OwnersInv
  <2> QED BY <2>1, <2>2
<1>6. \A q, r \in Slots : Owned(q)' # None /\ Owned(q)' = Owned(r)' => q = r
  BY <1>4 DEF IInv, OwnersInv
<1> QED BY <1>5, <1>6 DEF OwnersInv

\* A slot that leaves the waiters, or never was among them, disturbs no other.
LEMMA UnregisterKeepsWaiters ==
    ASSUME IInv, NEW s \in Slots, UnregisterWaiter(s),
           \A r \in Slots \ {s} : future'[r] = future[r], kind' = kind
    PROVE  /\ WaitersInv'
           /\ waiters' \in [Ids -> Kinds \cup {Absent}]
           /\ waiterId' \in [Slots -> Ids \cup {None}]
<1>1. waiters \in [Ids -> Kinds \cup {Absent}] /\ waiterId \in [Slots -> Ids \cup {None}]
  BY DEF IInv, LockTypes
<1>2. waiterId' = [waiterId EXCEPT ![s] = None]
  BY DEF UnregisterWaiter
<1>3. waiters' = IF waiterId[s] = None THEN waiters
                 ELSE [waiters EXCEPT ![waiterId[s]] = Absent]
  BY DEF UnregisterWaiter
<1>4. \A r \in Slots \ {s} : waiterId[r] # None => waiters'[waiterId[r]] = waiters[waiterId[r]]
  BY <1>1, <1>3 DEF IInv, WaitersInv
<1>5. WaitersInv'
  BY <1>1, <1>2, <1>4 DEF IInv, WaitersInv
<1> QED BY <1>1, <1>2, <1>3, <1>5

-----------------------------------------------------------------------------
\* A poll that grants the lock.
LEMMA PollGrantsInv ==
    ASSUME IInv, NEW s \in Slots, PollGrants(s)
    PROVE  IInv'
<1> DEFINE id == FreshId(nextGuardId, guards)
<1>1. id \in Ids /\ guards[id] = Absent
  BY FreshIdIsFree DEF IInv, LockTypes, PollGrants, AcquireGuard
<1>2. kind[s] \in Kinds /\ kind' = kind /\ token' = token
  BY DEF IInv, LockTypes, PollGrants
<1>3. Free(kind[s])
  BY DEF PollGrants, WaiterCanAcquire, NewcomerCanAcquire, IInv, WaitersInv
<1>4. GuardsInv'
  BY <1>2, <1>3, AcquireKeepsGuards DEF IInv, PollGrants
<1>5. /\ outcome' = [outcome EXCEPT ![s] = id]
      /\ future' = [future EXCEPT ![s] = "ready"]
      /\ guards' = [guards EXCEPT ![id] = kind[s]]
      /\ nextGuardId' = Successor(id)
  BY DEF PollGrants, AcquireGuard
<1>6. /\ future \in [Slots -> {"none", "pending", "ready"}]
      /\ outcome \in [Slots -> Ids \cup {None, Invalid}]
      /\ guards \in [Ids -> Kinds \cup {Absent}]
  BY DEF IInv, LockTypes
<1>7. token[s] = None /\ Owned(s) = None
  BY PendingOwnsNothing DEF PollGrants
<1> HIDE DEF id
<1>8. Owned(s)' = id
  BY <1>1, <1>2, <1>5, <1>6, <1>7, IdsArePositive DEF Owned
<1>9. \A r \in Slots \ {s} : Owned(r)' = Owned(r) /\ kind'[r] = kind[r]
  BY <1>2, <1>5, <1>6 DEF Owned
<1>10. OwnersInv'
  BY <1>1, <1>2, <1>5, <1>7, <1>8, <1>9, GrantKeepsOwners
<1>11. /\ WaitersInv'
       /\ waiters' \in [Ids -> Kinds \cup {Absent}]
       /\ waiterId' \in [Slots -> Ids \cup {None}]
  BY <1>2, <1>5, <1>6, UnregisterKeepsWaiters DEF PollGrants
<1>12. SlotPhases'
  BY <1>2, <1>5, <1>6, <1>7 DEF IInv, SlotPhases
<1>13. readers' \in Nat /\ writer' \in BOOLEAN
  BY <1>2, AcquireTypes DEF IInv, PollGrants
<1>14. LockTypes'
  <2>1. nextGuardId' \in Ids
    BY <1>1, <1>5, SuccessorIsId
  <2>2. /\ guards' \in [Ids -> Kinds \cup {Absent}]
        /\ outcome' \in [Slots -> Ids \cup {None, Invalid}]
        /\ future' \in [Slots -> {"none", "pending", "ready"}]
    BY <1>1, <1>2, <1>5, <1>6
  <2>3. UNCHANGED <<closed, payload, nextWaiterId>>
    BY DEF PollGrants
  <2> QED BY <2>1, <2>2, <2>3, <1>2, <1>11, <1>13 DEF IInv, LockTypes
<1> QED BY <1>4, <1>10, <1>11, <1>12, <1>14 DEF IInv

\* try_read and try_write.
LEMMA TryInv ==
    ASSUME IInv, NEW s \in Slots, NEW k \in Kinds, Try(s, k)
    PROVE  IInv'
<1>1. /\ kind \in [Slots -> Kinds] /\ token \in [Slots -> Ids \cup {None}]
      /\ guards \in [Ids -> Kinds \cup {Absent}]
      /\ kind' = [kind EXCEPT ![s] = k]
      /\ future[s] = "none" /\ token[s] = None /\ outcome[s] = None /\ waiterId[s] = None
  BY DEF IInv, LockTypes, SlotPhases, WaitersInv, Try, Vacant
<1>2. UNCHANGED <<closed, nextWaiterId, waiters, payload, future, waiterId, outcome>>
  BY DEF Try
<1>3. Owned(s) = None
  BY <1>1, IdsArePositive DEF Owned
<1>4. WaitersInv'
  BY <1>1, <1>2 DEF IInv, WaitersInv
<1>5. /\ ~TryRefuses(k) /\ AcquireGuard(k)
      /\ token' = [token EXCEPT ![s] = FreshId(nextGuardId, guards)]
  BY DEF Try
<1> DEFINE id == FreshId(nextGuardId, guards)
<1>6. id \in Ids /\ guards[id] = Absent
  BY <1>5, FreshIdIsFree DEF IInv, LockTypes, AcquireGuard
<1>7. Free(k)
  BY <1>5 DEF TryRefuses, Free, Kinds
<1>8. GuardsInv'
  BY <1>5, <1>7, AcquireKeepsGuards DEF IInv
<1>9. /\ token' = [token EXCEPT ![s] = id]
      /\ guards' = [guards EXCEPT ![id] = k]
      /\ nextGuardId' = Successor(id)
  BY <1>5 DEF AcquireGuard
<1>10. readers' \in Nat /\ writer' \in BOOLEAN
  BY <1>5, AcquireTypes DEF IInv
<1> HIDE DEF id
<1>11. Owned(s)' = id
  BY <1>6, <1>9, <1>1, IdsArePositive DEF Owned
<1>12. \A r \in Slots \ {s} : Owned(r)' = Owned(r) /\ kind'[r] = kind[r]
  BY <1>9, <1>1, <1>2 DEF Owned
<1>13. OwnersInv'
  BY <1>6, <1>9, <1>11, <1>12, <1>1, <1>3, GrantKeepsOwners
<1>14. SlotPhases'
  BY <1>9, <1>1, <1>2 DEF IInv, SlotPhases
<1>15. nextGuardId' \in Ids
  BY <1>6, <1>9, SuccessorIsId
<1>16. LockTypes'
  BY <1>6, <1>9, <1>10, <1>15, <1>1, <1>2 DEF IInv, LockTypes
<1> QED BY <1>8, <1>13, <1>14, <1>16, <1>4 DEF IInv

\* A future that ends without a guard, whichever way.
LEMMA SlotEndsInv ==
    ASSUME IInv, NEW s \in Slots, PollClosed(s) \/ Result(s) \/ Abandon(s)
    PROVE  IInv'
<1>1. /\ future \in [Slots -> {"none", "pending", "ready"}]
      /\ outcome \in [Slots -> Ids \cup {None, Invalid}]
      /\ token \in [Slots -> Ids \cup {None}]
  BY DEF IInv, LockTypes
<1>2. UNCHANGED <<readers, writer, closed, nextGuardId, nextWaiterId, guards, payload, kind>>
  BY DEF PollClosed, Result, Abandon
<1>3. GuardsInv'
  BY <1>2 DEF IInv, GuardsInv, CountersMatchGuards, WriterAlone
<1>4. UnregisterWaiter(s) /\ \A r \in Slots \ {s} : future'[r] = future[r]
  BY <1>1 DEF PollClosed, Result, Abandon
<1>5. /\ WaitersInv'
      /\ waiters' \in [Ids -> Kinds \cup {Absent}]
      /\ waiterId' \in [Slots -> Ids \cup {None}]
  BY <1>2, <1>4, UnregisterKeepsWaiters
<1>6. future[s] # "none" /\ token[s] = None
  BY <1>1 DEF IInv, SlotPhases, PollClosed, Result, Abandon
<1>7. /\ future' \in [Slots -> {"none", "pending", "ready"}]
      /\ outcome' \in [Slots -> Ids \cup {None, Invalid}]
      /\ token' \in [Slots -> Ids \cup {None}]
  BY <1>1 DEF PollClosed, Result, Abandon
<1>8. SlotPhases'
  BY <1>1, <1>6 DEF IInv, SlotPhases, PollClosed, Result, Abandon
<1>9. Owned(s)' \in {Owned(s), None}
  BY <1>1, <1>6, IdsArePositive DEF Owned, PollClosed, Result, Abandon
<1>10. \A r \in Slots \ {s} : Owned(r)' = Owned(r)
  BY <1>1 DEF Owned, PollClosed, Result, Abandon
<1>11. OwnersInv'
  BY <1>2, <1>9, <1>10 DEF IInv, OwnersInv
<1> QED BY <1>2, <1>3, <1>5, <1>7, <1>8, <1>11 DEF IInv, LockTypes

\* A poll that registers the future as a waiter under a fresh id.
LEMMA PollRegistersInv ==
    ASSUME IInv, NEW s \in Slots, PollRegisters(s)
    PROVE  IInv'
<1> DEFINE id == FreshId(nextWaiterId, waiters)
<1>1. id \in Ids /\ waiters[id] = Absent
  BY FreshIdIsFree DEF IInv, LockTypes, PollRegisters, RegisterWaiter
<1>2. /\ waiters' = [waiters EXCEPT ![id] = kind[s]]
      /\ waiterId' = [waiterId EXCEPT ![s] = id]
      /\ nextWaiterId' = Successor(id)
      /\ UNCHANGED <<readers, writer, closed, nextGuardId, guards, payload, future, kind,
                     outcome, token>>
      /\ future[s] = "pending" /\ waiterId[s] = None
  BY DEF PollRegisters, RegisterWaiter
<1>3. /\ waiters \in [Ids -> Kinds \cup {Absent}] /\ waiterId \in [Slots -> Ids \cup {None}]
      /\ kind \in [Slots -> Kinds]
  BY DEF IInv, LockTypes
<1> HIDE DEF id
<1>4. nextWaiterId' \in Ids
  BY <1>1, <1>2, SuccessorIsId
<1>5. LockTypes'
  BY <1>1, <1>2, <1>3, <1>4 DEF IInv, LockTypes
<1>6. GuardsInv' /\ SlotPhases'
  BY <1>2 DEF IInv, GuardsInv, CountersMatchGuards, WriterAlone, SlotPhases
<1>7. OwnersInv'
  BY <1>2 DEF IInv, OwnersInv, Owned
<1>8. \A r \in Slots : kind[r] # Absent
  BY <1>3 DEF Kinds, Absent
<1>9. \A r \in Slots : waiterId[r] # id
  BY <1>1, <1>8, IdsArePositive DEF IInv, WaitersInv
<1>10. \A r \in Slots : waiterId'[r] # None =>
           future'[r] = "pending" /\ waiters'[waiterId'[r]] = kind'[r]
  BY <1>1, <1>2, <1>3, <1>9 DEF IInv, WaitersInv
<1>11. \A q, r \in Slots : waiterId'[q] # None /\ waiterId'[q] = waiterId'[r] => q = r
  BY <1>2, <1>3, <1>9 DEF IInv, WaitersInv
<1> QED BY <1>5, <1>6, <1>7, <1>10, <1>11 DEF IInv, WaitersInv

\* A guard that is released.
LEMMA GuardUnlockInv ==
    ASSUME IInv, NEW s \in Slots, GuardUnlock(s)
    PROVE  IInv'
<1>1. /\ kind[s] \in Kinds /\ token[s] \in Ids /\ guards[token[s]] = kind[s]
      /\ token' = [token EXCEPT ![s] = None]
      /\ guards' = [guards EXCEPT ![token[s]] = Absent]
      /\ Release(kind[s])
      /\ UNCHANGED <<closed, nextGuardId, nextWaiterId, waiters, payload, future, kind,
                     waiterId, outcome>>
  BY DEF IInv, LockTypes, GuardUnlock
<1>2. /\ token \in [Slots -> Ids \cup {None}] /\ guards \in [Ids -> Kinds \cup {Absent}]
      /\ outcome \in [Slots -> Ids \cup {None, Invalid}]
  BY DEF IInv, LockTypes
<1>3. GuardsInv' /\ readers' \in Nat /\ writer' \in BOOLEAN
  BY <1>1, ReleaseKeepsGuards DEF IInv
<1>4. LockTypes'
  BY <1>1, <1>2, <1>3 DEF IInv, LockTypes
<1>5. SlotPhases'
  BY <1>1, <1>2 DEF IInv, SlotPhases
<1>6. WaitersInv'
  BY <1>1 DEF IInv, WaitersInv
<1>7. Owned(s) = token[s] /\ outcome[s] = None
  BY <1>1, IdsArePositive DEF IInv, SlotPhases, Owned
<1>8. Owned(s)' = None
  BY <1>1, <1>2, <1>7, IdsArePositive DEF Owned
<1>9. \A r \in Slots \ {s} : Owned(r)' = Owned(r)
  BY <1>1, <1>2 DEF Owned
<1>10. \A r \in Slots : Owned(r) \in Ids \cup {None}
  BY <1>2 DEF Owned
<1>11. \A r \in Slots \ {s} : Owned(r) # None => guards'[Owned(r)] = guards[Owned(r)]
  BY <1>1, <1>2, <1>7, <1>10, IdsArePositive DEF IInv, OwnersInv
<1>12. OwnersInv'
  BY <1>1, <1>8, <1>9, <1>11 DEF IInv, OwnersInv
<1> QED BY <1>3, <1>4, <1>5, <1>6, <1>12 DEF IInv

\* The calls that touch neither guards nor waiters.
LEMMA OtherInv ==
    ASSUME IInv,
           \/ Close \/ Drop \/ UNCHANGED vars
           \/ \E s \in Slots, k \in Kinds : Start(s, k)
           \/ \E s \in Slots, v \in Values : WriteGuardSet(s, v)
    PROVE  IInv'
<1>1. CASE \E s \in Slots, k \in Kinds : Start(s, k)
  <2>1. PICK s \in Slots, k \in Kinds : Start(s, k)
    BY <1>1
  <2>2. /\ future' = [future EXCEPT ![s] = "pending"] /\ kind' = [kind EXCEPT ![s] = k]
        /\ UNCHANGED <<readers, writer, closed, nextGuardId, nextWaiterId, guards, waiters,
                       payload, waiterId, outcome, token>>
        /\ future[s] = "none" /\ token[s] = None
    BY <2>1 DEF Start, innerVars, Vacant
  <2>3. future \in [Slots -> {"none", "pending", "ready"}] /\ kind \in [Slots -> Kinds]
    BY DEF IInv, LockTypes
  <2>4. outcome[s] = None /\ waiterId[s] = None
    BY <2>2 DEF IInv, SlotPhases, WaitersInv
  <2>5. LockTypes' /\ SlotPhases'
    BY <2>2, <2>3, <2>4 DEF IInv, LockTypes, SlotPhases
  <2>6. GuardsInv'
    BY <2>2 DEF IInv, GuardsInv, CountersMatchGuards, WriterAlone
  <2>7. Owned(s) = None /\ \A r \in Slots : Owned(r)' = Owned(r)
    BY <2>2, <2>4, IdsArePositive DEF Owned
  <2>8. OwnersInv' /\ WaitersInv'
    BY <2>2, <2>3, <2>4, <2>7 DEF IInv, OwnersInv, WaitersInv
  <2> QED BY <2>5, <2>6, <2>8 DEF IInv
<1>2. CASE \/ Close \/ Drop \/ UNCHANGED vars
           \/ \E s \in Slots, v \in Values : WriteGuardSet(s, v)
  <2>1. /\ UNCHANGED <<readers, writer, nextGuardId, nextWaiterId, guards, waiters>>
        /\ UNCHANGED <<future, kind, waiterId, outcome, token>>
    BY <1>2 DEF Close, Drop, WriteGuardSet, vars, innerVars, slotVars
  <2>2. closed' \in BOOLEAN
    BY <1>2 DEF Close, Drop, WriteGuardSet, vars, innerVars, IInv, LockTypes
  <2>3. payload' \in Values
    BY <1>2 DEF Close, Drop, WriteGuardSet, vars, innerVars, IInv, LockTypes
  <2>4. LockTypes'
    BY <2>1, <2>2, <2>3 DEF IInv, LockTypes
  <2>5. GuardsInv' /\ SlotPhases'
    BY <2>1 DEF IInv, GuardsInv, CountersMatchGuards, WriterAlone, SlotPhases
  <2>6. OwnersInv' /\ WaitersInv'
    BY <2>1 DEF IInv, OwnersInv, WaitersInv, Owned
  <2> QED BY <2>4, <2>5, <2>6 DEF IInv
<1> QED BY <1>1, <1>2

-----------------------------------------------------------------------------
\* A new lock satisfies the invariant.
LEMMA InitInv == Init => IInv
<1> SUFFICES ASSUME Init PROVE IInv
  OBVIOUS
<1>1. 1 \in Ids
  BY IdAssumption DEF Ids
<1>2. LockTypes
  BY <1>1 DEF Init, LockTypes, Kinds
<1>3. \A g \in Ids : guards[g] = Absent
  BY DEF Init
<1>4. ReadGuards = {}
  BY <1>3 DEF ReadGuards, Absent
<1>5. readers = Cardinality(ReadGuards)
  BY <1>4, FS_EmptySet DEF Init
<1>6. ~ writer /\ \A g \in Ids : guards[g] # "Write"
  BY <1>3 DEF Init, Absent
<1>7. GuardsInv
  <2>1. writer = (\E g \in Ids : guards[g] = "Write")
    <3>1. writer = FALSE /\ ~ \E g \in Ids : guards[g] = "Write"
      BY <1>6 DEF Init
    <3> QED BY <3>1, Zenon
  <2>2. WriterAlone
    BY <1>6 DEF WriterAlone
  <2> QED BY <1>5, <2>1, <2>2 DEF GuardsInv, CountersMatchGuards, ReadGuards
<1>8. SlotPhases /\ OwnersInv /\ WaitersInv
  BY IdsArePositive DEF Init, SlotPhases, OwnersInv, WaitersInv, Owned
<1> QED BY <1>2, <1>7, <1>8 DEF IInv

\* Every call preserves it.
LEMMA NextInv == IInv /\ [Next]_vars => IInv'
<1> SUFFICES ASSUME IInv, [Next]_vars PROVE IInv'
  OBVIOUS
<1>1. ASSUME NEW s \in Slots, Poll(s) \/ Result(s) \/ Abandon(s) \/ GuardUnlock(s) PROVE IInv'
  BY <1>1, SlotEndsInv, PollGrantsInv, PollRegistersInv, GuardUnlockInv DEF Poll
<1>2. ASSUME NEW s \in Slots, NEW k \in Kinds, Try(s, k) PROVE IInv'
  BY <1>2, TryInv
<1>3. ASSUME \/ Close \/ Drop \/ UNCHANGED vars
             \/ \E s \in Slots, k \in Kinds : Start(s, k)
             \/ \E s \in Slots, v \in Values : WriteGuardSet(s, v)
      PROVE  IInv'
  BY <1>3, OtherInv
<1> QED BY <1>1, <1>2, <1>3 DEF Next

\* The inductive invariant holds in every reachable state.
THEOREM LockInvariant == Spec => []IInv
<1> QED BY InitInv, NextInv, PTL DEF Spec

\* The counters that rwlock_acquire_guard and rwlock_guard_unlock maintain are
\* those of the guards' map, for any number of slots and any range of ids.
THEOREM CountersExact == Spec => []CountersMatchGuards
<1>1. IInv => CountersMatchGuards
  BY DEF IInv, GuardsInv
<1> QED BY <1>1, LockInvariant, PTL

\* A write guard is alone in the map: readers and writers, and two writers,
\* exclude each other, however polls, tries, cancellations and releases of
\* any number of slots interleave.
THEOREM WritersExclude == Spec => []WriterAlone
<1>1. IInv => WriterAlone
  BY DEF IInv, GuardsInv
<1> QED BY <1>1, LockInvariant, PTL

-----------------------------------------------------------------------------
Reading == {s \in Slots : Owned(s) # None /\ kind[s] = "Read"}
Writing == {s \in Slots : Owned(s) # None /\ kind[s] = "Write"}

\* What a slot owns is an id.
LEMMA OwnedTyped ==
    ASSUME IInv, NEW s \in Slots
    PROVE  Owned(s) \in Ids \cup {None}
BY DEF IInv, LockTypes, Owned

\* A lock that is free for a kind of guard has no owner that would object.
LEMMA FreeMeansFree ==
    ASSUME IInv, NEW k \in Kinds, Free(k)
    PROVE  Writing = {} /\ (k = "Write" => Reading = {})
<1>1. \A g \in Ids : guards[g] # "Write"
  BY DEF Free, IInv, GuardsInv, CountersMatchGuards
<1>2. Writing = {}
  BY <1>1, OwnedTyped DEF Writing, IInv, OwnersInv
<1>3. ASSUME k = "Write" PROVE Reading = {}
  <2>1. \A g \in Ids : guards[g] # "Read"
    BY <1>3, NoReaders DEF Free, IInv
  <2> QED BY <2>1, OwnedTyped DEF Reading, IInv, OwnersInv
<1> QED BY <1>2, <1>3

\* A slot that gains a guard joins the readers or becomes the writer.
LEMMA GrantRefines ==
    ASSUME IInv, NEW s \in Slots, ~closed, Owned(s) = None, Owned(s)' # None,
           kind'[s] \in Kinds, Free(kind'[s]),
           \A r \in Slots \ {s} : Owned(r)' = Owned(r) /\ kind'[r] = kind[r],
           UNCHANGED <<closed, payload>>
    PROVE  Guarded!Next
<1>1. kind'[s] = "Read" \/ kind'[s] = "Write"
  BY DEF Kinds
<1>2. Writing = {} /\ (kind'[s] = "Write" => Reading = {})
  BY FreeMeansFree
<1>3. CASE kind'[s] = "Read"
  <2>1. Reading' = Reading \cup {s} /\ Writing' = Writing
    BY <1>3 DEF Reading, Writing
  <2>2. Guarded!AcquireRead(s)
    BY <2>1, <1>2 DEF Guarded!AcquireRead, Reading, Writing
  <2> QED BY <2>2 DEF Guarded!Next
<1>4. CASE kind'[s] = "Write"
  <2>1. Reading' = Reading /\ Writing' = {s}
    BY <1>2, <1>4 DEF Reading, Writing
  <2>2. Guarded!AcquireWrite(s)
    BY <2>1, <1>2, <1>4 DEF Guarded!AcquireWrite, Reading, Writing
  <2> QED BY <2>2 DEF Guarded!Next
<1> QED BY <1>1, <1>3, <1>4

\* A slot that loses its guard, if it has one, releases the lock.
LEMMA LossRefines ==
    ASSUME NEW s \in Slots, Owned(s)' = None, kind' = kind,
           \A r \in Slots \ {s} : Owned(r)' = Owned(r),
           UNCHANGED <<closed, payload>>
    PROVE  Guarded!Next
<1>1. Reading' = Reading \ {s} /\ Writing' = Writing \ {s}
  BY DEF Reading, Writing
<1>2. Guarded!Release(s)
  BY <1>1 DEF Guarded!Release, Reading, Writing
<1> QED BY <1>2 DEF Guarded!Next

\* A step after which every slot owns what it owned is no step of the lock.
LEMMA SameRefines ==
    ASSUME \A r \in Slots : Owned(r)' = Owned(r) /\ (Owned(r) # None => kind'[r] = kind[r]),
           UNCHANGED <<closed, payload>>
    PROVE  UNCHANGED Guarded!lockVars
<1>1. Reading' = Reading /\ Writing' = Writing
  BY DEF Reading, Writing
<1> QED BY <1>1 DEF Guarded!lockVars, Reading, Writing

\* A step of the reader-writer lock is a step of the abstract lock, or none.
LEMMA StepRefines == IInv /\ IInv' /\ [Next]_vars => [Guarded!Next]_(Guarded!lockVars)
<1> SUFFICES ASSUME IInv, IInv', [Next]_vars
             PROVE  Guarded!Next \/ UNCHANGED Guarded!lockVars
  OBVIOUS
<1>1. ASSUME NEW s \in Slots, PollGrants(s) PROVE Guarded!Next
  <2>1. Owned(s) = None
    BY <1>1, PendingOwnsNothing DEF IInv, PollGrants
  <2>2. FreshId(nextGuardId, guards) \in Ids
    BY <1>1, FreshIdIsFree DEF PollGrants, AcquireGuard, IInv, LockTypes
  <2>3. Owned(s)' # None
    BY <1>1, <2>1, <2>2, IdsArePositive DEF PollGrants, Owned, IInv, LockTypes
  <2>4. kind' = kind /\ kind[s] \in Kinds /\ ~closed /\ UNCHANGED <<closed, payload>>
    BY <1>1 DEF PollGrants, IInv, LockTypes
  <2>5. Free(kind[s])
    BY <1>1 DEF PollGrants, WaiterCanAcquire, NewcomerCanAcquire, IInv, WaitersInv
  <2>6. \A r \in Slots \ {s} : Owned(r)' = Owned(r)
    BY <1>1 DEF PollGrants, Owned, IInv, LockTypes
  <2> QED BY <2>1, <2>3, <2>4, <2>5, <2>6, GrantRefines
<1>2. ASSUME NEW s \in Slots, NEW k \in Kinds, Try(s, k) PROVE Guarded!Next
  <2>1. Owned(s) = None
    BY <1>2 DEF Try, Vacant, Owned, IInv, SlotPhases
  <2>2. FreshId(nextGuardId, guards) \in Ids
    BY <1>2, FreshIdIsFree DEF Try, AcquireGuard, IInv, LockTypes
  <2>3. Owned(s)' # None
    BY <1>2, <2>2, IdsArePositive DEF Try, Owned, IInv, LockTypes
  <2>4. kind'[s] = k /\ ~closed /\ UNCHANGED <<closed, payload>>
    BY <1>2 DEF Try, IInv, LockTypes
  <2>5. Free(k)
    BY <1>2 DEF Try, TryRefuses, Free, Kinds
  <2>6. \A r \in Slots \ {s} : Owned(r)' = Owned(r) /\ kind'[r] = kind[r]
    BY <1>2 DEF Try, Owned, IInv, LockTypes
  <2> QED BY <2>1, <2>3, <2>4, <2>5, <2>6, GrantRefines
<1>3. ASSUME NEW s \in Slots, Abandon(s) PROVE Guarded!Next
  <2>1. Owned(s)' = None
    BY <1>3, IdsArePositive DEF Abandon, Owned, IInv, LockTypes, SlotPhases
  <2>2. \A r \in Slots \ {s} : Owned(r)' = Owned(r)
    BY <1>3 DEF Abandon, Owned, IInv, LockTypes
  <2> QED BY <1>3, <2>1, <2>2, LossRefines DEF Abandon
<1>4. ASSUME NEW s \in Slots, GuardUnlock(s) PROVE Guarded!Next
  <2>1. Owned(s)' = None
    BY <1>4 DEF GuardUnlock, Owned, IInv, LockTypes, SlotPhases
  <2>2. \A r \in Slots \ {s} : Owned(r)' = Owned(r)
    BY <1>4 DEF GuardUnlock, Owned, IInv, LockTypes
  <2> QED BY <1>4, <2>1, <2>2, LossRefines DEF GuardUnlock
<1>5. ASSUME NEW s \in Slots, Result(s) PROVE UNCHANGED Guarded!lockVars
  <2>1. \A r \in Slots : Owned(r)' = Owned(r)
    BY <1>5, IdsArePositive DEF Result, Owned, IInv, LockTypes, SlotPhases
  <2> QED BY <1>5, <2>1, SameRefines DEF Result
<1>6. ASSUME NEW s \in Slots, PollClosed(s) PROVE UNCHANGED Guarded!lockVars
  <2>1. \A r \in Slots : Owned(r)' = Owned(r)
    BY <1>6, IdsArePositive DEF PollClosed, Owned, IInv, LockTypes, SlotPhases
  <2> QED BY <1>6, <2>1, SameRefines DEF PollClosed
<1>7. ASSUME NEW s \in Slots, PollRegisters(s) PROVE UNCHANGED Guarded!lockVars
  <2>1. \A r \in Slots : Owned(r)' = Owned(r)
    BY <1>7 DEF PollRegisters, Owned
  <2> QED BY <1>7, <2>1, SameRefines DEF PollRegisters
<1>8. ASSUME NEW s \in Slots, NEW k \in Kinds, Start(s, k) PROVE UNCHANGED Guarded!lockVars
  <2>1. Owned(s) = None
    BY <1>8 DEF Start, Vacant, Owned, IInv, SlotPhases
  <2>2. \A r \in Slots : Owned(r)' = Owned(r) /\ (Owned(r) # None => kind'[r] = kind[r])
    BY <1>8, <2>1 DEF Start, Owned, IInv, LockTypes
  <2> QED BY <1>8, <2>2, SameRefines DEF Start, innerVars
<1>9. ASSUME NEW s \in Slots, NEW v \in Values, WriteGuardSet(s, v) PROVE Guarded!Next
  <2>1. Owned(s) # None /\ kind[s] = "Write"
    BY <1>9 DEF WriteGuardSet, Owned, IInv, OwnersInv
  <2>2. \A r \in Slots : Owned(r)' = Owned(r)
    BY <1>9 DEF WriteGuardSet, Owned, slotVars
  <2>3. Guarded!Store(s, v)
    BY <1>9, <2>1, <2>2 DEF Guarded!Store, WriteGuardSet, slotVars
  <2> QED BY <2>3 DEF Guarded!Next
<1>10. ASSUME Close \/ Drop PROVE Guarded!Next
  <2>1. \A r \in Slots : Owned(r)' = Owned(r)
    BY <1>10 DEF Close, Drop, Owned, slotVars
  <2>2. Guarded!Close
    BY <1>10, <2>1 DEF Guarded!Close, Close, Drop, slotVars
  <2> QED BY <2>2 DEF Guarded!Next
<1>11. ASSUME UNCHANGED vars PROVE UNCHANGED Guarded!lockVars
  BY <1>11, SameRefines DEF vars, innerVars, slotVars, Owned
<1> QED BY <1>1, <1>2, <1>3, <1>4, <1>5, <1>6, <1>7, <1>8, <1>9, <1>10, <1>11
        DEF Next, Poll

\* The reader-writer lock implements the abstract guarded value: readers or one
\* writer, a payload that only a write guard changes, nothing granted once the
\* lock is closed, whether or not callers abandon futures that were granted.
THEOREM ImplementsLock == Spec => ImplementsGuardedValue
<1>1. Init => Guarded!Init
  BY DEF Init, Guarded!Init, Owned
<1> QED BY <1>1, StepRefines, LockInvariant, PTL DEF Spec, ImplementsGuardedValue, Guarded!Spec

=============================================================================
