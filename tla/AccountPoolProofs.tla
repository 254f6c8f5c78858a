------------------------- MODULE AccountPoolProofs -------------------------
(* Proofs about the account pool, for every set of accounts, leases and     *)
(* callers and every limit.                                                 *)
EXTENDS AccountPool, FiniteSetTheorems, TLAPS

\* NewPool's default makes the limit a positive number, whatever is configured.
LEMMA PerAccountPositive == PerAccount \in Nat \ {0}
  BY ConcurrencyAssumption DEF PerAccount

\* The leases on an account are countable.
LEMMA HoldersFinite ==
  ASSUME NEW id
  PROVE  IsFiniteSet(Holders(id)) /\ Cardinality(Holders(id)) \in Nat
<1>1. Holders(id) \subseteq Leases
  BY DEF Holders
<1> QED
  BY <1>1, LeasesAssumption, FS_Subset, FS_CardinalityType

\* What each change of the file keeps: an account record stays one.
LEMMA ChangedRecords ==
  ASSUME NEW a \in Account, now \in Nat
  PROVE  /\ \A m \in Messages : WithError(a, m) \in Account
         /\ \A b \in Nat : WithCredits(a, b) \in Account
         /\ \A ts \in [tok : Nat, rt : Nat, exp : Nat] : WithTokens(a, ts) \in Account
         /\ \A d \in BOOLEAN : WithDisabled(a, d) \in Account
<1>1. ASSUME NEW m \in Messages PROVE WithError(a, m) \in Account
  <2>1. m.cooldown \in Nat /\ m.err \in ErrorKinds
    BY MessagesAssumption
  <2>2. (IF m.cooldown > 0 THEN now + m.cooldown ELSE a.until) \in Nat
    BY <2>1 DEF Account
  <2> QED
    BY <2>1, <2>2 DEF WithError, Account
<1>2. ASSUME NEW b \in Nat PROVE WithCredits(a, b) \in Account
  BY <1>2 DEF WithCredits, Account, ErrorKinds
<1>3. ASSUME NEW ts \in [tok : Nat, rt : Nat, exp : Nat] PROVE WithTokens(a, ts) \in Account
  BY <1>3 DEF WithTokens, Account, ErrorKinds
<1>4. ASSUME NEW d \in BOOLEAN PROVE WithDisabled(a, d) \in Account
  BY <1>4 DEF WithDisabled, Account, ErrorKinds
<1> QED
  BY <1>1, <1>2, <1>3, <1>4

LEMMA InitInvariant == PoolInit => PoolInvariant
<1> SUFFICES ASSUME PoolInit PROVE PoolInvariant
  OBVIOUS
<1>1. PoolTypeOK
  BY StoredAssumption DEF PoolInit, PoolTypeOK
<1>2. ChoosingHoldsNothing /\ InflightWithinLimit
  BY PerAccountPositive DEF PoolInit, ChoosingHoldsNothing, InflightWithinLimit
<1>3. ASSUME NEW id \in Ids PROVE Holders(id) = {}
  BY NoneAssumption DEF PoolInit, Holders
<1>4. SlotsAccountedFor
  <2>1. ASSUME NEW id \in Ids PROVE Cardinality(Holders(id)) = 0
    BY <1>3, FS_EmptySet, Zenon
  <2>2. ASSUME NEW id \in Ids PROVE inflight[id] = 0 /\ forgotten[id] = 0
    BY DEF PoolInit
  <2> QED
    BY <2>1, <2>2 DEF SlotsAccountedFor
<1> QED
  BY <1>1, <1>2, <1>4 DEF PoolInvariant

\* Steps that touch neither slots nor leases.
LEMMA SlotsUntouched ==
  ASSUME PoolInvariant, PoolTypeOK', UNCHANGED <<inflight, lease, forgotten>>,
         \/ UNCHANGED listing
         \/ \E l \in Leases : listing' = [listing EXCEPT ![l] = NoList]
         \/ \E l \in Leases : /\ lease[l] = NoAccount
                              /\ \E s : listing' = [listing EXCEPT ![l] = s]
  PROVE  PoolInvariant'
<1>1. ChoosingHoldsNothing'
  BY DEF PoolInvariant, PoolTypeOK, ChoosingHoldsNothing
<1>2. InflightWithinLimit'
  BY DEF PoolInvariant, InflightWithinLimit, PerAccount
<1>3. \A id : Holders(id)' = Holders(id)
  BY DEF Holders
<1>4. SlotsAccountedFor'
  BY <1>3 DEF PoolInvariant, SlotsAccountedFor
<1> QED
  BY <1>1, <1>2, <1>4 DEF PoolInvariant

\* Taking a slot: one more lease and one more in flight on the picked account.
LEMMA PickInvariant ==
  ASSUME PoolInvariant, NEW l \in Leases, NEW id \in Ids, Pick(l, id)
  PROVE  PoolInvariant'
<1>1. /\ listing[l] \in Listing
      /\ lease[l] = NoAccount
      /\ inflight[id] < PerAccount
  BY DEF PoolInvariant, PoolTypeOK, ChoosingHoldsNothing, Pick, Selectable
<1>2. rr' \in Nat
  <2> DEFINE files == listing[l].files
  <2>1. IsFiniteSet(Present(files)) /\ id \in Present(files)
    BY IdsAssumption, FS_Subset DEF Pick, Selectable, Present
  <2>2. Cardinality(Present(files)) \in Nat \ {0}
    BY <2>1, FS_CardinalityType, FS_EmptySet
  <2>3. Position(files, id) \in Nat
    <3>1. {j \in Present(files) : j < id} \subseteq Present(files)
      OBVIOUS
    <3> QED
      BY <2>1, <3>1, FS_Subset, FS_CardinalityType DEF Position
  <2> QED
    BY <2>2, <2>3 DEF Pick
<1>3. PoolTypeOK'
  BY <1>1, <1>2 DEF PoolInvariant, PoolTypeOK, Pick
<1>4. ChoosingHoldsNothing'
  BY DEF PoolInvariant, PoolTypeOK, ChoosingHoldsNothing, Pick
<1>5. InflightWithinLimit'
  BY <1>1, PerAccountPositive
     DEF PoolInvariant, PoolTypeOK, InflightWithinLimit, Pick, PerAccount
<1>6. ASSUME NEW k \in Ids PROVE inflight'[k] + forgotten'[k] = Cardinality(Holders(k)')
  <2>1. CASE k = id
    <3>1. Holders(k)' = Holders(k) \cup {l} /\ l \notin Holders(k)
      BY <1>1, <2>1, NoneAssumption DEF PoolInvariant, PoolTypeOK, Pick, Holders
    <3>2. Cardinality(Holders(k)') = Cardinality(Holders(k)) + 1
      BY <3>1, HoldersFinite, FS_AddElement
    <3> QED
      BY <2>1, <3>2, HoldersFinite DEF PoolInvariant, PoolTypeOK, SlotsAccountedFor, Pick
  <2>2. CASE k # id
    <3>1. Holders(k)' = Holders(k)
      BY <1>1, <2>2, NoneAssumption DEF PoolInvariant, PoolTypeOK, Pick, Holders
    <3> QED
      BY <2>2, <3>1 DEF PoolInvariant, PoolTypeOK, SlotsAccountedFor, Pick
  <2> QED
    BY <2>1, <2>2
<1> QED
  BY <1>3, <1>4, <1>5, <1>6 DEF PoolInvariant, SlotsAccountedFor

\* Giving a slot back: from the count, or from the slots a Delete forgot.
LEMMA ReleaseInvariant ==
  ASSUME PoolInvariant, NEW l \in Leases, Release(l)
  PROVE  PoolInvariant'
<1>0. PICK id \in Ids : id = lease[l]
  BY DEF PoolInvariant, PoolTypeOK, Release
<1>1. id = lease[l] /\ listing[l] = NoList
  BY <1>0 DEF PoolInvariant, PoolTypeOK, ChoosingHoldsNothing, Release
<1>2. Holders(id)' = Holders(id) \ {l} /\ l \in Holders(id)
  BY <1>1, NoneAssumption DEF PoolInvariant, PoolTypeOK, Release, Holders
<1>3. Cardinality(Holders(id)') = Cardinality(Holders(id)) - 1
  BY <1>2, HoldersFinite, FS_RemoveElement
<1>4. Cardinality(Holders(id)) # 0
  BY <1>2, HoldersFinite, FS_EmptySet
<1>5. inflight[id] > 0 \/ forgotten[id] > 0
  BY <1>1, <1>4, HoldersFinite DEF PoolInvariant, PoolTypeOK, SlotsAccountedFor
<1>6. PoolTypeOK'
  BY <1>1, <1>5 DEF PoolInvariant, PoolTypeOK, Release
<1>7. ChoosingHoldsNothing'
  BY DEF PoolInvariant, PoolTypeOK, ChoosingHoldsNothing, Release
<1>8. InflightWithinLimit'
  BY <1>1, PerAccountPositive
     DEF PoolInvariant, PoolTypeOK, InflightWithinLimit, Release, PerAccount
<1>9. ASSUME NEW k \in Ids PROVE inflight'[k] + forgotten'[k] = Cardinality(Holders(k)')
  <2>1. CASE k = id
    BY <1>1, <1>3, <1>5, <2>1, HoldersFinite
       DEF PoolInvariant, PoolTypeOK, SlotsAccountedFor, Release
  <2>2. CASE k # id
    <3>1. Holders(k)' = Holders(k)
      BY <1>1, <2>2, NoneAssumption DEF PoolInvariant, PoolTypeOK, Release, Holders
    <3> QED
      BY <1>1, <2>2, <3>1 DEF PoolInvariant, PoolTypeOK, SlotsAccountedFor, Release
  <2> QED
    BY <2>1, <2>2
<1> QED
  BY <1>6, <1>7, <1>8, <1>9 DEF PoolInvariant, SlotsAccountedFor

\* Delete moves the account's count to the forgotten slots.
LEMMA DeleteInvariant ==
  ASSUME PoolInvariant, NEW c \in Callers, NEW id \in Ids, Delete(c, id)
  PROVE  PoolInvariant'
<1>1. PoolTypeOK'
  BY DEF PoolInvariant, PoolTypeOK, Delete, PendingWrite, Methods
<1>2. ChoosingHoldsNothing'
  BY DEF PoolInvariant, ChoosingHoldsNothing, Delete
<1>3. InflightWithinLimit'
  BY PerAccountPositive
     DEF PoolInvariant, PoolTypeOK, InflightWithinLimit, Delete, PerAccount
<1>4. \A k : Holders(k)' = Holders(k)
  BY DEF Delete, Holders
<1>5. SlotsAccountedFor'
  BY <1>4 DEF PoolInvariant, PoolTypeOK, SlotsAccountedFor, Delete
<1> QED
  BY <1>1, <1>2, <1>3, <1>5 DEF PoolInvariant

LEMMA RestartInvariant ==
  ASSUME PoolInvariant, Restart
  PROVE  PoolInvariant'
<1>1. PoolTypeOK'
  BY DEF PoolInvariant, PoolTypeOK, Restart, PendingWrite
<1>2. ChoosingHoldsNothing' /\ InflightWithinLimit'
  BY PerAccountPositive
     DEF Restart, ChoosingHoldsNothing, InflightWithinLimit, PerAccount
<1>3. ASSUME NEW id \in Ids PROVE Holders(id)' = {}
  BY NoneAssumption DEF Restart, Holders
<1>4. SlotsAccountedFor'
  <2>1. ASSUME NEW id \in Ids PROVE Cardinality(Holders(id)') = 0
    BY <1>3, FS_EmptySet, Zenon
  <2>2. ASSUME NEW id \in Ids PROVE inflight'[id] = 0 /\ forgotten'[id] = 0
    BY DEF Restart
  <2> QED
    BY <2>1, <2>2 DEF SlotsAccountedFor
<1> QED
  BY <1>1, <1>2, <1>4 DEF PoolInvariant

\* Listing and failing to select touch the lease's listing only.
LEMMA ListingInvariant ==
  ASSUME PoolInvariant, NEW l \in Leases, ListAccounts(l) \/ SelectFails(l)
  PROVE  PoolInvariant'
<1>1. PoolTypeOK'
  BY DEF PoolInvariant, PoolTypeOK, ListAccounts, SelectFails, Listing
<1>2. CASE ListAccounts(l)
  <2>1. \E s : listing' = [listing EXCEPT ![l] = s]
    BY <1>2 DEF ListAccounts
  <2> QED
    BY <1>1, <1>2, <2>1, SlotsUntouched DEF ListAccounts
<1>3. CASE SelectFails(l)
  BY <1>1, <1>3, SlotsUntouched DEF SelectFails
<1> QED
  BY <1>2, <1>3

\* Every method that reads a file only prepares a write of an account record.
LEMMA ReadInvariant ==
  ASSUME PoolInvariant, NEW c \in Callers, NEW id \in Ids, NEW op \in Methods, NEW changed,
         disk[id] \in Account => changed \in Account,
         Read(c, op, id, changed)
  PROVE  PoolInvariant'
<1>1. disk[id] \in Account
  BY DEF PoolInvariant, PoolTypeOK, Read
<1>2. [op |-> op, id |-> id, write |-> changed] \in PendingWrite
  BY <1>1 DEF PendingWrite
<1>3. PoolTypeOK'
  BY <1>2 DEF PoolInvariant, PoolTypeOK, Read
<1> QED
  BY <1>3, SlotsUntouched DEF Read

\* What the methods write is what ChangedRecords says of the record they read.
LEMMA MethodInvariant ==
  ASSUME PoolInvariant, NEW c \in Callers, NEW id \in Ids,
         \/ \E m \in Messages : MarkError(c, id, m)
         \/ \E b \in Nat : UpdateCredits(c, id, b)
         \/ \E ts \in [tok : Nat, rt : Nat, exp : Nat] : UpdateTokens(c, id, ts)
         \/ \E d \in BOOLEAN : SetDisabled(c, id, d)
         \/ \E b \in Nat : ProbeSucceeds(c, id, b)
  PROVE  PoolInvariant'
<1>1. now \in Nat
  BY DEF PoolInvariant, PoolTypeOK
<1>2. CASE \E m \in Messages : MarkError(c, id, m)
  BY <1>1, <1>2, ChangedRecords, ReadInvariant DEF MarkError, Methods
<1>3. CASE \E b \in Nat : UpdateCredits(c, id, b)
  BY <1>1, <1>3, ChangedRecords, ReadInvariant DEF UpdateCredits, Methods
<1>4. CASE \E ts \in [tok : Nat, rt : Nat, exp : Nat] : UpdateTokens(c, id, ts)
  BY <1>1, <1>4, ChangedRecords, ReadInvariant DEF UpdateTokens, Methods
<1>5. CASE \E d \in BOOLEAN : SetDisabled(c, id, d)
  BY <1>1, <1>5, ChangedRecords, ReadInvariant DEF SetDisabled, Methods
<1>6. CASE \E b \in Nat : ProbeSucceeds(c, id, b)
  <2>1. PICK b \in Nat : ProbeSucceeds(c, id, b)
    BY <1>6
  <2>2. ASSUME disk[id] \in Account
        PROVE  [WithCredits(disk[id], b) EXCEPT !.auth = "valid"] \in Account
    <3>1. WithCredits(disk[id], b) \in Account
      BY <1>1, <2>2, ChangedRecords
    <3> QED
      BY <3>1 DEF Account, AuthStatuses
  <2> QED
    BY <2>1, <2>2, ReadInvariant DEF ProbeSucceeds, Methods
<1> QED
  BY <1>2, <1>3, <1>4, <1>5, <1>6

LEMMA CallInvariant ==
  ASSUME PoolInvariant, NEW c \in Callers, StartCall(c)
  PROVE  PoolInvariant'
<1>1. PICK id \in Ids :
         \/ \E m \in Messages : MarkError(c, id, m)
         \/ \E b \in Balances : UpdateCredits(c, id, b)
         \/ \E ts \in TokenSets : UpdateTokens(c, id, ts)
         \/ \E d \in BOOLEAN : SetDisabled(c, id, d)
         \/ \E b \in Balances : ProbeSucceeds(c, id, b)
         \/ Delete(c, id)
  BY DEF StartCall
<1> QED
  BY <1>1, BalancesAssumption, TokenSetsAssumption, MethodInvariant, DeleteInvariant

\* Writes, saves and the clock leave slots and leases alone.
LEMMA FileInvariant ==
  ASSUME PoolInvariant,
         \/ \E c \in Callers : Write(c)
         \/ \E id \in Ids, a \in Account : Save(id, a)
         \/ Tick
  PROVE  PoolInvariant'
<1>1. CASE \E c \in Callers : Write(c)
  <2>1. PoolTypeOK'
    BY <1>1 DEF PoolInvariant, PoolTypeOK, Write, PendingWrite
  <2> QED
    BY <1>1, <2>1, SlotsUntouched DEF Write
<1>2. CASE \E id \in Ids, a \in Account : Save(id, a)
  <2>1. PoolTypeOK'
    BY <1>2 DEF PoolInvariant, PoolTypeOK, Save
  <2> QED
    BY <1>2, <2>1, SlotsUntouched DEF Save
<1>3. CASE Tick
  <2>1. PoolTypeOK'
    BY <1>3 DEF PoolInvariant, PoolTypeOK, Tick
  <2> QED
    BY <1>3, <2>1, SlotsUntouched DEF Tick
<1> QED
  BY <1>1, <1>2, <1>3

LEMMA NextInvariant == PoolInvariant /\ [PoolNext]_poolVars => PoolInvariant'
<1> SUFFICES ASSUME PoolInvariant, [PoolNext]_poolVars PROVE PoolInvariant'
  OBVIOUS
<1>1. ASSUME NEW l \in Leases, LeaseStep(l) PROVE PoolInvariant'
  BY <1>1, PickInvariant, ReleaseInvariant, ListingInvariant DEF LeaseStep
<1>2. ASSUME NEW c \in Callers, StartCall(c) PROVE PoolInvariant'
  BY <1>2, CallInvariant
<1>3. CASE UNCHANGED poolVars
  <2>1. PoolTypeOK'
    BY <1>3 DEF PoolInvariant, PoolTypeOK, poolVars
  <2> QED
    BY <1>3, <2>1, SlotsUntouched DEF poolVars
<1> QED
  BY <1>1, <1>2, <1>3, StoredAssumption, FileInvariant, RestartInvariant DEF PoolNext

\* Every slot is accounted for in every behaviour of the pool: none leaks, none
\* is freed twice.
THEOREM PoolInvariantHolds == PoolSpec => []PoolInvariant
  BY InitInvariant, NextInvariant, PTL DEF PoolSpec

LEMMA InvariantLimits == PoolInvariant => WithinConcurrency
<1> SUFFICES ASSUME PoolInvariant, NEW id \in Ids, forgotten[id] = 0
             PROVE  Cardinality(Holders(id)) <= PerAccount
  BY DEF WithinConcurrency
<1> QED
  BY HoldersFinite, PerAccountPositive
     DEF PoolInvariant, PoolTypeOK, SlotsAccountedFor, InflightWithinLimit

\* The per-account limit, for every number of accounts, leases and callers and
\* every configured limit.
THEOREM ConcurrencyLimited == PoolSpec => []WithinConcurrency
  BY InvariantLimits, PoolInvariantHolds, PTL

-----------------------------------------------------------------------------
(* The pool implements the semaphore as long as nothing is deleted.         *)

NothingForgotten == \A id \in Ids : forgotten[id] = 0

\* Then the account of every open lease is in flight: Release always finds its slot.
LEMMA HeldIsInFlight ==
  ASSUME PoolInvariant, NothingForgotten,
         NEW l \in Leases, NEW id \in Ids, id = lease[l]
  PROVE  inflight[id] > 0
<1>1. Holders(id) # {}
  BY DEF Holders
<1> QED
  BY <1>1, HoldersFinite, FS_EmptySet
     DEF PoolInvariant, PoolTypeOK, SlotsAccountedFor, NothingForgotten

LEMMA ForgottenStep ==
  ASSUME "Delete" \notin Calls, PoolInvariant, NothingForgotten, [PoolNext]_poolVars
  PROVE  NothingForgotten'
<1>1. ASSUME NEW l \in Leases, Release(l) PROVE NothingForgotten'
  <2>0. PICK id \in Ids : id = lease[l]
    BY <1>1 DEF PoolInvariant, PoolTypeOK, Release
  <2> QED
    BY <1>1, <2>0, HeldIsInFlight DEF Release, NothingForgotten
<1>2. ASSUME NEW l \in Leases, LeaseStep(l) PROVE NothingForgotten'
  BY <1>1, <1>2 DEF LeaseStep, ListAccounts, Pick, SelectFails, NothingForgotten
<1>3. ASSUME NEW c \in Callers, StartCall(c) \/ Write(c) PROVE NothingForgotten'
  BY <1>3 DEF StartCall, MarkError, UpdateCredits, UpdateTokens, SetDisabled,
              ProbeSucceeds, Read, Write, NothingForgotten
<1>4. CASE Restart
  BY <1>4 DEF Restart, NothingForgotten
<1>5. CASE Tick \/ (\E id \in Ids, a \in StoredAccounts : Save(id, a)) \/ UNCHANGED poolVars
  BY <1>5 DEF Tick, Save, poolVars, NothingForgotten
<1> QED
  BY <1>2, <1>3, <1>4, <1>5 DEF PoolNext

\* The mapped semaphore follows the in-flight counts.
LEMMA FreeSlotsFollow ==
  ASSUME inflight \in [Ids -> Nat], NEW id \in Ids, NEW n \in Nat,
         inflight' = [inflight EXCEPT ![id] = n]
  PROVE  /\ FreeSlots[id] = PerAccount - inflight[id]
         /\ FreeSlots' = [FreeSlots EXCEPT ![id] = PerAccount - n]
  BY DEF FreeSlots, PerAccount

\* Picks acquire, releases free, a restart frees all, the rest stutters.
LEMMA SemaphoreStep ==
  ASSUME "Delete" \notin Calls, PoolInvariant, NothingForgotten, [PoolNext]_poolVars
  PROVE  [Semaphore!SemaphoreNext]_<<FreeSlots, lease>>
<1>1. ASSUME NEW l \in Leases, NEW id \in Ids, Pick(l, id)
      PROVE  Semaphore!Acquire(l, id)
  <2>1. lease[l] = NoAccount /\ inflight[id] \in Nat /\ inflight[id] < PerAccount
    BY <1>1 DEF PoolInvariant, PoolTypeOK, ChoosingHoldsNothing, Pick, Selectable
  <2>2. /\ inflight \in [Ids -> Nat]
        /\ inflight' = [inflight EXCEPT ![id] = inflight[id] + 1]
    BY <1>1 DEF PoolInvariant, PoolTypeOK, Pick
  <2>3. /\ FreeSlots[id] = PerAccount - inflight[id]
        /\ FreeSlots' = [FreeSlots EXCEPT ![id] = PerAccount - (inflight[id] + 1)]
    <3>1. inflight[id] + 1 \in Nat
      BY <2>1
    <3> QED
      BY <2>2, <3>1, FreeSlotsFollow, Zenon
  <2>4. FreeSlots[id] > 0 /\ FreeSlots' = [FreeSlots EXCEPT ![id] = FreeSlots[id] - 1]
    <3>1. PerAccount - (inflight[id] + 1) = (PerAccount - inflight[id]) - 1
      BY <2>1, PerAccountPositive
    <3>2. PerAccount - inflight[id] > 0
      BY <2>1, PerAccountPositive
    <3> QED
      BY <2>3, <3>1, <3>2, Zenon
  <2> QED
    BY <1>1, <2>1, <2>4 DEF Semaphore!Acquire, Pick
<1>2. ASSUME NEW l \in Leases, Release(l) PROVE Semaphore!Free(l)
  <2>0. PICK id \in Ids : id = lease[l]
    BY <1>2 DEF PoolInvariant, PoolTypeOK, Release
  <2>1. inflight[id] \in Nat /\ inflight[id] > 0
    BY <1>2, <2>0, HeldIsInFlight DEF PoolInvariant, PoolTypeOK
  <2>2. /\ inflight \in [Ids -> Nat]
        /\ inflight' = [inflight EXCEPT ![id] = inflight[id] - 1]
    BY <1>2, <2>0, <2>1 DEF PoolInvariant, PoolTypeOK, Release
  <2>3. /\ FreeSlots[id] = PerAccount - inflight[id]
        /\ FreeSlots' = [FreeSlots EXCEPT ![id] = PerAccount - (inflight[id] - 1)]
    <3>1. inflight[id] - 1 \in Nat
      BY <2>1
    <3> QED
      BY <2>2, <3>1, FreeSlotsFollow, Zenon
  <2>4. FreeSlots' = [FreeSlots EXCEPT ![id] = FreeSlots[id] + 1]
    <3>1. PerAccount - (inflight[id] - 1) = (PerAccount - inflight[id]) + 1
      BY <2>1, PerAccountPositive
    <3> QED
      BY <2>3, <3>1, Zenon
  <2> QED
    BY <1>2, <2>0, <2>4 DEF Semaphore!Free, Release
<1>3. ASSUME UNCHANGED <<inflight, lease>> PROVE UNCHANGED <<FreeSlots, lease>>
  BY <1>3 DEF FreeSlots, PerAccount
<1>4. ASSUME NEW l \in Leases, LeaseStep(l)
      PROVE  Semaphore!SemaphoreNext \/ UNCHANGED <<FreeSlots, lease>>
  BY <1>1, <1>2, <1>3, <1>4
     DEF LeaseStep, ListAccounts, SelectFails, Semaphore!SemaphoreNext
<1>5. ASSUME NEW c \in Callers, StartCall(c) \/ Write(c)
      PROVE  UNCHANGED <<FreeSlots, lease>>
  BY <1>3, <1>5 DEF StartCall, MarkError, UpdateCredits, UpdateTokens, SetDisabled,
                    ProbeSucceeds, Read, Write
<1>6. CASE Restart
  <2>1. FreeSlots' = [id \in Ids |-> PerAccount]
    BY <1>6, PerAccountPositive DEF Restart, FreeSlots, PerAccount
  <2> QED
    BY <1>6, <2>1 DEF Restart, Semaphore!SemaphoreNext, Semaphore!FreeAll
<1>7. CASE Tick \/ (\E id \in Ids, a \in StoredAccounts : Save(id, a)) \/ UNCHANGED poolVars
  BY <1>3, <1>7 DEF Tick, Save, poolVars
<1> QED
  BY <1>4, <1>5, <1>6, <1>7 DEF PoolNext

\* Without deletions the pool is a counting semaphore per account, restarts and
\* every other call on the account files included.
THEOREM PoolImplementsSemaphore ==
  ASSUME "Delete" \notin Calls
  PROVE  PoolSpec => ImplementsSemaphore
<1>1. PoolInit => NothingForgotten /\ Semaphore!SemaphoreInit
  BY PerAccountPositive
     DEF PoolInit, NothingForgotten, Semaphore!SemaphoreInit, FreeSlots
<1>2. PoolInvariant /\ NothingForgotten /\ [PoolNext]_poolVars => NothingForgotten'
  BY ForgottenStep
<1>3. PoolInvariant /\ NothingForgotten /\ [PoolNext]_poolVars
        => [Semaphore!SemaphoreNext]_<<FreeSlots, lease>>
  BY SemaphoreStep
<1> QED
  BY <1>1, <1>2, <1>3, PoolInvariantHolds, PTL
     DEF PoolSpec, ImplementsSemaphore, Semaphore!SemaphoreSpec, Semaphore!semaphoreVars

-----------------------------------------------------------------------------
(* The scheduler's verdict on a record *)

\* StatusLabel comes to "valid" only on the path that asks what Healthy asks.
THEOREM ValidAlwaysSelectable == PoolSpec => []ValidMeansSelectable
<1>1. ASSUME NEW a \in Account, NEW t \in Nat, StatusLabel(a, t) = "valid"
      PROVE  Healthy(a, 0, t)
  <2>1. ~a.disabled /\ ~CoolingDown(a, t) /\ a.tok # 0 /\ ~TokenExpired(a, t)
    BY <1>1, Zenon DEF StatusLabel
  <2>2. ~(a.credits > 0 /\ a.credits < 0)
    BY DEF Account
  <2> QED
    BY <2>1, <2>2 DEF Healthy
<1>2. PoolInvariant => ValidMeansSelectable
  BY <1>1 DEF PoolInvariant, PoolTypeOK, ValidMeansSelectable
<1> QED
  BY <1>2, PoolInvariantHolds, PTL

\* The clock only goes forward.
LEMMA ClockStep == PoolInvariant /\ [PoolNext]_poolVars => now \in Nat /\ now' \in {now, now + 1}
<1> SUFFICES ASSUME PoolInvariant, [PoolNext]_poolVars PROVE now \in Nat /\ now' \in {now, now + 1}
  OBVIOUS
<1>1. now \in Nat
  BY DEF PoolInvariant, PoolTypeOK
<1>2. ASSUME NEW l \in Leases, LeaseStep(l) PROVE now' = now
  BY <1>2 DEF LeaseStep, ListAccounts, Pick, SelectFails, Release
<1>3. ASSUME NEW c \in Callers, StartCall(c) \/ Write(c) PROVE now' = now
  BY <1>3 DEF StartCall, MarkError, UpdateCredits, UpdateTokens, SetDisabled, ProbeSucceeds,
              Read, Delete, Write
<1>4. CASE Restart \/ (\E id \in Ids, a \in StoredAccounts : Save(id, a)) \/ UNCHANGED poolVars
  BY <1>1, <1>4 DEF Restart, Save, poolVars
<1>5. CASE Tick
  BY <1>1, <1>5 DEF Tick
<1> QED
  BY <1>1, <1>2, <1>3, <1>4, <1>5 DEF PoolNext

\* A token that has expired stays so, hence time alone makes a record healthy only
\* by ending its cooldown.
LEMMA TimeHealsCooldownsOnly ==
  ASSUME NEW a \in Account, NEW t \in Nat, NEW u \in {t, t + 1},
         Healthy(a, MinCredits, u), ~CoolingDown(a, t)
  PROVE  Healthy(a, MinCredits, t)
<1>1. TokenExpired(a, t) => TokenExpired(a, u)
  BY HealthAssumption DEF TokenExpired, Account
<1> QED
  BY <1>1 DEF Healthy

THEOREM TimeHealsNobodyElse == PoolSpec => OnlyCooldownsHeal
<1>1. PoolInvariant /\ [PoolNext]_poolVars =>
        \A id \in Ids :
          (disk[id] # NoAccount /\ disk'[id] = disk[id] /\ Healthy(disk[id], MinCredits, now'))
              => Healthy(disk[id], MinCredits, now) \/ CoolingDown(disk[id], now)
  <2> SUFFICES ASSUME PoolInvariant, [PoolNext]_poolVars, NEW id \in Ids,
                      disk[id] # NoAccount, Healthy(disk[id], MinCredits, now'),
                      ~CoolingDown(disk[id], now)
               PROVE  Healthy(disk[id], MinCredits, now)
    OBVIOUS
  <2>1. disk[id] \in Account
    BY DEF PoolInvariant, PoolTypeOK
  <2>2. now \in Nat /\ now' \in {now, now + 1}
    BY ClockStep
  <2> QED
    BY <2>1, <2>2, TimeHealsCooldownsOnly
<1> QED
  BY <1>1, PoolInvariantHolds, PTL DEF PoolSpec, OnlyCooldownsHeal
=============================================================================
