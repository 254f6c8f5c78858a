---------------------------- MODULE AccountPool ----------------------------
(* The account pool (internal/account/pool.go) over the account files       *)
(* (internal/account/store.go), used by any number of goroutines.           *)
(*                                                                          *)
(* A LEASE is one Select ... defer Release pair of a handler: it lists the  *)
(* files under the store's lock, picks an account and counts it in flight   *)
(* under the pool's lock, and releases it later.  A CALL is one of the      *)
(* methods that read an account file, change the copy and write the whole   *)
(* file back; the read and the write each take the store's lock, nothing    *)
(* holds the two together.  The store's files survive a restart, everything *)
(* else does not.                                                           *)
EXTENDS AccountHealth, Integers, FiniteSets

CONSTANTS
    Ids,                \* account ids, numbered in file-name order
    Leases,             \* Select ... Release pairs that may be in progress
    Callers,            \* goroutines inside a read-change-write method
    AccountConcurrency, \* config account_concurrency
    Calls,              \* the pool methods the clients of this instance use
    Messages,           \* upstream failures: [cooldown, err]
    Balances,           \* upstream credit balances
    TokenSets,          \* token responses: [tok, rt, exp]
    StoredAccounts,     \* account records found on disk at startup or saved whole
    NoAccount, NoList, NoCall,
    MaxNow              \* bound on the clock

ASSUME IdsAssumption == Ids \subseteq Nat /\ IsFiniteSet(Ids)
ASSUME LeasesAssumption == IsFiniteSet(Leases)
ASSUME ConcurrencyAssumption == AccountConcurrency \in Int
ASSUME MessagesAssumption == Messages \subseteq [cooldown : Nat, err : ErrorKinds]
ASSUME BalancesAssumption == Balances \subseteq Nat
ASSUME TokenSetsAssumption == TokenSets \subseteq [tok : Nat, rt : Nat, exp : Nat]
ASSUME StoredAssumption == StoredAccounts \subseteq Account

\* The pool's methods that change an account's file, Probe being the tail of a probe.
Methods == {"MarkError", "UpdateCredits", "UpdateTokens", "SetDisabled", "Probe", "Delete"}

ASSUME NoneAssumption ==
    /\ NoAccount \notin Ids
    /\ NoAccount \notin Account
    /\ NoList \notin [at : Nat, files : [Ids -> Account \union {NoAccount}]]
    /\ NoCall \notin [op : Methods, id : Ids, write : Account \union {NoAccount}]

VARIABLES
    disk,       \* data/accounts/<id>.json, NoAccount if there is no readable file
    inflight,   \* Pool.inflight
    rr,         \* Pool.rr, the position at which the next scan starts
    now,        \* the wall clock
    listing,    \* listing[l]: what lease l's Select read from disk, and when
    lease,      \* lease[l]: the account lease l must release
    call,       \* call[c]: the file the call of goroutine c is about to write
    forgotten   \* auxiliary: slots in use that Delete dropped from inflight

poolVars == <<disk, inflight, rr, now, listing, lease, call, forgotten>>

PerAccount == IF AccountConcurrency <= 0 THEN 1 ELSE AccountConcurrency

Listing == [at : Nat, files : [Ids -> Account \union {NoAccount}]]

\* A file to write; NoAccount stands for the removal of the file.
PendingWrite == [op : Methods, id : Ids, write : Account \union {NoAccount}]

Holders(id) == {l \in Leases : lease[l] = id}

PoolInit ==
    /\ disk \in [Ids -> StoredAccounts \union {NoAccount}]
    /\ inflight = [id \in Ids |-> 0]
    /\ rr = 0
    /\ now = 0
    /\ listing = [l \in Leases |-> NoList]
    /\ lease = [l \in Leases |-> NoAccount]
    /\ call = [c \in Callers |-> NoCall]
    /\ forgotten = [id \in Ids |-> 0]

-----------------------------------------------------------------------------
(* Select and Release *)

\* store.List(): the readable account files, read before the pool is locked.
ListAccounts(l) ==
    /\ lease[l] = NoAccount
    /\ listing[l] = NoList
    /\ listing' = [listing EXCEPT ![l] = [at |-> now, files |-> disk]]
    /\ UNCHANGED <<disk, inflight, rr, now, lease, call, forgotten>>

Present(files) == {id \in Ids : files[id] # NoAccount}

\* Position of an account in the listing, which is in file-name order.
Position(files, id) == Cardinality({j \in Present(files) : j < id})

\* How many entries the round-robin scan looks at before this account.
ScanOffset(files, id) ==
    (Position(files, id) - rr) % Cardinality(Present(files))

\* Mutant of Selectable: one lease too many.
SelectableOffByOne(files, t) ==
    {id \in Present(files) : /\ Healthy(files[id], MinCredits, t)
                             /\ inflight[id] <= PerAccount}

Selectable(files, t) ==
    {id \in Present(files) : /\ Healthy(files[id], MinCredits, t)
                             /\ inflight[id] < PerAccount}

\* Mutant of Pick: rr stays at the account that was picked.
PickStays(l, id) ==
    /\ listing[l] # NoList
    /\ \E t \in listing[l].at .. now :
          /\ id \in Selectable(listing[l].files, t)
          /\ \A j \in Selectable(listing[l].files, t) :
                ScanOffset(listing[l].files, id) <= ScanOffset(listing[l].files, j)
    /\ rr' = Position(listing[l].files, id)
    /\ inflight' = [inflight EXCEPT ![id] = @ + 1]
    /\ lease' = [lease EXCEPT ![l] = id]
    /\ listing' = [listing EXCEPT ![l] = NoList]
    /\ UNCHANGED <<disk, now, call, forgotten>>

\* Select's scan, under the pool's lock: the first selectable account wins.
\* The clock was read between the listing and the lock.
Pick(l, id) ==
    /\ listing[l] # NoList
    /\ \E t \in listing[l].at .. now :
          /\ id \in Selectable(listing[l].files, t)
          /\ \A j \in Selectable(listing[l].files, t) :
                ScanOffset(listing[l].files, id) <= ScanOffset(listing[l].files, j)
    /\ rr' = (Position(listing[l].files, id) + 1) % Cardinality(Present(listing[l].files))
    /\ inflight' = [inflight EXCEPT ![id] = @ + 1]
    /\ lease' = [lease EXCEPT ![l] = id]
    /\ listing' = [listing EXCEPT ![l] = NoList]
    /\ UNCHANGED <<disk, now, call, forgotten>>

\* "no accounts configured" or "no available account".
SelectFails(l) ==
    /\ listing[l] # NoList
    /\ \E t \in listing[l].at .. now : Selectable(listing[l].files, t) = {}
    /\ listing' = [listing EXCEPT ![l] = NoList]
    /\ UNCHANGED <<disk, inflight, rr, now, lease, call, forgotten>>

\* Mutant of Release: the lease ends and its slot is never freed.
ReleaseLeaks(l) ==
    /\ lease[l] # NoAccount
    /\ lease' = [lease EXCEPT ![l] = NoAccount]
    /\ UNCHANGED <<disk, inflight, rr, now, listing, call, forgotten>>

Release(l) ==
    /\ lease[l] # NoAccount
    /\ IF inflight[lease[l]] > 0
       THEN /\ inflight' = [inflight EXCEPT ![lease[l]] = @ - 1]
            /\ UNCHANGED forgotten
       ELSE /\ forgotten' = [forgotten EXCEPT ![lease[l]] = @ - 1]
            /\ UNCHANGED inflight
    /\ lease' = [lease EXCEPT ![l] = NoAccount]
    /\ UNCHANGED <<disk, rr, now, listing, call>>

-----------------------------------------------------------------------------
(* The methods that read a file, change the copy and write it back.  What   *)
(* each of them changes is a function of the record it read.                *)

WithError(a, m) ==
    [a EXCEPT !.err = m.err, !.until = IF m.cooldown > 0 THEN now + m.cooldown ELSE @]

WithCredits(a, balance) == [a EXCEPT !.credits = balance, !.err = "none"]

WithTokens(a, ts) ==
    [a EXCEPT !.tok = IF ts.tok # 0 THEN ts.tok ELSE @,
              !.rt = IF ts.rt # 0 THEN ts.rt ELSE @,
              !.exp = IF ts.exp > 0 THEN ts.exp ELSE @,
              !.err = "none",
              !.until = 0]

WithDisabled(a, disabled) ==
    [a EXCEPT !.disabled = disabled,
              !.until = IF disabled THEN @ ELSE 0,
              !.err = IF disabled THEN @ ELSE "none"]

\* store.Get and the change of the copy; the method returns if there is no file.
Read(c, op, id, changed) ==
    /\ call[c] = NoCall
    /\ disk[id] # NoAccount
    /\ call' = [call EXCEPT ![c] = [op |-> op, id |-> id, write |-> changed]]
    /\ UNCHANGED <<disk, inflight, rr, now, listing, lease, forgotten>>

MarkError(c, id, m) == Read(c, "MarkError", id, WithError(disk[id], m))

UpdateCredits(c, id, balance) == Read(c, "UpdateCredits", id, WithCredits(disk[id], balance))

UpdateTokens(c, id, ts) == Read(c, "UpdateTokens", id, WithTokens(disk[id], ts))

SetDisabled(c, id, disabled) == Read(c, "SetDisabled", id, WithDisabled(disk[id], disabled))

\* The tail of the console's probe: "clear sticky auth error on disk".
ProbeSucceeds(c, id, balance) ==
    Read(c, "Probe", id, [WithCredits(disk[id], balance) EXCEPT !.auth = "valid"])

\* store.Save, or store.Delete's os.Remove.
Write(c) ==
    /\ call[c] # NoCall
    /\ disk' = [disk EXCEPT ![call[c].id] = call[c].write]
    /\ call' = [call EXCEPT ![c] = NoCall]
    /\ UNCHANGED <<inflight, rr, now, listing, lease, forgotten>>

\* Delete forgets the in-flight count first and removes the file afterwards.
Delete(c, id) ==
    /\ call[c] = NoCall
    /\ forgotten' = [forgotten EXCEPT ![id] = @ + inflight[id]]
    /\ inflight' = [inflight EXCEPT ![id] = 0]
    /\ call' = [call EXCEPT ![c] = [op |-> "Delete", id |-> id, write |-> NoAccount]]
    /\ UNCHANGED <<disk, rr, now, listing, lease>>

\* Pool.Save of a record that this call did not read: an import or a login, whose
\* id is a hash of the access token and so may exist already, or the console's
\* probe writing back the copy it listed some time ago.
Save(id, a) ==
    /\ disk' = [disk EXCEPT ![id] = a]
    /\ UNCHANGED <<inflight, rr, now, listing, lease, call, forgotten>>

Tick ==
    /\ now < MaxNow
    /\ now' = now + 1
    /\ UNCHANGED <<disk, inflight, rr, listing, lease, call, forgotten>>

\* The process stops and starts again.  os.WriteFile truncates before it writes,
\* so a file whose write was under way may be left unreadable.
Restart ==
    /\ \/ UNCHANGED disk
       \/ \E c \in Callers : /\ call[c] # NoCall
                             /\ disk' = [disk EXCEPT ![call[c].id] = NoAccount]
    /\ inflight' = [id \in Ids |-> 0]
    /\ rr' = 0
    /\ listing' = [l \in Leases |-> NoList]
    /\ lease' = [l \in Leases |-> NoAccount]
    /\ call' = [c \in Callers |-> NoCall]
    /\ forgotten' = [id \in Ids |-> 0]
    /\ UNCHANGED now

-----------------------------------------------------------------------------

LeaseStep(l) ==
    \/ ListAccounts(l)
    \/ \E id \in Ids : Pick(l, id)
    \/ SelectFails(l)
    \/ Release(l)

StartCall(c) ==
    \E id \in Ids :
        \/ "MarkError" \in Calls /\ \E m \in Messages : MarkError(c, id, m)
        \/ "UpdateCredits" \in Calls /\ \E b \in Balances : UpdateCredits(c, id, b)
        \/ "UpdateTokens" \in Calls /\ \E ts \in TokenSets : UpdateTokens(c, id, ts)
        \/ "SetDisabled" \in Calls /\ \E d \in BOOLEAN : SetDisabled(c, id, d)
        \/ "Probe" \in Calls /\ \E b \in Balances : ProbeSucceeds(c, id, b)
        \/ "Delete" \in Calls /\ Delete(c, id)

PoolNext ==
    \/ \E l \in Leases : LeaseStep(l)
    \/ \E c \in Callers : StartCall(c) \/ Write(c)
    \/ "Save" \in Calls /\ \E id \in Ids, a \in StoredAccounts : Save(id, a)
    \/ "Restart" \in Calls /\ Restart
    \/ Tick

PoolSpec == PoolInit /\ [][PoolNext]_poolVars

\* Requests keep arriving, goroutines that can run do run, and every handler
\* returns, so that its deferred Release is called.  Nothing is assumed of the
\* console and of the calls it makes, except that a call that began ends.
PoolFairness ==
    /\ \A l \in Leases :
          /\ WF_poolVars(ListAccounts(l))
          /\ WF_poolVars((\E id \in Ids : Pick(l, id)) \/ SelectFails(l))
          /\ WF_poolVars(Release(l))
    /\ \A c \in Callers : WF_poolVars(Write(c))

FairPoolSpec == PoolSpec /\ PoolFairness

-----------------------------------------------------------------------------
(* Properties *)

\* The types of the files, the counts and the operations in progress.
PoolTypeOK ==
    /\ disk \in [Ids -> Account \union {NoAccount}]
    /\ inflight \in [Ids -> Nat]
    /\ rr \in Nat
    /\ now \in Nat
    /\ listing \in [Leases -> Listing \union {NoList}]
    /\ lease \in [Leases -> Ids \union {NoAccount}]
    /\ call \in [Callers -> PendingWrite \union {NoCall}]
    /\ forgotten \in [Ids -> Nat]

\* Every slot is accounted for: the in-flight count of an account is the number
\* of leases on it less those a Delete forgot, however selections, releases,
\* deletions, imports and restarts interleave.  So no slot leaks, which would
\* take an account out of rotation for good, and none is freed twice.
SlotsAccountedFor ==
    \A id \in Ids : inflight[id] + forgotten[id] = Cardinality(Holders(id))

\* The per-account semaphore: no more leases on an account than configured,
\* unless the account was deleted while leases on it were open.
WithinConcurrency ==
    \A id \in Ids : forgotten[id] = 0 => Cardinality(Holders(id)) <= PerAccount

\* The inductive invariant behind the two.  A lease that is choosing holds nothing,
\* and the count itself never passes the limit.
ChoosingHoldsNothing ==
    \A l \in Leases : listing[l] # NoList => lease[l] = NoAccount

\* The count that Select compares with the limit never passes it.
InflightWithinLimit == \A id \in Ids : inflight[id] <= PerAccount

\* What AccountPoolProofs proves to be inductive; WithinConcurrency follows from it.
PoolInvariant ==
    /\ PoolTypeOK
    /\ ChoosingHoldsNothing
    /\ InflightWithinLimit
    /\ SlotsAccountedFor

\* The console's label and the scheduler's verdict are computed by separate functions
\* from the same record: an account that is shown as valid is one that Select would
\* use if it had the credits, whatever the calls made of its record.
ValidMeansSelectable ==
    \A id \in Ids :
        (disk[id] # NoAccount /\ StatusLabel(disk[id], now) = "valid") => Healthy(disk[id], 0, now)

\* The mere passage of time brings no account back, except out of a cooldown: one
\* whose token ran out stays out until somebody renews it.
OnlyCooldownsHeal ==
    [][\A id \in Ids :
          (disk[id] # NoAccount /\ disk'[id] = disk[id] /\ Healthy(disk[id], MinCredits, now'))
              => Healthy(disk[id], MinCredits, now) \/ CoolingDown(disk[id], now)]_poolVars

\* An account that stays healthy is handed out again and again: round-robin
\* starves nobody, whatever happens to the health of the other accounts.  (The
\* directory must stay the same: an added or removed file shifts positions.)
EveryHealthyAccountServes ==
    \A id \in Ids :
        <>[](disk[id] # NoAccount /\ Healthy(disk[id], MinCredits, now))
            => []<>(inflight[id] > 0)

\* An account that stays disabled drains: Select works on a listing that may be
\* stale, but only for so long.
DisabledAccountDrains ==
    \A id \in Ids :
        <>[](disk[id] # NoAccount /\ disk[id].disabled) => <>[](inflight[id] = 0)

\* The refinement mapping: a permit is free if it is not in flight.
FreeSlots == [id \in Ids |-> PerAccount - inflight[id]]
Semaphore ==
    INSTANCE AccountSemaphore
    WITH Capacity <- PerAccount, free <- FreeSlots, holds <- lease

\* The pool implements a counting semaphore per account.  It does so as long as
\* the console deletes nothing: Delete drops the count of leases still open.
ImplementsSemaphore == Semaphore!SemaphoreSpec

-----------------------------------------------------------------------------
(* What the documents say of the pool and the code does not do.             *)

\* Each method changes its own part of a record: SetDisabled the switch (README,
\* "/admin/accounts/{id}/disable"), UpdateTokens the tokens ("UpdateTokens persists
\* refreshed OAuth tokens for an account"), MarkError the cooldown (design 7.1: "429
\* / rate limit -> cooldown that account, try next").  A write of one does not undo
\* what another changed since the record was read.
ConcurrentChangesSurvive ==
    [][\A c \in Callers :
          (call[c] # NoCall /\ call'[c] = NoCall) =>
              LET op == call[c].op  was == disk[call[c].id]  is == disk'[call[c].id] IN
              was # NoAccount /\ is # NoAccount =>
                  /\ op # "SetDisabled" => is.disabled = was.disabled
                  /\ op # "UpdateTokens" => is.tok = was.tok /\ is.rt = was.rt
                  /\ op \in {"UpdateCredits", "Probe"} => is.until = was.until]_poolVars

\* Design 7.3: "Per-account semaphore".  Delete forgets the leases still open, and
\* the account can be picked again before its file is gone or once it is imported
\* again.
SemaphoreHolds ==
    \A id \in Ids : Cardinality(Holders(id)) <= PerAccount

=============================================================================
