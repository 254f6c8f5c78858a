------------------------- MODULE GenerationProofs -------------------------
(* Proofs about the handlers that create jobs, for every number of requests *)
(* on any set of accounts, among all the other goroutines that use them.    *)
EXTENDS Generation, CredentialsProofs

-----------------------------------------------------------------------------
(* The handlers keep what their pool and their copies rely on *)

\* The places of a handler, and none of them is one where a probe, an import or the
\* refresher is.
LEMMA HandlerPlaces ==
  /\ Refreshing \union {"create", "tokens", "failTokens", "mark", "record", "wait", "waited", "waitFailed"}
        \subseteq WithCopy
  /\ {"idle", "select", "retry", "release", "done"} \subseteq EmptyHanded
  /\ {"idle", "select", "retry", "release", "done", "tokens", "failTokens", "mark", "record",
      "waited", "waitFailed", "auth", "authTokens", "statusTokens", "statusRefresh", "credits"}
        \intersect RunsAt = {}
  BY DEF Refreshing, WithCopy, EmptyHanded, RunsAt

LEMMA LeaseOfRequest ==
  ASSUME NEW r \in Requests, NEW n \in {1, 2}
  PROVE  r \in Callers /\ <<r, n>> \in Leases
  BY RequestsAssumption

\* A step that leaves the calls alone and moves on, the pool's invariant holding.
LEMMA MoveOnInvariant ==
  ASSUME CredentialInvariant, PoolInvariant', NEW r \in Callers,
         NEW pc \in EmptyHanded \union WithCopy \union {"return"},
         work[r].pc \in WithCopy \/ pc \in {"retry", "select", "release", "done"},
         work[r].pc \notin RunsAt, call' = call, Goto(r, pc)
  PROVE  CredentialInvariant'
  BY GotoInvariant

LEMMA PreparationFields ==
  ASSUME NEW id, NEW a
  PROVE  /\ Preparation(id, a).pc = "auth" /\ Preparation(id, a).id = id
         /\ Preparation(id, a).acc = a /\ Preparation(id, a).ret = "create"
         /\ Preparation(id, a).run = "none" /\ Preparation(id, a).cause = "none"
         /\ Preparation(id, a) \in [pc : {"auth"}, id : {id}, acc : {a}, ret : {"create"},
                                    run : {"none"}, cause : {"none"}]
  BY DEF Preparation, Starting, Idle

LEMMA LeaseKeepsInvariant ==
  ASSUME CredentialInvariant, attempt \in [Requests -> 0 .. 2], NEW r \in Requests,
         attempt[r] \in {1, 2}, Lease(r)
  PROVE  CredentialInvariant'
<1>1. PICK l \in Leases : l = <<r, attempt[r]>>
  BY LeaseOfRequest
<1>2. PICK id \in Ids : Pick(l, id) /\ work' = [work EXCEPT ![r] = Preparation(id, listing[l].files[id])]
  BY <1>1 DEF Lease
<1>3. PoolInvariant /\ PoolInvariant' /\ call' = call /\ r \in Callers
  BY <1>2, InHand, PickInvariant, LeaseOfRequest DEF Pick, CredentialInvariant
<1>4. PICK a \in Account : a = listing[l].files[id]
  <2>1. listing[l] \in Listing
    BY <1>2, <1>3 DEF Pick, PoolInvariant, PoolTypeOK
  <2> QED
    BY <1>2, <2>1 DEF Pick, Selectable, Present, Listing
<1> DEFINE w == Preparation(id, a)
<1>5. w \in Goroutine /\ w.pc = "auth" /\ w.id = id /\ w.acc \in Account /\ w.run = "none"
  <2>1. "auth" \in WithCopy
    BY DEF WithCopy
  <2>2. w \in [pc : {"auth"}, id : {id}, acc : {a}, ret : {"create"}, run : {"none"}, cause : {"none"}]
    BY PreparationFields
  <2> HIDE DEF w
  <2> QED
    BY <2>1, <2>2 DEF Goroutine
<1> HIDE DEF w
<1>6. Proper(w)
  BY <1>5 DEF Proper
<1>7. work' = [work EXCEPT ![r] = w]
  BY <1>2, <1>4 DEF w
<1> QED
  BY <1>3, <1>5, <1>6, <1>7, InHand, StepInvariant DEF Lease

LEMMA ChooseKeepsInvariant ==
  ASSUME CredentialInvariant, NEW r \in Requests,
         Choose(r, "idle", 1) \/ Choose(r, "retry", 2)
         \/ (attempt[r] \in {1, 2} /\ NoneLeft(r)) \/ Return(r)
  PROVE  CredentialInvariant'
<1>1. /\ {"idle", "retry", "select", "release", "done"} \subseteq EmptyHanded
      /\ {"idle", "retry", "select", "release"} \intersect RunsAt = {}
      /\ r \in Callers /\ PoolInvariant
  BY HandlerPlaces, LeaseOfRequest, InHand
<1>2. ASSUME NEW from \in {"idle", "retry"}, NEW n \in {1, 2}, Choose(r, from, n)
      PROVE  CredentialInvariant'
  <2>1. ListAccounts(<<r, n>>) /\ Goto(r, "select") /\ work[r].pc = from
    BY <1>2 DEF Choose, At
  <2>2. PoolInvariant' /\ call' = call
    BY <1>1, <2>1, LeaseOfRequest, ListingInvariant DEF ListAccounts
  <2> QED
    BY <1>1, <2>1, <2>2, MoveOnInvariant
<1>3. CASE attempt[r] \in {1, 2} /\ NoneLeft(r)
  <2>1. SelectFails(<<r, attempt[r]>>) /\ Goto(r, "release") /\ work[r].pc = "select"
    BY <1>3 DEF NoneLeft, At
  <2>2. PoolInvariant' /\ call' = call
    BY <1>1, <1>3, <2>1, LeaseOfRequest, ListingInvariant DEF SelectFails
  <2> QED
    BY <1>1, <2>1, <2>2, MoveOnInvariant
<1>4. CASE Return(r)
  <2>1. Goto(r, "done") /\ work[r].pc = "release" /\ PoolInvariant' /\ call' = call
    BY <1>1, <1>4, PoolStays DEF Return, At, poolVars
  <2> QED
    BY <1>1, <2>1, MoveOnInvariant
<1> QED
  BY <1>2, <1>3, <1>4

LEMMA ReleaseKeepsInvariant ==
  ASSUME CredentialInvariant, NEW r \in Requests, NEW n \in {1, 2}, ReleaseLease(r, n)
  PROVE  CredentialInvariant'
<1>1. Release(<<r, n>>) /\ UNCHANGED credentialVars /\ PoolInvariant
  BY InHand, LeaseOfRequest DEF ReleaseLease
<1>2. PoolInvariant' /\ call' = call
  BY <1>1, LeaseOfRequest, ReleaseInvariant DEF Release
<1> QED
  BY <1>1, <1>2, PoolStepInvariant

LEMMA JobKeepsInvariant ==
  ASSUME CredentialInvariant, NEW r \in Requests, Mark(r) \/ RecordJob(r) \/ EndWait(r)
  PROVE  CredentialInvariant'
<1>1. /\ {"mark", "record", "waited", "waitFailed", "wait", "status"} \subseteq WithCopy
      /\ {"retry", "release"} \subseteq EmptyHanded
      /\ {"mark", "record", "waited", "waitFailed"} \intersect RunsAt = {}
      /\ r \in Callers /\ PoolInvariant
  BY LeaseOfRequest, InHand DEF WithCopy, EmptyHanded, RunsAt
<1>2. CASE Mark(r)
  <2>1. /\ work[r].pc = "mark" /\ work[r].id \in Ids
        /\ \E pc \in {"retry", "release"} : Goto(r, pc)
        /\ UNCHANGED poolVars \/ \E m \in Messages : MarkError(r, work[r].id, m)
    BY <1>1, <1>2, InHand DEF Mark, At, IfStored
  <2>2. PoolInvariant'
    BY <1>1, <2>1, MethodInvariant, PoolStays
  <2>3. \A d \in Callers \ {r} : call'[d] = call[d]
    BY <1>1, <2>1, CallsOfOthers DEF MarkError
  <2> QED
    BY <1>1, <2>1, <2>2, <2>3, GotoInvariant
<1>3. CASE RecordJob(r) \/ EndWait(r)
  <2>1. /\ work[r].pc \in {"record", "waited", "waitFailed"}
        /\ \E pc \in {"wait", "release", "status"} : Goto(r, pc)
        /\ UNCHANGED poolVars
    BY <1>3 DEF RecordJob, EndWait, At
  <2>2. PoolInvariant' /\ call' = call
    BY <1>1, <2>1, PoolStays DEF poolVars
  <2> QED
    BY <1>1, <2>1, <2>2, MoveOnInvariant
<1> QED
  BY <1>2, <1>3

LEMMA HandlerInvariant ==
  ASSUME CredentialInvariant, NEW r \in Requests,
         attempt \in [Requests -> 0 .. 2], work[r].pc = "select" => attempt[r] \in {1, 2},
         Choose(r, "idle", 1) \/ HandlerStep(r)
  PROVE  CredentialInvariant'
<1>1. /\ {"failTokens", "tokens"} \subseteq WithCopy \ RunsAt /\ {"mark", "status"} \subseteq WithCopy
      /\ r \in Callers
  BY LeaseOfRequest DEF WithCopy, RunsAt
<1>2. CASE Lease(r) \/ NoneLeft(r)
  <2>1. attempt[r] \in {1, 2}
    BY <1>2 DEF Lease, NoneLeft, At
  <2> QED
    BY <1>2, <2>1, LeaseKeepsInvariant, ChooseKeepsInvariant
<1>3. CASE PrepareAccount(r) \/ RefreshRuns(r) \/ Create(r) \/ Wait(r)
  BY <1>1, <1>3, PrepareAccountInvariant, RunInvariant DEF RefreshRuns, Create, Wait
<1>4. CASE SaveTokens(r, "failTokens", "mark") \/ SaveTokens(r, "tokens", "status")
  BY <1>1, <1>4, SaveTokensInvariant
<1> QED
  BY <1>2, <1>3, <1>4, ChooseKeepsInvariant, ReleaseKeepsInvariant, JobKeepsInvariant DEF HandlerStep

-----------------------------------------------------------------------------
(* The way of a request and of its job *)

\* Where Then leads a handler, and where it returns to from there.
LEMMA HandlerThen ==
  ASSUME NEW c \in Callers, work[c] \in Goroutine, NEW pc, NEW a
  PROVE  LET t == Then(c, pc, a) IN
         /\ pc \in {"retry", "select", "release", "done"} => t.pc = pc
         /\ pc \in WithCopy => t.pc = pc /\ t.id = work[c].id /\ t.ret = work[c].ret
         /\ pc = "return" /\ work[c].ret = "create"
               => t.pc = "create" /\ t.id = work[c].id /\ t.ret = "record"
         /\ pc = "return" /\ work[c].ret = "record"
               => t.pc = "record" /\ t.id = work[c].id /\ t.ret = "release"
         /\ pc = "return" /\ work[c].ret = "release" => t.pc = "release"
<1> DEFINE ret == work[c].ret
           to == IF pc = "return" THEN ret ELSE pc
           next == IF pc = "return" THEN NextReturn(ret) ELSE ret
           kept == [work[c] EXCEPT !.pc = to, !.acc = a, !.ret = next]
<1>1. {"retry", "select", "release", "done", "return"} \intersect WithCopy = {}
  BY DEF WithCopy
<1>2. CASE to \in {"retry", "select", "release", "done"}
  <2>1. Then(c, pc, a) = Starting(to, NoAccount, NoAccount)
    BY <1>2, Zenon DEF Then
  <2> HIDE DEF to
  <2>2. Then(c, pc, a).pc = to
    BY <2>1, StartingFields
  <2> QED
    BY <1>1, <1>2, <2>2 DEF to
<1>3. CASE to \notin {"retry", "select", "release", "done"}
  <2>1. Then(c, pc, a) = kept
    BY <1>3, Zenon DEF Then
  <2>2. kept.pc = to /\ kept.id = work[c].id /\ kept.ret = next
    BY DEF Goroutine
  <2> HIDE DEF kept
  <2> QED
    BY <1>1, <1>3, <2>1, <2>2 DEF NextReturn
<1> QED
  BY <1>2, <1>3

\* A step of a run leaves the handler where it is, or ends with the command's result.
LEMMA RunLeads ==
  ASSUME CredentialInvariant, NEW c \in Callers, Run(c)
  PROVE  \/ work'[c].pc = work[c].pc /\ work'[c].id = work[c].id /\ work'[c].ret = work[c].ret
         \/ \E result \in {"ok", "auth", "other"} : \E a, j :
              LET t == Then(c, After(work[c].pc, result, a), j) IN
              work'[c].pc = t.pc /\ work'[c].id = t.id /\ work'[c].ret = t.ret
<1>1. /\ work[c] \in Goroutine /\ work[c].id \in Ids /\ work \in [Callers -> Goroutine]
      /\ work[c].acc \in Account /\ now \in Nat /\ issued[work[c].id] \in Nat
      /\ work[c].pc \in RunsAt
  BY InHand, RunPlaces DEF Run, PrepareRun, CommandEnds, CommandRetries, RetryEnds
<1>2. ASSUME NEW run, NEW a, work' = [work EXCEPT ![c].run = run, ![c].acc = a]
      PROVE  work'[c].pc = work[c].pc /\ work'[c].id = work[c].id /\ work'[c].ret = work[c].ret
  <2>1. work'[c] = [work[c] EXCEPT !.run = run, !.acc = a]
    BY <1>1, <1>2
  <2> QED
    BY <1>1, <2>1 DEF Goroutine
<1>3. ASSUME NEW result \in {"ok", "auth", "other"}, NEW a \in Account, Finish(c, result, a)
      PROVE  \E j : LET t == Then(c, After(work[c].pc, result, a), j) IN
                    work'[c].pc = t.pc /\ work'[c].id = t.id /\ work'[c].ret = t.ret
  <2> DEFINE pc == work[c].pc
             cause == Cause(c, result)
  <2>1. PICK b : work' = [work EXCEPT ![c] =
                    [Then(c, After(pc, result, a), Judged(pc, result, a, b)) EXCEPT
                        !.run = "none", !.cause = cause]]
    BY <1>3, Zenon DEF Finish
  <2> DEFINE t == Then(c, After(pc, result, a), Judged(pc, result, a, b))
  <2>2. work'[c] = [t EXCEPT !.run = "none", !.cause = cause]
    BY <1>1, <2>1
  <2>3. work'[c] \in Goroutine
    BY <1>1, <1>3, InHand, FinishProper DEF Proper
  <2> HIDE DEF t, cause
  <2>4. work'[c].pc = t.pc /\ work'[c].id = t.id /\ work'[c].ret = t.ret
    BY <2>2, <2>3 DEF Goroutine
  <2> QED
    BY <2>4 DEF t
<1>4. CASE PrepareRun(c)
  <2>1. PICK o \in EnsureAuth(work[c].acc, issued[work[c].id]) :
          \/ work' = [work EXCEPT ![c].run = "first", ![c].acc = o.acc]
          \/ Finish(c, "other", o.acc)
    BY <1>4 DEF PrepareRun
  <2>2. o.acc \in Account
    BY <1>1, Ensurings
  <2> QED
    BY <1>2, <1>3, <2>1, <2>2
<1>5. CASE CommandRetries(c)
  <2>1. PICK o \in RefreshAccount(work[c].acc, issued[work[c].id]) :
          \/ work' = [work EXCEPT ![c].run = "again", ![c].acc = o.acc]
          \/ Finish(c, "auth", o.acc)
    BY <1>5 DEF CommandRetries
  <2>2. o.acc \in Account
    BY <1>1, Renewals
  <2> QED
    BY <1>2, <1>3, <2>1, <2>2
<1>6. CASE CommandEnds(c) \/ RetryEnds(c)
  <2>1. PICK result \in Answers(c) : Finish(c, result, work[c].acc)
    BY <1>6 DEF CommandEnds, RetryEnds
  <2> QED
    BY <1>1, <1>3, <2>1, AnswerKinds
<1> QED
  BY <1>4, <1>5, <1>6 DEF Run

\* Goroutine c stays with its account, on the same errand.
Stays(c) == work'[c].id = work[c].id /\ work'[c].ret = work[c].ret

\* It returns from refreshCredits.
Returns(c) ==
  \/ work[c].ret = "create" /\ work'[c].pc = "create" /\ work'[c].id = work[c].id
        /\ work'[c].ret = "record"
  \/ work[c].ret = "record" /\ work'[c].pc = "record" /\ work'[c].id = work[c].id
        /\ work'[c].ret = "release"
  \/ work[c].ret = "release" /\ work'[c].pc = "release"

\* The places to which a command's end leads a handler.
RunsTo(pc) ==
  CASE pc = "status" -> {"credits", "statusRefresh"}
    [] pc = "statusAgain" -> {"credits"}
    [] pc = "create" -> {"tokens", "failTokens"}
    [] pc = "wait" -> {"waited", "waitFailed"}
    [] OTHER -> {}

\* A handler goes on where Then leads it.
LEMMA HandlerGoes ==
  ASSUME CredentialInvariant, NEW c \in Callers, NEW pc, NEW a,
         work'[c].pc = Then(c, pc, a).pc, work'[c].id = Then(c, pc, a).id,
         work'[c].ret = Then(c, pc, a).ret
  PROVE  /\ pc \in WithCopy => work'[c].pc = pc /\ Stays(c)
         /\ pc = "return" /\ work[c].ret # "done" => Returns(c)
<1>1. work[c] \in Goroutine
  BY InHand
<1>2. work[c].ret \in {"done", "create", "record", "release"}
  BY <1>1 DEF Goroutine
<1> QED
  BY <1>1, <1>2, HandlerThen DEF Stays, Returns

LEMMA HandlerRuns ==
  ASSUME CredentialInvariant, NEW c \in Callers, Run(c),
         work[c].pc \in {"status", "statusAgain", "create", "wait"}
  PROVE  \/ work'[c].pc \in {work[c].pc} \union RunsTo(work[c].pc) /\ Stays(c)
         \/ work[c].pc \in {"status", "statusAgain"} /\ (work[c].ret # "done" => Returns(c))
<1>1. CASE work'[c].pc = work[c].pc /\ work'[c].id = work[c].id /\ work'[c].ret = work[c].ret
  BY <1>1 DEF Stays
<1>2. CASE \E result \in {"ok", "auth", "other"} : \E a, j :
             LET t == Then(c, After(work[c].pc, result, a), j) IN
             work'[c].pc = t.pc /\ work'[c].id = t.id /\ work'[c].ret = t.ret
  <2>1. PICK result, a, j : result \in {"ok", "auth", "other"} /\
             LET t == Then(c, After(work[c].pc, result, a), j) IN
             work'[c].pc = t.pc /\ work'[c].id = t.id /\ work'[c].ret = t.ret
    BY <1>2
  <2>2. PICK to : to = After(work[c].pc, result, a)
    OBVIOUS
  <2>3. \/ to \in RunsTo(work[c].pc)
        \/ to = "return" /\ work[c].pc \in {"status", "statusAgain"}
    <3>1. CASE work[c].pc = "status"
      BY <2>2, <3>1 DEF After, RunsTo
    <3>2. CASE work[c].pc = "statusAgain"
      BY <2>2, <3>2 DEF After, RunsTo
    <3>3. CASE work[c].pc = "create"
      BY <2>2, <3>3 DEF After, RunsTo
    <3>4. CASE work[c].pc = "wait"
      BY <2>2, <3>4 DEF After, RunsTo
    <3> QED
      BY <3>1, <3>2, <3>3, <3>4
  <2>4. RunsTo(work[c].pc) \subseteq WithCopy
    BY DEF RunsTo, WithCopy
  <2>5. /\ to \in WithCopy => work'[c].pc = to /\ Stays(c)
        /\ to = "return" /\ work[c].ret # "done" => Returns(c)
    BY <2>1, <2>2, HandlerGoes
  <2> QED
    BY <2>3, <2>4, <2>5
<1> QED
  BY <1>1, <1>2, RunLeads

\* What moves a goroutine by Then is a step of Goto, Take or SaveCredits.
LEMMA ResumedGoes ==
  ASSUME CredentialInvariant, NEW c \in Callers, NEW pc, NEW a,
         work' = [work EXCEPT ![c] = Then(c, pc, a)]
  PROVE  /\ pc \in WithCopy => work'[c].pc = pc /\ Stays(c)
         /\ pc = "return" /\ work[c].ret # "done" => Returns(c)
         /\ pc \in {"retry", "select", "release", "done"} => work'[c].pc = pc
<1>1. PICK t : t = Then(c, pc, a)
  OBVIOUS
<1>2. work'[c] = t
  BY <1>1, InHand
<1> QED
  BY <1>1, <1>2, InHand, HandlerGoes, HandlerThen

\* prepareAccount and refreshCredits stay within themselves or return.
LEMMA RefreshGoes ==
  ASSUME CredentialInvariant, NEW r \in Callers, PrepareAccount(r) \/ RefreshRuns(r)
  PROVE  /\ work[r].pc \in Refreshing
         /\ \/ work'[r].pc \in Refreshing /\ Stays(r)
            \/ work[r].ret # "done" => Returns(r)
<1>1. Refreshing \subseteq WithCopy
  BY DEF Refreshing, WithCopy
<1>2. CASE RefreshRuns(r)
  <2>1. work[r].pc \in {"status", "statusAgain"} /\ Run(r)
    BY <1>2 DEF RefreshRuns
  <2>2. {work[r].pc} \union RunsTo(work[r].pc) \subseteq Refreshing
    BY <2>1 DEF RunsTo, Refreshing
  <2> QED
    BY <2>1, <2>2, HandlerRuns
<1>3. CASE PrepareAccount(r)
  <2>1. /\ work[r].pc \in Refreshing
        /\ \E pc \in Refreshing \union {"return"} : \E a : work' = [work EXCEPT ![r] = Then(r, pc, a)]
    <3>1. CASE Authenticate(r)
      <4>1. PICK o : Take(r, o, IF o.res = "ok" THEN "authTokens" ELSE "status")
        BY <3>1, Zenon DEF Authenticate
      <4>2. PICK pc \in {"authTokens", "status"} : work' = [work EXCEPT ![r] = Then(r, pc, o.acc)]
        BY <4>1 DEF Take
      <4> QED
        BY <3>1, <4>2 DEF Authenticate, At, Refreshing
    <3>2. CASE StatusRefresh(r)
      <4>1. PICK o : Take(r, o, IF o.res = "ok" THEN "statusTokens" ELSE "return")
        BY <3>2, Zenon DEF StatusRefresh
      <4>2. PICK pc \in {"statusTokens", "return"} : work' = [work EXCEPT ![r] = Then(r, pc, o.acc)]
        BY <4>1 DEF Take
      <4> QED
        BY <3>2, <4>2 DEF StatusRefresh, At, Refreshing
    <3>3. CASE SaveTokens(r, "authTokens", "status") \/ SaveTokens(r, "statusTokens", "statusAgain")
      <4>1. /\ work[r].pc \in {"authTokens", "statusTokens"}
            /\ \E pc \in {"status", "statusAgain"} : Goto(r, pc)
        BY <3>3 DEF SaveTokens, At
      <4> QED
        BY <4>1 DEF Goto, Refreshing
    <3>4. CASE SaveCredits(r, "credits", "return")
      BY <3>4 DEF SaveCredits, At, Refreshing
    <3> QED
      BY <1>3, <3>1, <3>2, <3>3, <3>4 DEF PrepareAccount
  <2>2. PICK pc, a : pc \in Refreshing \union {"return"} /\ work' = [work EXCEPT ![r] = Then(r, pc, a)]
    BY <2>1
  <2> QED
    BY <1>1, <2>1, <2>2, ResumedGoes
<1> QED
  BY <1>2, <1>3

-----------------------------------------------------------------------------
(* Who moves whom *)

\* A handler's step moves its own goroutine only.
LEMMA HandlerMovesItself ==
  ASSUME CredentialInvariant, NEW r \in Requests, Choose(r, "idle", 1) \/ HandlerStep(r)
  PROVE  \A d \in Callers \ {r} : work'[d] = work[d]
<1>1. r \in Callers /\ work \in [Callers -> Goroutine]
  BY LeaseOfRequest, InHand
<1>2. CASE Run(r)
  BY <1>1, <1>2, RunRenews DEF Renewing, Alone
<1>3. ASSUME NEW w, work' = [work EXCEPT ![r] = w]
      PROVE  \A d \in Callers \ {r} : work'[d] = work[d]
  BY <1>1, <1>3
<1>4. ASSUME \E pc : Goto(r, pc)
      PROVE  \A d \in Callers \ {r} : work'[d] = work[d]
  BY <1>3, <1>4 DEF Goto
<1>5. CASE Choose(r, "idle", 1) \/ Choose(r, "retry", 2) \/ NoneLeft(r) \/ Mark(r) \/ RecordJob(r)
           \/ EndWait(r) \/ Return(r)
           \/ SaveTokens(r, "failTokens", "mark") \/ SaveTokens(r, "tokens", "status")
           \/ SaveTokens(r, "authTokens", "status") \/ SaveTokens(r, "statusTokens", "statusAgain")
  <2>1. \E pc : Goto(r, pc)
    BY <1>5, Zenon DEF Choose, NoneLeft, Mark, RecordJob, EndWait, Return, SaveTokens
  <2> QED
    BY <1>4, <2>1
<1>6. CASE Authenticate(r) \/ StatusRefresh(r)
  <2>1. \E o, pc : Take(r, o, pc)
    BY <1>6, Zenon DEF Authenticate, StatusRefresh
  <2>2. \E w : work' = [work EXCEPT ![r] = w]
    BY <2>1, Zenon DEF Take
  <2> QED
    BY <1>3, <2>2
<1>7. CASE SaveCredits(r, "credits", "return") \/ Lease(r)
  <2>1. \E w : work' = [work EXCEPT ![r] = w]
    BY <1>7, Zenon DEF SaveCredits, Lease
  <2> QED
    BY <1>3, <2>1
<1>8. CASE \E n \in {1, 2} : ReleaseLease(r, n)
  BY <1>8 DEF ReleaseLease, credentialVars
<1> QED
  BY <1>2, <1>5, <1>6, <1>7, <1>8
     DEF HandlerStep, PrepareAccount, RefreshRuns, Create, Wait

\* The refresher, the polls and the console leave the handlers where they are.
LEMMA OthersLeaveHandlers ==
  ASSUME CredentialInvariant, CredentialNext, NEW r \in Requests
  PROVE  work'[r] = work[r]
<1>1. /\ work \in [Callers -> Goroutine] /\ r \in Callers
      /\ r \notin Refreshers \union Keepers \union Probers \union Importers \union Consoles
      /\ Refreshers \union Keepers \union Probers \union Importers \union Consoles \subseteq Callers
  BY LeaseOfRequest, InHand, RequestsAssumption, CredentialsAssumption
<1>2. ASSUME NEW c \in Callers \ {r}, NEW w, work' = [work EXCEPT ![c] = w]
      PROVE  work'[r] = work[r]
  BY <1>1, <1>2
<1>3. ASSUME NEW c \in Callers \ {r},
             \/ \E from, to : SaveTokens(c, from, to) \/ SaveCredits(c, from, to)
             \/ \E from : SaveCopy(c, from)
             \/ \E id \in Ids : StartKeeper(c, id) \/ StartProbe(c, id) \/ StartImport(c, id)
                                   \/ StartImportCLI(c, id)
             \/ ProbeValid(c) \/ EndSweep(c) \/ RemoveHome(c) \/ Switch(c)
             \/ Authenticate(c) \/ StatusRefresh(c) \/ ProbeAuth(c) \/ ProbeRefresh(c) \/ ImportAuth(c)
      PROVE  work'[r] = work[r]
  <2>1. CASE \E pc, o : Take(c, o, pc)
    <3>1. \E w : work' = [work EXCEPT ![c] = w]
      BY <2>1, Zenon DEF Take
    <3> QED
      BY <1>2, <3>1
  <2>2. CASE \E pc : Goto(c, pc)
    <3>1. \E w : work' = [work EXCEPT ![c] = w]
      BY <2>2, Zenon DEF Goto
    <3> QED
      BY <1>2, <3>1
  <2>3. CASE Authenticate(c) \/ StatusRefresh(c) \/ ImportAuth(c)
    BY <2>1, <2>3, Zenon DEF Authenticate, StatusRefresh, ImportAuth
  <2>4. CASE ProbeRefresh(c)
    <3>1. PICK o : IF o.res = "ok" THEN Take(c, o, "probeTokensAgain")
                   ELSE Take(c, [o EXCEPT !.acc = Refused(o.acc, o.res)], "probeSave")
      BY <2>4, Zenon DEF ProbeRefresh
    <3> QED
      BY <2>1, <3>1, Zenon
  <2>5. CASE ProbeAuth(c)
    <3>1. PICK o \in EnsureAuth(work[c].acc, issued[work[c].id]) :
            \/ \E pc \in {"probeTokens", "probeStatus", "done"} : Take(c, o, pc)
            \/ Take(c, [o EXCEPT !.acc = Refused(o.acc, o.res)], "probeSave")
      BY <2>5, Zenon DEF ProbeAuth
    <3> QED
      BY <2>1, <3>1, Zenon
  <2>6. CASE \/ \E from, to : SaveTokens(c, from, to)
             \/ \E from : SaveCopy(c, from)
             \/ ProbeValid(c) \/ Switch(c)
    BY <2>2, <2>6, Zenon DEF SaveTokens, SaveCopy, ProbeValid, Switch
  <2>7. CASE \/ \E from, to : SaveCredits(c, from, to)
             \/ \E id \in Ids : StartKeeper(c, id) \/ StartProbe(c, id) \/ StartImport(c, id)
                                   \/ StartImportCLI(c, id)
             \/ EndSweep(c) \/ RemoveHome(c)
    <3>1. \E w : work' = [work EXCEPT ![c] = w]
      BY <2>7, Zenon DEF SaveCredits, StartKeeper, StartProbe, StartImport, StartImportCLI, EndSweep, RemoveHome
    <3> QED
      BY <1>2, <3>1
  <2> QED
    BY <1>3, <2>3, <2>4, <2>5, <2>6, <2>7
<1>4. ASSUME NEW c \in Callers \ {r}, Run(c)
      PROVE  work'[r] = work[r]
  BY <1>1, <1>4, RunRenews DEF Renewing, Alone
<1>5. ASSUME NEW c \in Refreshers, RefresherStep(c)
      PROVE  work'[r] = work[r]
  <2>1. c \in Callers \ {r}
    BY <1>1
  <2>2. CASE StartSweep(c)
    BY <1>1, <2>1, <2>2 DEF StartSweep
  <2>3. CASE \E id \in Ids : SweepAccount(c, id)
    <3>1. work' = work \/ \E w : work' = [work EXCEPT ![c] = w]
      BY <2>3, Zenon DEF SweepAccount
    <3> QED
      BY <1>2, <2>1, <3>1
  <2> QED
    BY <1>3, <1>5, <2>1, <2>2, <2>3 DEF RefresherStep
<1>6. ASSUME NEW c \in Consoles, ConsoleStep(c)
      PROVE  work'[r] = work[r]
  <2>1. c \in Callers \ {r}
    BY <1>1
  <2>2. CASE DeleteAccount(c)
    <3>1. work' = work \/ \E w : work' = [work EXCEPT ![c] = w]
      BY <2>2 DEF DeleteAccount
    <3> QED
      BY <1>2, <2>1, <3>1
  <2> QED
    BY <1>3, <1>6, <2>1, <2>2 DEF ConsoleStep
<1>7. ASSUME NEW c \in Keepers, KeeperStep(c)
      PROVE  work'[r] = work[r]
  <2>1. c \in Callers \ {r}
    BY <1>1
  <2> QED
    BY <1>3, <1>4, <1>7, <2>1 DEF KeeperStep, PrepareAccount
<1>8. ASSUME NEW c \in Probers, ProberStep(c)
      PROVE  work'[r] = work[r]
  <2>1. c \in Callers \ {r}
    BY <1>1
  <2> QED
    BY <1>3, <1>4, <1>8, <2>1 DEF ProberStep
<1>9. ASSUME NEW c \in Importers, ImporterStep(c)
      PROVE  work'[r] = work[r]
  <2>1. c \in Callers \ {r}
    BY <1>1
  <2> QED
    BY <1>3, <1>4, <1>9, <2>1 DEF ImporterStep
<1>10. CASE PoolStep
  BY <1>10 DEF PoolStep, credentialVars
<1> QED
  BY <1>5, <1>6, <1>7, <1>8, <1>9, <1>10, RequestsAssumption DEF CredentialNext, RestartServer

-----------------------------------------------------------------------------
(* The way of a request, step by step *)

LEMMA NoJobFields == NoJob \in Entry /\ NoJob.account = NoAccount
<1> DEFINE none == ""
<1>1. none \in Statuses
  BY Zenon DEF Statuses
<1>2. NoJob = [account |-> NoAccount, status |-> none]
  BY Zenon DEF NoJob
<1> HIDE DEF none
<1> QED
  BY <1>1, <1>2 DEF Entry

LEMMA LastStatuses == {"queued", "completed", "failed"} \subseteq Statuses
<1>1. "queued" \in Statuses /\ "completed" \in Statuses /\ "failed" \in Statuses
  BY Zenon DEF Statuses
<1> QED
  BY <1>1

\* The places of the way, taken apart.
LEMMA WayPlaces ==
  /\ Refreshing \intersect {"idle", "select", "retry", "create", "failTokens", "mark", "tokens",
                            "record", "wait", "waited", "waitFailed", "release", "done"} = {}
  /\ {"auth", "authTokens", "status", "statusRefresh", "statusTokens", "statusAgain", "credits"}
        \subseteq Refreshing
  BY DEF Refreshing

\* What a handler knows of its request as it takes a step.
LEMMA RequestFields ==
  ASSUME GenerationInvariant, NEW r \in Requests
  PROVE  /\ CredentialInvariant /\ r \in Callers /\ work[r] \in Goroutine
         /\ work \in [Callers -> Goroutine]
         /\ attempt \in [Requests -> 0 .. 2] /\ answer \in [Requests -> {0, 200, 502, 503}]
         /\ upstream \in [Requests -> Seq(Ids)] /\ jobs \in [Requests -> Entry]
         /\ OnItsWay(work[r]) /\ (~LosesAnswers => JobIsTraced(r))
         /\ work[r].pc = "select" => attempt[r] \in {1, 2}
         /\ work[r].pc \in WithCopy => work[r].id \in Ids
<1>1. /\ CredentialInvariant /\ r \in Callers /\ OnItsWay(work[r])
      /\ (~LosesAnswers => JobIsTraced(r)) /\ (work[r].pc = "select" => attempt[r] \in {1, 2})
  BY Zenon, LeaseOfRequest DEF GenerationInvariant
<1>2. /\ attempt \in [Requests -> 0 .. 2] /\ answer \in [Requests -> {0, 200, 502, 503}]
      /\ upstream \in [Requests -> Seq(Ids)] /\ jobs \in [Requests -> Entry]
  BY Zenon DEF GenerationInvariant, GenerationTypeOK
<1>3. /\ work \in [Callers -> Goroutine] /\ work[r] \in Goroutine
      /\ work[r].pc \in WithCopy => work[r].id \in Ids
  BY <1>1, InHand
<1> QED
  BY Zenon, <1>1, <1>2, <1>3

\* Where a request's handler goes when it moves on, and that no other goroutine moves.
LEMMA RequestGoes ==
  ASSUME GenerationInvariant, NEW r \in Requests, NEW pc, Goto(r, pc)
  PROVE  /\ pc \in WithCopy => work'[r].pc = pc /\ Stays(r)
         /\ pc \in {"retry", "select", "release", "done"} => work'[r].pc = pc
<1>1. CredentialInvariant /\ r \in Callers
  BY Zenon, LeaseOfRequest DEF GenerationInvariant
<1>2. work' = [work EXCEPT ![r] = Then(r, pc, work[r].acc)]
  BY Zenon DEF Goto
<1> QED
  BY Zenon, <1>1, <1>2, ResumedGoes

LEMMA RequestAlone ==
  ASSUME GenerationInvariant, NEW r \in Requests, Choose(r, "idle", 1) \/ HandlerStep(r)
  PROVE  \A d \in Callers \ {r} : work'[d] = work[d]
  BY Zenon, HandlerMovesItself DEF GenerationInvariant

\* Which return of refreshCredits lies ahead of a place.
LEMMA ReturnAhead ==
  ASSUME GenerationInvariant, NEW r \in Requests
  PROVE  /\ work[r].pc \in {"create", "failTokens", "mark", "tokens"} => work[r].ret = "record"
         /\ work[r].pc \in {"record", "wait", "waited", "waitFailed"} => work[r].ret = "release"
         /\ work[r].pc \in Refreshing => work[r].ret \in {"create", "record", "release"}
<1>1. OnItsWay(work[r])
  BY Zenon DEF GenerationInvariant
<1> QED
  BY <1>1, WayPlaces DEF OnItsWay, Before, Created, Recorded, Ending

\* A function that changes in one place.
LEMMA UpdatedAt ==
  ASSUME NEW S, NEW T, NEW f \in [S -> T], NEW x \in S, NEW v \in T, NEW g,
         g = [f EXCEPT ![x] = v]
  PROVE  g \in [S -> T] /\ g[x] = v /\ \A y \in S \ {x} : g[y] = f[y]
  OBVIOUS

LEMMA AnswersType ==
  ASSUME GenerationInvariant
  PROVE  answer \in [Requests -> {0, 200, 502, 503}]
  BY Zenon DEF GenerationInvariant, GenerationTypeOK

\* What a step of one handler has to show.
LEMMA WayStep ==
  ASSUME GenerationInvariant, CredentialInvariant', NEW r \in Requests,
         \A d \in Callers \ {r} : work'[d] = work[d],
         attempt' \in [Requests -> 0 .. 2], answer' \in [Requests -> {0, 200, 502, 503}],
         upstream' \in [Requests -> Seq(Ids)], jobs' \in [Requests -> Entry],
         \A d \in Requests \ {r} : /\ attempt'[d] = attempt[d] /\ answer'[d] = answer[d]
                                   /\ upstream'[d] = upstream[d] /\ jobs'[d] = jobs[d],
         work'[r].pc = "select" => attempt'[r] \in {1, 2},
         OnItsWay(work[r])', ~LosesAnswers => JobIsTraced(r)'
  PROVE  GenerationInvariant'
<1>1. GenerationTypeOK'
  BY DEF GenerationTypeOK, CredentialInvariant
<1>2. ASSUME NEW d \in Requests
      PROVE  /\ work'[d].pc = "select" => attempt'[d] \in {1, 2}
             /\ OnItsWay(work[d])' /\ (~LosesAnswers => JobIsTraced(d)')
  <2>1. CASE d = r
    BY <2>1
  <2>2. CASE d # r
    <3>1. /\ work'[d] = work[d] /\ attempt'[d] = attempt[d] /\ answer'[d] = answer[d]
          /\ upstream'[d] = upstream[d] /\ jobs'[d] = jobs[d]
      BY <2>2, LeaseOfRequest
    <3>2. /\ work[d].pc = "select" => attempt[d] \in {1, 2}
          /\ OnItsWay(work[d]) /\ (~LosesAnswers => JobIsTraced(d))
      BY RequestFields
    <3>3. OnItsWay(work[d])'
      BY <3>1, <3>2
    <3>4. ~LosesAnswers => JobIsTraced(d)'
      BY <3>1, <3>2 DEF JobIsTraced
    <3> QED
      BY <3>1, <3>2, <3>3, <3>4
  <2> QED
    BY <2>1, <2>2
<1> QED
  BY <1>1, <1>2 DEF GenerationInvariant

\* The handlers' own state stands still in most steps.
LEMMA QuietWayStep ==
  ASSUME GenerationInvariant, CredentialInvariant', NEW r \in Requests,
         \A d \in Callers \ {r} : work'[d] = work[d], UNCHANGED generationVars,
         work'[r].pc # "select",
         OnItsWay(work[r])', JobIsTraced(r) => JobIsTraced(r)'
  PROVE  GenerationInvariant'
<1>1. /\ attempt' = attempt /\ answer' = answer
      /\ upstream' = upstream /\ jobs' = jobs
  BY Zenon DEF generationVars
<1>2. /\ attempt' \in [Requests -> 0 .. 2] /\ answer' \in [Requests -> {0, 200, 502, 503}]
      /\ upstream' \in [Requests -> Seq(Ids)] /\ jobs' \in [Requests -> Entry]
  BY <1>1 DEF GenerationInvariant, GenerationTypeOK
<1>3. ~LosesAnswers => JobIsTraced(r)'
  BY Zenon, RequestFields
<1>4. \A d \in Requests \ {r} : /\ attempt'[d] = attempt[d] /\ answer'[d] = answer[d]
                                /\ upstream'[d] = upstream[d] /\ jobs'[d] = jobs[d]
  BY Zenon, <1>1
<1> QED
  BY Zenon, <1>2, <1>3, <1>4, WayStep

\* Preparing the account and asking for its credits lead from before the create to the
\* create, from there to the job's record, and from the wait to the end.
LEMMA RefreshTraced ==
  ASSUME GenerationInvariant, CredentialInvariant', NEW r \in Requests,
         HandlerStep(r), PrepareAccount(r) \/ RefreshRuns(r), UNCHANGED generationVars
  PROVE  GenerationInvariant'
<1>1. /\ work[r].pc \in Refreshing
      /\ \/ work'[r].pc \in Refreshing /\ Stays(r)
         \/ work[r].ret # "done" => Returns(r)
  BY RequestFields, RefreshGoes
<1>2. work[r].ret \in {"create", "record", "release"}
  BY <1>1, ReturnAhead
<1>3. OnItsWay(work[r]) => OnItsWay(work[r])'
  BY <1>1, <1>2, WayPlaces DEF OnItsWay, Before, Created, Recorded, Ending, Stays, Returns
<1>4. JobIsTraced(r) => JobIsTraced(r)'
  <2>1. UNCHANGED <<upstream, jobs, answer>>
    BY DEF generationVars
  <2>2. CASE work'[r].pc \in Refreshing /\ Stays(r)
    BY <1>1, <2>1, <2>2, WayPlaces DEF JobIsTraced, Before, Created, Recorded, Ending, Stays
  <2>3. CASE Returns(r)
    BY <1>1, <2>1, <2>3, WayPlaces DEF JobIsTraced, Before, Created, Recorded, Ending, Returns
  <2> QED
    BY <1>1, <1>2, <2>2, <2>3
<1>5. work'[r].pc # "select"
  BY <1>1, <1>2, WayPlaces DEF Returns
<1> QED
  BY Zenon, <1>3, <1>4, <1>5, RequestFields, RequestAlone, QuietWayStep

\* The create runs where no job is on record yet, and what it makes is upstream's only one.
LEMMA CreateTraced ==
  ASSUME GenerationInvariant, CredentialInvariant', NEW r \in Requests, Create(r)
  PROVE  GenerationInvariant'
<1>1. /\ work[r].pc = "create" /\ Run(r) /\ UNCHANGED <<attempt, answer, jobs>>
      /\ work[r].id \in Ids
  BY RequestFields DEF Create, WithCopy
<1>2. work[r].ret = "record"
  BY <1>1, ReturnAhead
<1>3. work'[r].pc \in {"create", "tokens", "failTokens"} /\ Stays(r)
  BY <1>1, RequestFields, HandlerRuns DEF RunsTo
<1>4. OnItsWay(work[r])'
  BY <1>2, <1>3 DEF OnItsWay, Before, Created, Stays
<1>5. \/ upstream' = [upstream EXCEPT ![r] = Append(@, work[r].id)]
      \/ upstream' = upstream
  BY DEF Create
<1>6. /\ upstream' \in [Requests -> Seq(Ids)]
      /\ \A d \in Requests \ {r} : upstream'[d] = upstream[d]
  <2>1. upstream \in [Requests -> Seq(Ids)] /\ Append(upstream[r], work[r].id) \in Seq(Ids)
    BY <1>1, RequestFields
  <2> QED
    BY <1>5, <2>1
<1>7. ASSUME ~LosesAnswers
      PROVE  JobIsTraced(r)'
  <2>1. Before(work[r]) /\ upstream[r] = <<>> /\ jobs[r] = NoJob /\ answer[r] # 200
    <3>1. JobIsTraced(r)
      BY Zenon, <1>7, RequestFields
    <3> QED
      BY <1>1, <3>1, WayPlaces DEF JobIsTraced, Created, Recorded, Ending
  <2>2. CASE work'[r].pc = "tokens"
    <3>1. upstream' = [upstream EXCEPT ![r] = Append(@, work[r].id)]
      BY <1>7, <2>2 DEF Create
    <3>2. upstream'[r] = <<work[r].id>>
      BY <1>1, <2>1, <3>1, RequestFields
    <3> QED
      BY <1>1, <1>2, <1>3, <2>1, <2>2, <3>2 DEF JobIsTraced, Created, Stays
  <2>3. CASE work'[r].pc # "tokens"
    <3>1. upstream' = upstream
      BY <1>7, <2>3 DEF Create
    <3> QED
      BY <1>1, <1>2, <1>3, <2>1, <2>3, <3>1 DEF JobIsTraced, Before, Stays
  <2> QED
    BY <2>2, <2>3
<1>8. /\ \A d \in Callers \ {r} : work'[d] = work[d]
      /\ attempt' = attempt /\ answer' = answer /\ jobs' = jobs
      /\ work'[r].pc # "select"
  BY <1>1, <1>3, RequestFields, HandlerMovesItself DEF HandlerStep
<1> QED
  BY <1>4, <1>6, <1>7, <1>8, RequestFields, WayStep

\* Saving the tokens that the create's command or its failure left.
LEMMA SaveTokensTraced ==
  ASSUME GenerationInvariant, CredentialInvariant', NEW r \in Requests,
         SaveTokens(r, "failTokens", "mark") \/ SaveTokens(r, "tokens", "status"),
         UNCHANGED generationVars
  PROVE  GenerationInvariant'
<1>1. \/ work[r].pc = "failTokens" /\ work'[r].pc = "mark" /\ Stays(r)
      \/ work[r].pc = "tokens" /\ work'[r].pc = "status" /\ Stays(r)
  <2>1. {"mark", "status"} \subseteq WithCopy
    BY DEF WithCopy
  <2> QED
    BY <2>1, RequestGoes DEF SaveTokens, At
<1>2. OnItsWay(work[r])'
  <2>1. work[r].ret = "record"
    BY <1>1, ReturnAhead
  <2> QED
    BY <1>1, <2>1, WayPlaces DEF OnItsWay, Before, Created, Stays
<1>3. JobIsTraced(r) => JobIsTraced(r)'
  <2>1. UNCHANGED <<upstream, jobs, answer>>
    BY DEF generationVars
  <2> QED
    BY <1>1, <2>1, WayPlaces DEF JobIsTraced, Before, Created, Recorded, Ending, Stays
<1>4. work'[r].pc # "select"
  BY <1>1
<1>9. \A d \in Callers \ {r} : work'[d] = work[d]
  BY Zenon, RequestAlone DEF HandlerStep
<1> QED
  BY <1>2, <1>3, <1>4, <1>9, QuietWayStep

\* Reading the accounts, and taking one of them or none.
LEMMA ChooseTraced ==
  ASSUME GenerationInvariant, CredentialInvariant', NEW r \in Requests,
         Choose(r, "idle", 1) \/ Choose(r, "retry", 2)
  PROVE  GenerationInvariant'
<1>1. PICK n \in {1, 2} : /\ work[r].pc \in {"idle", "retry"} /\ Goto(r, "select")
                          /\ attempt' = [attempt EXCEPT ![r] = n] /\ UNCHANGED <<answer, upstream, jobs>>
  BY DEF Choose, At
<1>2. work'[r].pc = "select"
  BY <1>1, RequestGoes
<1>3. /\ attempt' \in [Requests -> 0 .. 2] /\ attempt'[r] = n
      /\ \A d \in Requests \ {r} : attempt'[d] = attempt[d]
  BY <1>1, RequestFields
<1>4. OnItsWay(work[r])' /\ (JobIsTraced(r) => JobIsTraced(r)')
  BY <1>1, <1>2, WayPlaces DEF OnItsWay, JobIsTraced, Before, Created, Recorded, Ending
<1>5. \A d \in Callers \ {r} : work'[d] = work[d]
  BY Zenon, RequestAlone DEF HandlerStep
<1>6. answer' = answer /\ upstream' = upstream /\ jobs' = jobs
  BY <1>1
<1>7. /\ answer' \in [Requests -> {0, 200, 502, 503}] /\ upstream' \in [Requests -> Seq(Ids)]
      /\ jobs' \in [Requests -> Entry]
  BY <1>6, RequestFields
<1>8. /\ attempt'[r] \in {1, 2} /\ (~LosesAnswers => JobIsTraced(r)')
      /\ \A d \in Requests \ {r} : /\ attempt'[d] = attempt[d] /\ answer'[d] = answer[d]
                                   /\ upstream'[d] = upstream[d] /\ jobs'[d] = jobs[d]
  BY <1>3, <1>4, <1>6, RequestFields
<1> QED
  BY Zenon, <1>3, <1>4, <1>5, <1>7, <1>8, WayStep

LEMMA LeaseTraced ==
  ASSUME GenerationInvariant, CredentialInvariant', NEW r \in Requests, Lease(r)
  PROVE  GenerationInvariant'
<1>1. work[r].pc = "select" /\ UNCHANGED generationVars
  BY DEF Lease, At
<1>2. PICK id, a : work' = [work EXCEPT ![r] = Preparation(id, a)]
  BY Zenon DEF Lease
<1>3. work'[r].pc = "auth" /\ work'[r].ret = "create"
  <2> DEFINE w == Preparation(id, a)
  <2>1. w \in [pc : {"auth"}, id : {id}, acc : {a}, ret : {"create"}, run : {"none"}, cause : {"none"}]
    BY PreparationFields
  <2> HIDE DEF w
  <2>2. work'[r] = w
    BY <1>2, RequestFields DEF w
  <2> QED
    BY <2>1, <2>2
<1>4. OnItsWay(work[r])' /\ (JobIsTraced(r) => JobIsTraced(r)')
  BY <1>1, <1>3, WayPlaces
     DEF OnItsWay, JobIsTraced, Before, Created, Recorded, Ending, generationVars
<1>9. \A d \in Callers \ {r} : work'[d] = work[d]
  BY Zenon, RequestAlone DEF HandlerStep
<1> QED
  BY <1>1, <1>3, <1>4, <1>9, QuietWayStep

\* The steps that give the request its answer.
LEMMA AnswerTraced ==
  ASSUME GenerationInvariant, CredentialInvariant', NEW r \in Requests,
         Mark(r) \/ NoneLeft(r)
  PROVE  GenerationInvariant'
<1>1. /\ work[r].pc \in {"mark", "select"} /\ UNCHANGED <<attempt, upstream, jobs>>
      /\ Goto(r, "retry") \/ Goto(r, "release")
  <2>1. CASE Mark(r)
    <3>1. PICK pc : pc = IF attempt[r] = 1 /\ r \notin CanvasRequests THEN "retry" ELSE "release"
      OBVIOUS
    <3>2. work[r].pc = "mark" /\ UNCHANGED <<attempt, upstream, jobs>>
      BY <2>1 DEF Mark, At
    <3>3. Goto(r, pc)
      BY <2>1, <3>1 DEF Mark
    <3>4. pc \in {"retry", "release"}
      BY <3>1
    <3> QED
      BY Zenon, <3>2, <3>3, <3>4
  <2>2. CASE NoneLeft(r)
    BY <2>2 DEF NoneLeft, At
  <2> QED
    BY Zenon, <2>1, <2>2
<1>2. work'[r].pc \in {"retry", "release"}
  <2>1. CASE Goto(r, "retry")
    BY <2>1, RequestGoes
  <2>2. CASE Goto(r, "release")
    BY <2>2, RequestGoes
  <2> QED
    BY <1>1, <2>1, <2>2
<1>3. /\ answer' \in [Requests -> {0, 200, 502, 503}]
      /\ \A d \in Requests \ {r} : answer'[d] = answer[d]
      /\ answer[r] # 200 => answer'[r] # 200
  <2>1. answer[r] \in {0, 200, 502, 503}
    BY RequestFields
  <2>2. CASE Mark(r)
    <3>1. PICK s : s = IF attempt[r] = 1 /\ r \notin CanvasRequests THEN answer[r] ELSE 502
      OBVIOUS
    <3>2. s \in {0, 200, 502, 503} /\ (answer[r] # 200 => s # 200)
      BY <2>1, <3>1
    <3>3. answer' = [answer EXCEPT ![r] = s]
      BY <2>2, <3>1 DEF Mark
    <3> QED
      BY <3>2, <3>3, AnswersType
  <2>3. CASE NoneLeft(r)
    <3>1. PICK s : s = IF attempt[r] = 1 THEN 503 ELSE 502
      OBVIOUS
    <3>2. s \in {0, 200, 502, 503} /\ s # 200
      BY <3>1
    <3>3. answer' = [answer EXCEPT ![r] = s]
      BY <2>3, <3>1 DEF NoneLeft
    <3> QED
      BY <3>2, <3>3, AnswersType
  <2> QED
    BY Zenon, <2>2, <2>3
<1>4. OnItsWay(work[r])' /\ (JobIsTraced(r) => JobIsTraced(r)')
  BY <1>1, <1>2, <1>3, WayPlaces DEF OnItsWay, JobIsTraced, Before, Created, Recorded, Ending
<1>5. \A d \in Callers \ {r} : work'[d] = work[d]
  BY Zenon, RequestAlone DEF HandlerStep
<1>6. attempt' = attempt /\ upstream' = upstream /\ jobs' = jobs
  BY <1>1
<1>7. /\ attempt' \in [Requests -> 0 .. 2] /\ upstream' \in [Requests -> Seq(Ids)]
      /\ jobs' \in [Requests -> Entry]
      /\ \A d \in Requests \ {r} : /\ attempt'[d] = attempt[d] /\ answer'[d] = answer[d]
                                   /\ upstream'[d] = upstream[d] /\ jobs'[d] = jobs[d]
  BY <1>3, <1>6, RequestFields
<1>8. (work'[r].pc = "select" => attempt'[r] \in {1, 2}) /\ (~LosesAnswers => JobIsTraced(r)')
  BY <1>2, <1>4, RequestFields
<1> QED
  BY Zenon, <1>3, <1>4, <1>5, <1>7, <1>8, WayStep

\* The entry of the job names the account that ran the create.
LEMMA RecordTraced ==
  ASSUME GenerationInvariant, CredentialInvariant', NEW r \in Requests, RecordJob(r)
  PROVE  GenerationInvariant'
<1>1. /\ work[r].pc = "record" /\ work[r].id \in Ids /\ UNCHANGED <<attempt, upstream>>
      /\ jobs' = [jobs EXCEPT ![r] = [account |-> work[r].id, status |-> "queued"]]
      /\ Goto(r, "wait") \/ Goto(r, "release")
  <2>1. work[r].pc = "record" /\ work[r].id \in Ids
    BY RequestFields DEF RecordJob, At, WithCopy
  <2>2. PICK pc : pc = IF r \in WaitingRequests THEN "wait" ELSE "release"
    OBVIOUS
  <2>3. Goto(r, pc)
    BY <2>2 DEF RecordJob
  <2>4. pc \in {"wait", "release"}
    BY <2>2
  <2>5. /\ UNCHANGED <<attempt, upstream>>
        /\ jobs' = [jobs EXCEPT ![r] = [account |-> work[r].id, status |-> "queued"]]
    BY DEF RecordJob
  <2> QED
    BY Zenon, <2>1, <2>3, <2>4, <2>5
<1>2. work[r].ret = "release"
  BY <1>1, ReturnAhead
<1>3. \/ work'[r].pc = "wait" /\ work'[r].ret = "release"
      \/ work'[r].pc = "release"
  <2>1. "wait" \in WithCopy
    BY DEF WithCopy
  <2>2. CASE Goto(r, "wait")
    <3>1. work'[r].pc = "wait" /\ Stays(r)
      BY <2>1, <2>2, RequestGoes
    <3> QED
      BY <1>2, <3>1 DEF Stays
  <2>3. CASE Goto(r, "release")
    BY <2>3, RequestGoes
  <2> QED
    BY <1>1, <2>2, <2>3
<1>4. /\ jobs' \in [Requests -> Entry] /\ jobs'[r].account = work[r].id
      /\ \A d \in Requests \ {r} : jobs'[d] = jobs[d]
  <2>1. PICK e \in Entry : e = [account |-> work[r].id, status |-> "queued"]
    BY <1>1, LastStatuses DEF Entry
  <2> QED
    BY <1>1, <2>1, RequestFields
<1>5. /\ answer' \in [Requests -> {0, 200, 502, 503}]
      /\ \A d \in Requests \ {r} : answer'[d] = answer[d]
  <2>1. PICK s : s = IF r \in WaitingRequests THEN answer[r] ELSE 200
    OBVIOUS
  <2>2. s \in {0, 200, 502, 503}
    BY <2>1, RequestFields
  <2>3. answer' = [answer EXCEPT ![r] = s]
    BY <2>1 DEF RecordJob
  <2> QED
    BY <2>2, <2>3, AnswersType
<1>6. OnItsWay(work[r])'
  BY <1>3 DEF OnItsWay, Recorded, Ending
<1>7. JobIsTraced(r) => JobIsTraced(r)'
  <2>1. JobIsTraced(r) => upstream[r] = <<work[r].id>>
    BY <1>1, WayPlaces DEF JobIsTraced, Before, Created, Recorded, Ending
  <2>2. jobs'[r].account \in Ids /\ (JobIsTraced(r) => upstream'[r] = <<jobs'[r].account>>)
    BY <1>1, <1>4, <2>1
  <2> QED
    BY <1>3, <2>2 DEF JobIsTraced, Recorded, Ending
<1>8. (\A d \in Callers \ {r} : work'[d] = work[d]) /\ attempt' = attempt /\ upstream' = upstream
  BY <1>1, RequestFields, HandlerMovesItself DEF HandlerStep
<1>9. /\ work'[r].pc # "select" /\ attempt' \in [Requests -> 0 .. 2]
      /\ upstream' \in [Requests -> Seq(Ids)] /\ (~LosesAnswers => JobIsTraced(r)')
      /\ \A d \in Requests \ {r} : /\ attempt'[d] = attempt[d] /\ answer'[d] = answer[d]
                                   /\ upstream'[d] = upstream[d] /\ jobs'[d] = jobs[d]
  BY <1>3, <1>4, <1>5, <1>7, <1>8, RequestFields
<1> QED
  BY Zenon, <1>4, <1>5, <1>6, <1>8, <1>9, WayStep

LEMMA WaitTraced ==
  ASSUME GenerationInvariant, CredentialInvariant', NEW r \in Requests, Wait(r)
  PROVE  GenerationInvariant'
<1>1. work[r].pc = "wait" /\ Run(r) /\ UNCHANGED generationVars
  BY DEF Wait
<1>2. work'[r].pc \in {"wait", "waited", "waitFailed"} /\ Stays(r)
  BY <1>1, RequestFields, HandlerRuns DEF RunsTo
<1>3. work[r].ret = "release"
  BY <1>1, ReturnAhead
<1>4. OnItsWay(work[r])' /\ (JobIsTraced(r) => JobIsTraced(r)')
  BY <1>1, <1>2, <1>3, WayPlaces
     DEF OnItsWay, JobIsTraced, Before, Created, Recorded, Ending, Stays, generationVars
<1>9. \A d \in Callers \ {r} : work'[d] = work[d]
  BY Zenon, RequestAlone DEF HandlerStep
<1> QED
  BY <1>1, <1>2, <1>4, <1>9, QuietWayStep

\* The last status leaves the entry's account alone.
LEMMA EndWaitTraced ==
  ASSUME GenerationInvariant, CredentialInvariant', NEW r \in Requests, EndWait(r)
  PROVE  GenerationInvariant'
<1>1. /\ work[r].pc \in {"waited", "waitFailed"} /\ Goto(r, "status")
      /\ UNCHANGED <<attempt, upstream>>
  BY DEF EndWait
<1>2. work'[r].pc = "status" /\ Stays(r)
  <2>1. Goto(r, "status") /\ "status" \in WithCopy
    BY <1>1 DEF WithCopy
  <2> QED
    BY <2>1, RequestGoes
<1>3. work[r].ret = "release"
  BY <1>1, ReturnAhead
<1>4. /\ jobs' \in [Requests -> Entry] /\ jobs'[r].account = jobs[r].account
      /\ \A d \in Requests \ {r} : jobs'[d] = jobs[d]
  <2>1. PICK s : s \in {"completed", "failed"} /\ jobs' = [jobs EXCEPT ![r].status = s]
    BY DEF EndWait
  <2>2. s \in Statuses
    BY <2>1, LastStatuses
  <2> DEFINE e == [jobs[r] EXCEPT !.status = s]
  <2>3. e \in Entry /\ e.account = jobs[r].account
    <3>1. jobs[r] \in Entry
      BY RequestFields
    <3> QED
      BY <2>2, <3>1 DEF Entry
  <2>4. jobs' = [jobs EXCEPT ![r] = e]
    BY <2>1
  <2>5. jobs \in [Requests -> Entry]
    BY RequestFields
  <2> HIDE DEF e
  <2> QED
    BY Zenon, <2>3, <2>4, <2>5, UpdatedAt
<1>5. /\ answer' \in [Requests -> {0, 200, 502, 503}]
      /\ \A d \in Requests \ {r} : answer'[d] = answer[d]
  <2>1. PICK s : s = IF work[r].pc = "waited" THEN 200 ELSE 502
    OBVIOUS
  <2>2. s \in {0, 200, 502, 503}
    BY <2>1
  <2>3. answer' = [answer EXCEPT ![r] = s]
    BY <2>1 DEF EndWait
  <2> QED
    BY <2>2, <2>3, AnswersType
<1>6. OnItsWay(work[r])'
  BY <1>2, <1>3, WayPlaces DEF OnItsWay, Recorded, Stays
<1>7. JobIsTraced(r) => JobIsTraced(r)'
  BY <1>1, <1>2, <1>3, <1>4, WayPlaces DEF JobIsTraced, Before, Created, Recorded, Ending, Stays
<1>8. (\A d \in Callers \ {r} : work'[d] = work[d]) /\ attempt' = attempt /\ upstream' = upstream
  BY <1>1, RequestFields, HandlerMovesItself DEF HandlerStep
<1>9. work'[r].pc # "select" /\ attempt' \in [Requests -> 0 .. 2] /\ upstream' \in [Requests -> Seq(Ids)]
      /\ \A d \in Requests \ {r} : /\ attempt'[d] = attempt[d] /\ answer'[d] = answer[d]
                                   /\ upstream'[d] = upstream[d] /\ jobs'[d] = jobs[d]
  BY <1>2, <1>4, <1>5, <1>8, RequestFields
<1>10. ~LosesAnswers => JobIsTraced(r)'
  BY Zenon, <1>7, RequestFields
<1> QED
  BY Zenon, <1>4, <1>5, <1>6, <1>8, <1>9, <1>10, WayStep

\* The deferred releases and the return.
LEMMA EndTraced ==
  ASSUME GenerationInvariant, CredentialInvariant', NEW r \in Requests,
         (\E n \in {1, 2} : ReleaseLease(r, n)) \/ Return(r)
  PROVE  GenerationInvariant'
<1>1. work[r].pc = "release" /\ UNCHANGED generationVars /\ work'[r].pc \in {"release", "done"}
  <2>1. CASE \E n \in {1, 2} : ReleaseLease(r, n)
    BY <2>1 DEF ReleaseLease, At, credentialVars
  <2>2. CASE Return(r)
    <3>1. Goto(r, "done") /\ work[r].pc = "release" /\ UNCHANGED generationVars
      BY <2>2 DEF Return, At
    <3> QED
      BY <3>1, RequestGoes
  <2> QED
    BY <2>1, <2>2
<1>2. OnItsWay(work[r])' /\ (JobIsTraced(r) => JobIsTraced(r)')
  BY <1>1, WayPlaces DEF OnItsWay, JobIsTraced, Before, Created, Recorded, Ending, generationVars
<1>9. \A d \in Callers \ {r} : work'[d] = work[d]
  BY Zenon, RequestAlone DEF HandlerStep
<1> QED
  BY <1>1, <1>2, <1>9, QuietWayStep

-----------------------------------------------------------------------------
(* The handlers among all the others *)

LEMMA HandlerTraced ==
  ASSUME GenerationInvariant, NEW r \in Requests, Choose(r, "idle", 1) \/ HandlerStep(r)
  PROVE  GenerationInvariant'
<1>1. CredentialInvariant'
  BY RequestFields, HandlerInvariant
<1>2. CASE (PrepareAccount(r) \/ RefreshRuns(r)) /\ UNCHANGED generationVars
  BY <1>1, <1>2, RefreshTraced DEF HandlerStep
<1>3. CASE \/ SaveTokens(r, "failTokens", "mark") /\ UNCHANGED generationVars
           \/ SaveTokens(r, "tokens", "status") /\ UNCHANGED generationVars
  BY <1>1, <1>3, SaveTokensTraced
<1>4. CASE Choose(r, "idle", 1) \/ Choose(r, "retry", 2) \/ Lease(r)
  BY <1>1, <1>4, ChooseTraced, LeaseTraced
<1>5. CASE Mark(r) \/ NoneLeft(r) \/ RecordJob(r)
  BY <1>1, <1>5, AnswerTraced, RecordTraced
<1>6. CASE Create(r) \/ Wait(r) \/ EndWait(r)
  BY <1>1, <1>6, CreateTraced, WaitTraced, EndWaitTraced
<1>7. CASE (\E n \in {1, 2} : ReleaseLease(r, n)) \/ Return(r)
  BY <1>1, <1>7, EndTraced
<1> QED
  BY <1>2, <1>3, <1>4, <1>5, <1>6, <1>7 DEF HandlerStep

LEMMA GenerationNextInvariant ==
  GenerationInvariant /\ [GenerationNext]_allVars => GenerationInvariant'
<1> SUFFICES ASSUME GenerationInvariant, [GenerationNext]_allVars
             PROVE  GenerationInvariant'
  OBVIOUS
<1>1. CredentialInvariant
  BY DEF GenerationInvariant
<1>2. ASSUME CredentialInvariant', UNCHANGED generationVars,
             \A r \in Requests : work'[r] = work[r]
      PROVE  GenerationInvariant'
  <2>1. GenerationTypeOK'
    BY <1>2 DEF GenerationInvariant, GenerationTypeOK, CredentialInvariant, generationVars
  <2>2. ASSUME NEW r \in Requests
        PROVE  /\ work'[r].pc = "select" => attempt'[r] \in {1, 2}
               /\ OnItsWay(work[r])' /\ (~LosesAnswers => JobIsTraced(r)')
    <3>1. /\ work'[r] = work[r] /\ attempt'[r] = attempt[r] /\ answer'[r] = answer[r]
          /\ upstream'[r] = upstream[r] /\ jobs'[r] = jobs[r]
      BY <1>2 DEF generationVars
    <3>2. /\ work[r].pc = "select" => attempt[r] \in {1, 2}
          /\ OnItsWay(work[r]) /\ (~LosesAnswers => JobIsTraced(r))
      BY RequestFields
    <3>3. OnItsWay(work[r])'
      BY <3>1, <3>2
    <3>4. ~LosesAnswers => JobIsTraced(r)'
      BY <3>1, <3>2 DEF JobIsTraced
    <3> QED
      BY <3>1, <3>2, <3>3, <3>4
  <2> QED
    BY <1>2, <2>1, <2>2 DEF GenerationInvariant
<1>3. CASE CredentialNext /\ UNCHANGED generationVars
  <2>1. CredentialInvariant'
    BY <1>1, <1>3, CredentialNextInvariant
  <2> QED
    BY <1>1, <1>2, <1>3, <2>1, OthersLeaveHandlers
<1>4. CASE UNCHANGED allVars
  <2>1. CredentialInvariant' /\ work' = work /\ UNCHANGED generationVars
    BY <1>1, <1>4, CredentialNextInvariant DEF allVars, credentialVars
  <2> QED
    BY <1>2, <2>1
<1> QED
  BY <1>3, <1>4, HandlerTraced DEF GenerationNext

LEMMA GenerationInitInvariant == GenerationInit => GenerationInvariant
<1> SUFFICES ASSUME GenerationInit
             PROVE  GenerationInvariant
  OBVIOUS
<1>1. CredentialInvariant
  BY CredentialInitInvariant DEF GenerationInit
<1>2. GenerationTypeOK
  <2>1. <<>> \in Seq(Ids) /\ NoJob \in Entry
    BY NoJobFields
  <2> QED
    BY <1>1, <2>1 DEF GenerationTypeOK, GenerationInit, CredentialInvariant
<1>3. ASSUME NEW r \in Requests
      PROVE  work[r].pc = "idle"
  <2>1. Idle.pc = "idle"
    BY DEF Idle
  <2> QED
    BY <2>1, LeaseOfRequest DEF GenerationInit, CredentialInit
<1>4. ASSUME NEW r \in Requests
      PROVE  OnItsWay(work[r]) /\ JobIsTraced(r)
  <2>1. upstream[r] = <<>> /\ jobs[r] = NoJob /\ answer[r] = 0 /\ Before(work[r])
    BY <1>3 DEF GenerationInit, Before
  <2> QED
    BY <2>1 DEF OnItsWay, JobIsTraced
<1> QED
  BY <1>1, <1>2, <1>3, <1>4 DEF GenerationInvariant

\* What the handlers rely on: the pool and the copies are used as their own modules
\* say, a request goes through its two attempts and comes to an end, and while no
\* answer of the upstream is lost it is known at each point of the way which account
\* made its job.
THEOREM GenerationInvariantHolds == GenerationSpec => []GenerationInvariant
<1>1. GenerationInvariant /\ [GenerationNext]_allVars => GenerationInvariant'
  BY GenerationNextInvariant
<1>2. GenerationInit => GenerationInvariant
  BY GenerationInitInvariant
<1> QED
  BY <1>1, <1>2, PTL DEF GenerationSpec

\* Whatever the requests, the refresher, the polls and the console do together, no
\* account runs more jobs than its limit allows.
THEOREM HandlersKeepTheLimit == GenerationSpec => []WithinConcurrency
<1>1. GenerationInvariant => WithinConcurrency
  BY InvariantLimits DEF GenerationInvariant, CredentialInvariant
<1> QED
  BY <1>1, GenerationInvariantHolds, PTL

\* Each job is charged to the account that the job table names, after a failover too,
\* and a request makes one job at most, if no answer of the upstream is lost.
THEOREM EveryRequestMakesOneJob ==
  ASSUME LosesAnswers = FALSE
  PROVE  GenerationSpec => []OneJobPerRequest
<1>1. ASSUME GenerationInvariant
      PROVE  OneJobPerRequest
  <2>1. ASSUME NEW r \in Requests
        PROVE  /\ Len(upstream[r]) <= 1
               /\ jobs[r] # NoJob => upstream[r] = <<jobs[r].account>>
               /\ work[r].pc = "done" /\ answer[r] = 200 => jobs[r] # NoJob
    <3>1. JobIsTraced(r)
      BY <1>1, RequestFields
    <3>2. CASE upstream[r] = <<>> /\ jobs[r] = NoJob /\ answer[r] # 200
      BY <3>2
    <3>3. CASE Created(work[r]) /\ upstream[r] = <<work[r].id>> /\ jobs[r] = NoJob
      BY <3>3, WayPlaces DEF Created
    <3>4. CASE jobs[r].account \in Ids /\ upstream[r] = <<jobs[r].account>>
      BY <3>4, NoJobFields, NoneAssumption
    <3> QED
      BY <3>1, <3>2, <3>3, <3>4 DEF JobIsTraced
  <2> QED
    BY <2>1 DEF OneJobPerRequest
<1> QED
  BY <1>1, GenerationInvariantHolds, PTL

-----------------------------------------------------------------------------
(* The refinement: the pool among its users *)

\* Calls, TokenSets, Balances and StoredAccounts bound for TLC what may be asked of
\* the pool; here they leave out nothing that the goroutines may ask.
PoolIsOpen ==
  /\ {"MarkError", "UpdateCredits", "UpdateTokens", "Probe", "Save"} \subseteq Calls
  /\ TokenSets = [tok : Nat, rt : Nat, exp : Nat]
  /\ Balances = Nat
  /\ StoredAccounts = Account

LEMMA CallIsPoolStep ==
  ASSUME NEW c \in Callers, StartCall(c) \/ Write(c)
  PROVE  PoolNext
  BY DEF PoolNext

\* The steps that save something through the pool.
LEMMA SavesUseThePool ==
  ASSUME PoolIsOpen, CredentialInvariant, NEW c \in Callers,
         \/ \E from \in WithCopy : \E to : SaveTokens(c, from, to) \/ SaveCredits(c, from, to)
         \/ \E from \in WithCopy : SaveCopy(c, from)
         \/ ProbeValid(c)
  PROVE  [PoolNext]_poolVars
<1>0. work[c].id \in Ids /\ work[c].acc \in Account
  <2>1. "probeValid" \in WithCopy
    BY DEF WithCopy
  <2>2. work[c].pc \in WithCopy
    BY <2>1 DEF SaveTokens, SaveCredits, SaveCopy, ProbeValid, At
  <2> QED
    BY <2>2, InHand
<1>1. CASE \E from, to : SaveTokens(c, from, to)
  <2>1. PICK a \in Account : a = work[c].acc
    BY <1>0
  <2>2. PICK ts : ts = [tok |-> a.tok, rt |-> a.rt, exp |-> a.exp]
    OBVIOUS
  <2>3. UNCHANGED poolVars \/ UpdateTokens(c, work[c].id, ts)
    BY <1>1, <2>1, <2>2 DEF SaveTokens, IfStored
  <2>4. ts \in TokenSets
    BY <2>2 DEF PoolIsOpen, Account
  <2>5. UpdateTokens(c, work[c].id, ts) => StartCall(c)
    BY <1>0, <2>4, Zenon DEF StartCall, PoolIsOpen
  <2> QED
    BY <2>3, <2>5, CallIsPoolStep
<1>2. CASE \E from, to : SaveCredits(c, from, to)
  <2>1. PICK b \in Balances : UNCHANGED poolVars \/ UpdateCredits(c, work[c].id, b)
    BY <1>2 DEF SaveCredits, IfStored
  <2>2. UpdateCredits(c, work[c].id, b) => StartCall(c)
    BY <1>0, Zenon DEF StartCall, PoolIsOpen
  <2> QED
    BY <2>1, <2>2, CallIsPoolStep
<1>3. CASE \E from : SaveCopy(c, from)
  <2>1. Save(work[c].id, work[c].acc)
    BY <1>3 DEF SaveCopy
  <2> QED
    BY <1>0, <2>1 DEF PoolNext, PoolIsOpen
<1>4. CASE ProbeValid(c)
  <2>1. PICK b \in Nat : b = work[c].acc.credits
    BY <1>0 DEF Account
  <2>2. UNCHANGED poolVars \/ ProbeSucceeds(c, work[c].id, b)
    BY <1>4, <2>1 DEF ProbeValid, IfStored
  <2>3. b \in Balances /\ "Probe" \in Calls
    BY DEF PoolIsOpen
  <2>4. ProbeSucceeds(c, work[c].id, b) => StartCall(c)
    BY <1>0, <2>3, Zenon DEF StartCall
  <2> QED
    BY <2>2, <2>4, CallIsPoolStep
<1> QED
  BY <1>1, <1>2, <1>3, <1>4

\* The refresher, the polls and the console use the pool as it says it is used.
LEMMA OthersUseThePool ==
  ASSUME PoolIsOpen, CredentialInvariant, CredentialNext
  PROVE  [PoolNext]_poolVars
<1>1. Refreshers \union Keepers \union Probers \union Importers \union Consoles \subseteq Callers
  BY CredentialsAssumption
<1>2. ASSUME NEW c \in Callers,
             \/ \E o, pc : Take(c, o, pc)
             \/ \E id \in Ids : StartKeeper(c, id) \/ StartProbe(c, id) \/ StartImport(c, id)
                                   \/ StartImportCLI(c, id)
             \/ Run(c) \/ RemoveHome(c) \/ StartSweep(c) \/ EndSweep(c)
             \/ \E id \in Ids : SweepAccount(c, id)
      PROVE  UNCHANGED poolVars
  BY <1>2 DEF Take, StartKeeper, StartProbe, StartImport, StartImportCLI, RemoveHome, StartSweep,
              EndSweep, SweepAccount, Run, PrepareRun, CommandEnds, CommandRetries, RetryEnds
<1>3. ASSUME NEW c \in Callers, PrepareAccount(c)
      PROVE  [PoolNext]_poolVars
  <2>1. {"authTokens", "statusTokens", "credits"} \subseteq WithCopy
    BY DEF WithCopy
  <2>2. CASE Authenticate(c) \/ StatusRefresh(c)
    <3>1. \E o, pc : Take(c, o, pc)
      BY <2>2, Zenon DEF Authenticate, StatusRefresh
    <3> QED
      BY <1>2, <3>1
  <2> QED
    BY <1>3, <2>1, <2>2, SavesUseThePool DEF PrepareAccount
<1>4. ASSUME NEW c \in Refreshers, RefresherStep(c)
      PROVE  [PoolNext]_poolVars
  <2>1. c \in Callers /\ "sweepTokens" \in WithCopy
    BY <1>1 DEF WithCopy
  <2> QED
    BY <1>2, <1>4, <2>1, SavesUseThePool DEF RefresherStep
<1>5. ASSUME NEW c \in Keepers, KeeperStep(c)
      PROVE  [PoolNext]_poolVars
  BY <1>1, <1>2, <1>3, <1>5 DEF KeeperStep
<1>6. ASSUME NEW c \in Probers, ProberStep(c)
      PROVE  [PoolNext]_poolVars
  <2>1. c \in Callers /\ {"probeTokens", "probeTokensAgain", "probeSave", "probeCredits"} \subseteq WithCopy
    BY <1>1 DEF WithCopy
  <2>2. CASE ProbeAuth(c)
    <3>1. PICK o : \/ \E pc \in {"probeTokens", "probeStatus", "done"} : Take(c, o, pc)
                   \/ Take(c, [o EXCEPT !.acc = Refused(o.acc, o.res)], "probeSave")
      BY <2>2, Zenon DEF ProbeAuth
    <3>2. \E p, pc : Take(c, p, pc)
      BY <3>1, Zenon
    <3> QED
      BY <1>2, <2>1, <3>2
  <2>3. CASE ProbeRefresh(c)
    <3>1. PICK o : IF o.res = "ok" THEN Take(c, o, "probeTokensAgain")
                   ELSE Take(c, [o EXCEPT !.acc = Refused(o.acc, o.res)], "probeSave")
      BY <2>3, Zenon DEF ProbeRefresh
    <3>2. \E p, pc : Take(c, p, pc)
      BY <3>1, Zenon
    <3> QED
      BY <1>2, <2>1, <3>2
  <2> QED
    BY <1>2, <1>6, <2>1, <2>2, <2>3, SavesUseThePool DEF ProberStep
<1>7. ASSUME NEW c \in Importers, ImporterStep(c)
      PROVE  [PoolNext]_poolVars
  <2>1. c \in Callers /\ "importSave" \in WithCopy
    BY <1>1 DEF WithCopy
  <2>2. CASE ImportAuth(c)
    <3>1. \E o, pc : Take(c, o, pc)
      BY <2>2, Zenon DEF ImportAuth
    <3> QED
      BY <1>2, <2>1, <3>1
  <2> QED
    BY <1>2, <1>7, <2>1, <2>2, SavesUseThePool DEF ImporterStep
<1>8. ASSUME NEW c \in Consoles, ConsoleStep(c)
      PROVE  [PoolNext]_poolVars
  <2>1. c \in Callers
    BY <1>1
  <2>2. CASE Switch(c)
    <3>1. StartCall(c)
      BY <2>2, Zenon DEF Switch, StartCall
    <3> QED
      BY <2>1, <3>1, CallIsPoolStep
  <2>3. CASE DeleteAccount(c)
    BY <2>1, <2>3, CallIsPoolStep DEF DeleteAccount
  <2> QED
    BY <1>2, <1>8, <2>1, <2>2, <2>3 DEF ConsoleStep
<1>9. CASE PoolStep
  BY <1>9, CallIsPoolStep DEF PoolStep, PoolNext
<1>10. CASE RestartServer
  BY <1>10 DEF RestartServer, PoolNext
<1> QED
  BY <1>4, <1>5, <1>6, <1>7, <1>8, <1>9, <1>10 DEF CredentialNext

\* The handlers lease, release and save.
LEMMA HandlersUseThePool ==
  ASSUME PoolIsOpen, GenerationInvariant, NEW r \in Requests,
         Choose(r, "idle", 1) \/ HandlerStep(r)
  PROVE  [PoolNext]_poolVars
<1>1. r \in Callers /\ CredentialInvariant /\ \A n \in {1, 2} : <<r, n>> \in Leases
  BY LeaseOfRequest, RequestFields
<1>2. ASSUME NEW l \in Leases, LeaseStep(l)
      PROVE  PoolNext
  BY <1>2 DEF PoolNext
<1>3. CASE Choose(r, "idle", 1) \/ Choose(r, "retry", 2)
  BY <1>1, <1>2, <1>3 DEF Choose, LeaseStep
<1>4. CASE Lease(r) \/ NoneLeft(r)
  <2>1. PICK l \in Leases : l = <<r, attempt[r]>>
    BY <1>1, <1>4, RequestFields DEF Lease, NoneLeft, At
  <2> QED
    BY <1>2, <1>4, <2>1, Zenon DEF Lease, NoneLeft, LeaseStep
<1>5. CASE \E n \in {1, 2} : ReleaseLease(r, n)
  BY <1>1, <1>2, <1>5 DEF ReleaseLease, LeaseStep
<1>6. CASE Run(r)
  BY <1>6 DEF Run, PrepareRun, CommandEnds, CommandRetries, RetryEnds
<1>7. CASE PrepareAccount(r) \/ SaveTokens(r, "failTokens", "mark") \/ SaveTokens(r, "tokens", "status")
  <2>1. {"authTokens", "statusTokens", "credits", "failTokens", "tokens"} \subseteq WithCopy
    BY DEF WithCopy
  <2>2. CASE Authenticate(r) \/ StatusRefresh(r)
    <3>1. \E o, pc : Take(r, o, pc)
      BY <2>2, Zenon DEF Authenticate, StatusRefresh
    <3> QED
      BY <3>1 DEF Take
  <2> QED
    BY <1>1, <1>7, <2>1, <2>2, SavesUseThePool DEF PrepareAccount
<1>8. CASE Mark(r)
  <2>1. work[r].id \in Ids
    BY <1>8, RequestFields DEF Mark, At, WithCopy
  <2>2. PICK m \in Messages : UNCHANGED poolVars \/ MarkError(r, work[r].id, m)
    BY <1>8 DEF Mark, IfStored
  <2>3. MarkError(r, work[r].id, m) => StartCall(r)
    BY <2>1, Zenon DEF StartCall, PoolIsOpen
  <2> QED
    BY <1>1, <2>2, <2>3, CallIsPoolStep
<1>9. CASE RecordJob(r) \/ EndWait(r) \/ Return(r)
  BY <1>9 DEF RecordJob, EndWait, Return
<1> QED
  BY <1>3, <1>4, <1>5, <1>6, <1>7, <1>8, <1>9 DEF HandlerStep, RefreshRuns, Create, Wait

\* The handlers, the refresher, the polls and the console do to the pool only what its
\* own module says may be done to it, so all that is proved of PoolSpec holds of them.
THEOREM AllUseThePool ==
  ASSUME PoolIsOpen
  PROVE  GenerationSpec => UsesThePool
<1>1. GenerationInit => PoolInit
  BY DEF GenerationInit, CredentialInit
<1>2. GenerationInvariant /\ [GenerationNext]_allVars => [PoolNext]_poolVars
  <2>1. ASSUME GenerationInvariant, GenerationNext
        PROVE  [PoolNext]_poolVars
    BY <2>1, HandlersUseThePool, OthersUseThePool DEF GenerationNext, GenerationInvariant
  <2>2. UNCHANGED allVars => UNCHANGED poolVars
    BY DEF allVars
  <2> QED
    BY <2>1, <2>2
<1> QED
  BY <1>1, <1>2, GenerationInvariantHolds, PTL DEF GenerationSpec, PoolSpec, UsesThePool

\* So without deletions the handlers and the console's goroutines together see a counting
\* semaphore per account.
THEOREM AllSeeSemaphores ==
  ASSUME PoolIsOpen, "Delete" \notin Calls
  PROVE  GenerationSpec => ImplementsSemaphore
  BY AllUseThePool, PoolImplementsSemaphore DEF UsesThePool

\* And among all of them no account comes back by itself except out of a cooldown, and
\* the label that the console shows agrees with the scheduler's verdict.
THEOREM AllSeeTheSameHealth ==
  ASSUME PoolIsOpen
  PROVE  GenerationSpec => []ValidMeansSelectable /\ OnlyCooldownsHeal
  BY AllUseThePool, ValidAlwaysSelectable, TimeHealsNobodyElse DEF UsesThePool

=============================================================================
