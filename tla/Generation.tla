----------------------------- MODULE Generation -----------------------------
(* The handlers that create jobs (internal/openaiapi/handlers.go,            *)
(* runGeneration; internal/openaiapi/videos_compat.go, videosCreate) on top  *)
(* of the pool and of the accounts' tokens.  One goroutine serves a request: *)
(* it leases an account, brings its tokens and credits up to date, runs the  *)
(* CLI's create, and on a failure leases an account once more (POST          *)
(* /v1/generate and the OpenAI endpoints) or gives up (POST /v1/videos).     *)
(* Then it records the job, waits for it if asked to, and answers; the       *)
(* deferred releases run last.                                               *)
EXTENDS Credentials, Sequences

CONSTANTS
    Requests,           \* requests, each served by a goroutine of its own
    CanvasRequests,     \* those that come in as POST /v1/videos
    WaitingRequests     \* those that wait for the job's result

ASSUME RequestsAssumption ==
    /\ Requests \subseteq Callers
    /\ Requests \intersect (Refreshers \union Keepers \union Probers \union Importers
                               \union Consoles) = {}
    /\ Leases = Requests \X {1, 2}
    /\ CanvasRequests \subseteq Requests
    /\ WaitingRequests \subseteq Requests \ CanvasRequests
    /\ "Restart" \notin Calls     \* what a restart does to the job table is in Jobs

VARIABLES
    attempt,    \* attempt[r]: how many accounts request r asked the pool for
    answer,     \* answer[r]: the status code r is about to return, 0 while it runs
    upstream,   \* upstream[r]: the accounts of the jobs upstream created for r
    jobs        \* Handler.jobs: jobs[r] is the entry of r's job

generationVars == <<attempt, answer, upstream, jobs>>

allVars == <<poolVars, credentialVars, generationVars>>

NoJob == [account |-> NoAccount, status |-> ""]

-----------------------------------------------------------------------------

\* Select, first half: read the account files.
Choose(r, from, n) ==
    /\ At(r, from)
    /\ ListAccounts(<<r, n>>)
    /\ Goto(r, "select")
    /\ attempt' = [attempt EXCEPT ![r] = n]
    /\ UNCHANGED <<answer, upstream, jobs>>

\* prepareAccount for the leased account.
Preparation(id, a) == [Starting("auth", id, a) EXCEPT !.ret = "create"]

\* Mutant of Lease: the first listed account is taken, fit or not.
LeaseFirstListed(r) ==
    LET l == <<r, attempt[r]>>
        files == listing[l].files
    IN
    /\ At(r, "select")
    /\ \E id \in Present(files) :
          /\ \A j \in Present(files) : id <= j
          /\ inflight' = [inflight EXCEPT ![id] = @ + 1]
          /\ lease' = [lease EXCEPT ![l] = id]
          /\ work' = [work EXCEPT ![r] = Preparation(id, files[id])]
    /\ listing' = [listing EXCEPT ![l] = NoList]
    /\ UNCHANGED <<disk, rr, now, call, forgotten, issued, sweep, home, generationVars>>

Lease(r) ==
    LET l == <<r, attempt[r]>> IN
    /\ At(r, "select")
    /\ \E id \in Ids :
          /\ Pick(l, id)
          /\ work' = [work EXCEPT ![r] = Preparation(id, listing[l].files[id])]
    /\ UNCHANGED <<issued, sweep, home, generationVars>>

\* "no available account" the first time, the upstream's error the second time.
NoneLeft(r) ==
    /\ At(r, "select")
    /\ SelectFails(<<r, attempt[r]>>)
    /\ Goto(r, "release")
    /\ answer' = [answer EXCEPT ![r] = IF attempt[r] = 1 THEN 503 ELSE 502]
    /\ UNCHANGED <<attempt, upstream, jobs>>

\* CLI.CreateOpts.  A create that runs and whose answer is lost looks like a failure.
Create(r) ==
    LET created == [upstream EXCEPT ![r] = Append(@, work[r].id)] IN
    /\ work[r].pc = "create"
    /\ Run(r)
    /\ \/ work'[r].pc = "tokens" /\ upstream' = created
       \/ work'[r].pc # "tokens" /\ UNCHANGED upstream
       \/ /\ LosesAnswers
          /\ work[r].run # "none" /\ work'[r].pc = "failTokens"
          /\ upstream' = created
    /\ UNCHANGED <<attempt, answer, jobs>>

\* handleUpstreamError, then another account or the end.
Mark(r) ==
    LET again == attempt[r] = 1 /\ r \notin CanvasRequests IN
    /\ At(r, "mark")
    /\ \E m \in Messages : IfStored(work[r].id, MarkError(r, work[r].id, m))
    /\ Goto(r, IF again THEN "retry" ELSE "release")
    /\ answer' = [answer EXCEPT ![r] = IF again THEN @ ELSE 502]
    /\ UNCHANGED <<attempt, upstream, jobs>>

\* Mutant of RecordJob: the account of the first attempt is recorded.
RecordFirstAccount(r) ==
    LET waits == r \in WaitingRequests IN
    /\ At(r, "record")
    /\ jobs' = [jobs EXCEPT ![r] = [account |-> lease[<<r, 1>>], status |-> "queued"]]
    /\ Goto(r, IF waits THEN "wait" ELSE "release")
    /\ answer' = [answer EXCEPT ![r] = IF waits THEN @ ELSE 200]
    /\ UNCHANGED <<poolVars, attempt, upstream>>

RecordJob(r) ==
    LET waits == r \in WaitingRequests IN
    /\ At(r, "record")
    /\ jobs' = [jobs EXCEPT ![r] = [account |-> work[r].id, status |-> "queued"]]
    /\ Goto(r, IF waits THEN "wait" ELSE "release")
    /\ answer' = [answer EXCEPT ![r] = IF waits THEN @ ELSE 200]
    /\ UNCHANGED <<poolVars, attempt, upstream>>

\* CLI.Wait.
Wait(r) == work[r].pc = "wait" /\ Run(r) /\ UNCHANGED generationVars

\* Mutant of EndWait: the error goes where the status belongs.
EndWaitRecordsError(r) ==
    /\ work[r].pc \in {"waited", "waitFailed"}
    /\ jobs' = [jobs EXCEPT ![r].status = IF work[r].pc = "waited" THEN "completed" ELSE "timeout"]
    /\ answer' = [answer EXCEPT ![r] = IF work[r].pc = "waited" THEN 200 ELSE 502]
    /\ Goto(r, "status")
    /\ UNCHANGED <<poolVars, attempt, upstream>>

\* The entry's last status; then the credits once more.
EndWait(r) ==
    LET ok == work[r].pc = "waited" IN
    /\ work[r].pc \in {"waited", "waitFailed"}
    /\ \E s \in IF ok THEN {"completed", "failed"} ELSE {"failed"} :
          jobs' = [jobs EXCEPT ![r].status = s]
    /\ answer' = [answer EXCEPT ![r] = IF ok THEN 200 ELSE 502]
    /\ Goto(r, "status")
    /\ UNCHANGED <<poolVars, attempt, upstream>>

\* Mutant of ReleaseLease: only the lease of the last attempt is given back.
ReleaseLastLease(r, n) ==
    /\ At(r, "release")
    /\ n = attempt[r]
    /\ Release(<<r, n>>)
    /\ UNCHANGED <<credentialVars, generationVars>>

\* The deferred releases, the last one first.
ReleaseLease(r, n) ==
    /\ At(r, "release")
    /\ n = 1 => lease[<<r, 2>>] = NoAccount
    /\ Release(<<r, n>>)
    /\ UNCHANGED <<credentialVars, generationVars>>

Return(r) ==
    /\ At(r, "release")
    /\ \A n \in {1, 2} : lease[<<r, n>>] = NoAccount
    /\ Goto(r, "done")
    /\ UNCHANGED <<poolVars, generationVars>>

\* refreshCredits's command.
RefreshRuns(r) == work[r].pc \in {"status", "statusAgain"} /\ Run(r)

HandlerStep(r) ==
    \/ Choose(r, "retry", 2)
    \/ Lease(r)
    \/ NoneLeft(r)
    \/ (PrepareAccount(r) \/ RefreshRuns(r)) /\ UNCHANGED generationVars
    \/ Create(r)
    \/ SaveTokens(r, "failTokens", "mark") /\ UNCHANGED generationVars
    \/ Mark(r)
    \/ SaveTokens(r, "tokens", "status") /\ UNCHANGED generationVars
    \/ RecordJob(r)
    \/ Wait(r)
    \/ EndWait(r)
    \/ \E n \in {1, 2} : ReleaseLease(r, n)
    \/ Return(r)

-----------------------------------------------------------------------------

GenerationInit ==
    /\ CredentialInit
    /\ attempt = [r \in Requests |-> 0]
    /\ answer = [r \in Requests |-> 0]
    /\ upstream = [r \in Requests |-> <<>>]
    /\ jobs = [r \in Requests |-> NoJob]

GenerationNext ==
    \/ \E r \in Requests : Choose(r, "idle", 1) \/ HandlerStep(r)
    \/ CredentialNext /\ UNCHANGED generationVars

GenerationSpec == GenerationInit /\ [][GenerationNext]_allVars

\* A request that began is served to its end: the pool's methods return and so do
\* the CLI's commands (the code sets no limit on them, so this is assumed of the
\* CLI).  Nothing is assumed of the clients.
GenerationFairness ==
    \A r \in Requests :
        /\ WF_allVars(HandlerStep(r))
        /\ WF_allVars(Write(r) /\ UNCHANGED <<credentialVars, generationVars>>)

FairGenerationSpec == GenerationSpec /\ GenerationFairness

-----------------------------------------------------------------------------
(* Properties *)

Statuses == {"", "queued", "completed", "failed"}

Entry == [account : Ids \union {NoAccount}, status : Statuses]

\* The types of the handlers' state; a request has two attempts at most and answers
\* with one of the codes of the documents.
GenerationTypeOK ==
    /\ CredentialTypeOK
    /\ attempt \in [Requests -> 0 .. 2]
    /\ answer \in [Requests -> {0, 200, 502, 503}]
    /\ upstream \in [Requests -> Seq(Ids)]
    /\ jobs \in [Requests -> Entry]

\* Where prepareAccount and refreshCredits are, wherever they return to.
Refreshing == {"auth", "authTokens", "status", "statusRefresh", "statusTokens", "statusAgain",
               "credits"}

\* A handler's way: before upstream has created the job, before the job is on record,
\* and from there to the end.
Before(w) ==
    \/ w.pc \in {"idle", "select", "retry"}
    \/ w.pc \in Refreshing /\ w.ret = "create"
    \/ w.pc \in {"create", "failTokens", "mark"} /\ w.ret = "record"

Created(w) ==
    \/ w.pc \in Refreshing \union {"tokens"} /\ w.ret = "record"
    \/ w.pc = "record" /\ w.ret = "release"

Recorded(w) == w.pc \in Refreshing \union {"wait", "waited", "waitFailed"} /\ w.ret = "release"

Ending(w) == w.pc \in {"release", "done"}

OnItsWay(w) == Before(w) \/ Created(w) \/ Recorded(w) \/ Ending(w)

\* What upstream and the job table know of a request at each point of its way.
JobIsTraced(r) ==
    LET w == work[r]
        unknown == upstream[r] = <<>> /\ jobs[r] = NoJob
        known == jobs[r].account \in Ids /\ upstream[r] = <<jobs[r].account>>
    IN  \/ Before(w) /\ unknown /\ answer[r] # 200
        \/ Created(w) /\ w.id \in Ids /\ upstream[r] = <<w.id>> /\ jobs[r] = NoJob
        \/ Recorded(w) /\ known
        \/ Ending(w) /\ (known \/ (unknown /\ answer[r] # 200))

\* What GenerationProofs proves to be inductive: what a request has created is known
\* only if no answer of the upstream is lost.
GenerationInvariant ==
    /\ CredentialInvariant
    /\ GenerationTypeOK
    /\ \A r \in Requests : work[r].pc = "select" => attempt[r] \in {1, 2}
    /\ \A r \in Requests : OnItsWay(work[r]) /\ (~LosesAnswers => JobIsTraced(r))

\* Every request that began gets its answer, with every lease given back, on every
\* path through the two attempts and whatever the other requests hold.
EveryRequestAnswered ==
    \A r \in Requests :
        attempt[r] > 0
            ~> /\ work[r].pc = "done" /\ answer[r] # 0
               /\ \A n \in {1, 2} : lease[<<r, n>>] = NoAccount

\* The account to which a job is charged is the one the job table names, also
\* after a failover, so polls ask the right account; and a request creates one job
\* at most (provided that no answer of the upstream is lost).
OneJobPerRequest ==
    \A r \in Requests :
        /\ Len(upstream[r]) <= 1
        /\ jobs[r] # NoJob => upstream[r] = <<jobs[r].account>>
        /\ work[r].pc = "done" /\ answer[r] = 200 => jobs[r] # NoJob

\* Failover moves on: the second attempt of a request does not lease the account
\* that just failed it.  It relies on the order of UpdateTokens, which ends the
\* cooldown, and MarkError, which starts it.
FailoverMovesOn ==
    \A r \in Requests :
        (lease[<<r, 1>>] # NoAccount /\ lease[<<r, 2>>] # NoAccount)
            => lease[<<r, 1>>] # lease[<<r, 2>>]

\* The handlers, the refresher and the probes use the pool as its own module says,
\* so what is proved of the pool holds of the whole.
UsesThePool == PoolSpec

=============================================================================
