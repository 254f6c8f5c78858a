# A specification of higgsfield-proxy

higgsfield-proxy is a proxy with an OpenAI-like API in front of a pool of
higgsfield accounts. It runs the `higgsfield` command line program with the
credentials of one account per request, keeps the accounts' OAuth tokens alive
and has a web console. This directory holds TLA+ modules that model it, TLC
configurations that check them on small instances, and theorems that TLAPS
proves for every instance. All paths below are under `src/`.

## The system

| Component | State | Operations | What is hard about it |
|---|---|---|---|
| Account record (`internal/account/account.go`) | tokens, expiry, credits, disabled, cooldown, last error, auth status | `Healthy`, `StatusLabel`, `TokenExpired`, `Public` | scheduler and console judge one record by different functions |
| Account files (`account/store.go`) | `data/accounts/<id>.json` | `List`, `Get`, `Save`, `Delete` under a lock each | `Save` is not atomic against a crash |
| Pool (`account/pool.go`) | `inflight`, `rr` in memory | `Select`, `Release`, `MarkError`, `UpdateCredits`, `UpdateTokens`, `SetDisabled`, `Delete`, `Save` | every method reads, changes and writes a file with no lock over the two; `Select` lists before it locks |
| Token renewal (`higgs/oauth.go`, `higgs/cli.go`) | a goroutine's copy of an account; the login at Clerk | `RefreshAccount`, `EnsureAuth`, `run` | refresh tokens are single use, many goroutines hold copies |
| CLI runner (`higgs/cli.go`) | the account's home directory `cli-homes/<id>` with `credentials.json` | `prepareAccountDir`, `run`, `AccountStatus`, `WorkspaceList`, `CreateOpts`, `Get`, `Wait` | commands fail, take minutes, renew tokens inside; all goroutines of an account share one home |
| Background refresher (`cmd/server/main.go`) | its listing | a sweep every ten minutes | races with everybody else who renews |
| Console probe (`admin/handlers.go`) | the listed record | `probeAccountAuth` | saves whole stale records |
| Account import (`admin/handlers.go`, `higgs/cli.go`) | the record under construction | `ImportCLI`, `ImportCredentials`, `finalizeAndSaveAccount` | renews tokens and saves a whole record beside whoever serves the account |
| Generation (`openaiapi/handlers.go`, `videos_compat.go`) | a goroutine per request, `Handler.jobs` | `runGeneration`, `videosCreate` | failover between two leases, cooldowns set and cleared by different requests |
| Polling (same files) | `Handler.jobs` | `JobGet`, `videosGet` | works on an entry looked up before upstream was asked; the table dies with the process |
| API keys (`apikey/store.go`, `server/server.go`) | list in memory, `api_keys.json` | `Create`, `SetEnabled`, `Delete`, `Valid`, `Touch`, `SeedFromConfig` | memory and file differ after failures and crashes |
| Console sessions (`session/session.go`) | tokens and expiries in memory | `Create`, `Clear`, `Valid` | sliding renewal against logout |
| Browser login (`higgs/oauth.go`, `admin/handlers.go`) | pending logins in memory | `StartBrowserOAuth`, `CompleteBrowserOAuth` | a code is good once, a login for 15 minutes |
| Request log (`reqlog/store.go`, `server/server.go`) | entries, `request_logs.json` | `Add`, the logging wrapper | concurrent ends, a cut, a variable shared by all requests |
| Parameter mapping (`openaiapi/map.go`, `handlers.go`, `videos_compat.go`, `config/`) | none | `SizeToAspect`, `VideoParams`, `normalizeCanvasSize`, `ResolveModelSpec`, `Generate` | a value passes through several conversions; model and kind are settled in different places |
| Media (`media/resolve.go`, `map.go`, `videos_compat.go`) | the uploads directory | `FilesUpload`, `saveFormFiles`, `BuildCreateOpts`, `Resolve` | concurrent requests store files under names from the clock; some references fail |
| Configuration loading, routes, pages | none of their own | | |

Requests, polls, the refresher and the console run concurrently. They meet in
the account files (each through its own copy), in the pool's counters, in the job
table, and at Clerk, where whoever renews first makes all other copies of the
refresh token worthless. `PROJECT.json` lists the hazards at their lines.

What makes each part correct: the pool never overloads, loses or starves an account;
a renewed token reaches the disk and is not replaced by an older one; a request
gives back what it took, is answered, moves on to another account and creates
one job, charged to the account the table names; what a poll tells of an
end has a reason, and a client that keeps polling hears of the end; a revoked key or session stays out; a login is
exchanged once; the log is the newest requests; a job is asked for what the
request named, with parameters of its kind and with the request's own media.

## The modules

```
AccountHealth          the record and the verdicts on it (operators)
  AccountPool          files, Select/Release, read-change-write calls      --implements--> AccountSemaphore
    Credentials        Clerk, token renewal, homes; refresher, keeper, probe, imports, deletion
      Generation       the handlers that create jobs
Jobs                   the job table and its polls                       --implements--> JobOutcomes
ApiKeys  Sessions  OAuthLogin  RequestLog  RequestMapping  Media     (MCStores: one of them at a time)
*Proofs                theorems about the module of that name (RequestProofs: RequestLog, RequestMapping and Media)
MC*                    instances for TLC
```

**AccountHealth.** `Account` is the record with tokens as generation numbers (0 is
the empty string), times in ticks (0 is the zero value), `last_error` as the kind
that `isAuthFailureError` sees. `Healthy`, `StatusLabel`, `TokenExpired`,
`CanRefresh` are the functions of these names. Negative credits do not occur:
the code compares them with zero and with the threshold only.

**AccountPool.** `disk` is the directory of account files, `inflight` and `rr` are
the pool's fields. A *lease* is one `Select ... defer Release`: `ListAccounts` is
`store.List()` before the lock, `Pick` and `SelectFails` the scan under the lock, at a
clock value between the two, `Release` what `defer` runs. A *call* is one of
the methods that change a file: `MarkError`, `UpdateCredits`, `UpdateTokens`,
`SetDisabled` and the probe's tail are each a `Read` (which computes the record to
write) and a `Write`; `Delete` first drops the count and then removes the file.
`Save` is the blind write of an import or login. `Restart` empties
memory, and may leave a file that was being written unreadable. `Calls` says
which of these the clients of an instance use. `forgotten` is auxiliary: the
leases whose count a `Delete` dropped.

**AccountSemaphore** is what the pool promises: a counting semaphore per
account. `Semaphore` in AccountPool is the refinement mapping (a permit is free
if it is not in flight).

**Credentials** adds Clerk (`issued`, the newest token pair of a login), the accounts'
home directories (`home`, what `credentials.json` holds and who wrote it) and goroutines with
a program counter and a copy of an account (`work`). `RefreshAccount` and
`EnsureAuth` give the outcomes possible for a copy. A command is `CLI.run` in up to three
steps: `PrepareRun` renews and writes the home, `CommandEnds` and `CommandRetries` are what the
command answers and the renewal after an authentication failure, `RetryEnds` is the second
command. `After` says where the caller goes on, `Judged` what it makes of its copy. A
command answers by the file it finds; while another goroutine of the account may be
writing that file (`Preparing`) it can answer anything. A renewal can be refused, find Clerk out of reach,
or find it busy (an error status, whose text isAuthFailureError takes for a refusal and the probe does not). `cause` is auxiliary:
why a probe's command failed, if not by the fault of its copy. `RefresherStep` is the
loop of `main.go`, `KeeperStep` is `refreshCreditsByID` (and `prepareAccount`), `ProberStep`
is `probeAccountAuth`, `ImporterStep` is an import of any of the three kinds, which ends in
`SaveCopy`, and `ConsoleStep` enables, disables or deletes an account, with the removal of its home
after that of its file. `RestartServer` drops every goroutine with its copy. Console requests and keepers run once
per behaviour; the refresher runs for ever.

**Generation** composes pool and credentials into `runGeneration` and
`videosCreate` (`CanvasRequests`), one goroutine per request with two possible leases
`<<r, 1>>` and `<<r, 2>>`. `UsesThePool == PoolSpec` says that the composed system
takes no step the pool's own module does not allow.

**Jobs** is the job table and its polls. `entries` are the `localJob` structs, to which
a poll keeps its pointer, `table` is the map. `stage` is how far the handler that
creates a job is. A wait ends in two steps, as in the code: `WaitReturns` or `WaitFails` writes the entry, `AnswerWait` refreshes the
credits and answers. `Wait` may return a job that has not ended. A failed wait marks the entry "failed" and leaves its error in it, where nothing ever clears it,
while the job goes on; the 502 that the client gets names the job if it is the command's error, which quotes the arguments
(`abandoned`), and does not otherwise (`lost`). Polls by `GET /v1/jobs/{id}` pass upstream's word on (`ReplyJob`), those by
`GET /v1/videos/{id}` map it and write it to the entry (`ReplyVideo`), and where upstream does not answer they fall back on the entry, in which
an error makes the job failed and a URL makes it completed (`ReplyFromEntry`). `shown` is whether upstream has a result's URL, which it may have before or after it calls the job
completed. A poll that sees an end, or in `JobGet` a URL, leaves the refresh of the credits to a goroutine (`due`,
`Refresh`). `tried` and `told` are auxiliary. Whether a request waits for its job, and which of the two endpoints a
poll comes in by (`video`), is open at every step.

A refresh that ran is counted whether or not it changed the balance: it does nothing if the account is gone or upstream does not answer, and nobody tries again. So
`EndIsSettled` says that a refresh was tried after the end or is still to be tried, and no more. The refresh that `videosGet` makes before it asks upstream
is one of the keepers of Credentials; it may come before the end and is not counted.

**JobOutcomes** is what a client may meet of a job: it ends once (`End`), the client gets to know of it (`Inform`, `GiveUp`),
is left without it (`Lose`), or is told an end (`Tell`) that the job has or that there is a `hint` of: a result that shows early, a wait that failed.
`Outcomes` in Jobs is the refinement mapping (a job has an outcome once its status upstream is final).

**ApiKeys, Sessions, OAuthLogin, RequestLog** model one store each with the handlers
that use it. In ApiKeys an operation changes the list, writes the temporary file
and renames it in three steps, holding the lock, so that it can fail or the process can stop in
between; `acked` is what the console knows. In RequestLog the wrapper's string
variable is written without a lock, so its pointer and its length are written in
two steps in either order.

**RequestMapping** has the translation as operators that bear the names of the functions
(`SizeToAspect`, `NormalizeCanvasSize`, `ResolveModelSpec`, ...), and one action that applies
a route's handler to a request. `SeedanceNames` are the names in which `Generate` finds "seedance", aliases included. A size is a name or a pair of pixel counts, so that the division
and the search for digits work on numbers as in the code.

**Media** has the uploads directory (`uploads`, by name) and a request per client. For each group of media (three lists and two
frames) the request keeps what is left to handle (`todo`), the form's files that are stored (`saved`) and the values for the command
(`flags`). `SaveFormFile` stores or drops the next file, `Accept` refuses the request or joins references and files
(`References`), and one by one the references are resolved (`ResolveByContent` stores data and downloads,
`ResolveByName` knows a path, a stored file or an upload), passed over (`PassOverBlank`) or refused (`RefuseMedia`); groups take their turns in
the order of the code (`FileTurns`, `RefTurns`). `Command` is what `BuildCreateOpts` and `CLI.CreateOpts` pass on.
A media is a model value with the extension it is stored with.

These six share no state and no lock; MCStores checks them
in one run in which a behaviour picks the part that moves.

## What TLC checks

| Run | Question | Result | States |
|---|---|---|---|
| `pool_slots` | slots are accounted for, the limit holds, under failures, deletions, imports and restarts; label and verdict agree, only cooldowns heal | holds | 399 000 |
| `pool_rotation` | no healthy account starves, a disabled one drains, the pool implements the semaphore | holds | 66 000 |
| `token_refresher` | the refresher keeps logins alive and saves what it renews | holds | 4 100 |
| `token_keepers` | a keeper, a probe, an import, a deletion and a restart on one account, with failures and lost answers: no stale token is written by `UpdateTokens`, an import saves the newest it renewed, a probe saves a login as lost for one of the causes named below only | holds | 2 900 000 |
| `generation` | each request is answered, gives its leases back, creates one job under the recorded account; the composition uses the pool as specified | holds | 112 000 |
| `jobs` | announced ends happened or have one of the two other reasons the code has, credits are refreshed after an end that the table shows, who polls hears of the end; the table implements `JobOutcomes` | holds | 503 000 |
| `stores` | keys: what the console was told lasts, revoked keys stay out; sessions: logout is final, idle sessions end; logins: one exchange each, in time; log: the newest entries in order; mapping: the job is asked for what the request names, with the parameters of its kind; media: each request's own, all of them, in order, under the right flag | holds | 650 000 |
| `lost_updates` | a write is undone by a call that read before it | violated | |
| `semaphore_exceeded` | deletion under open leases breaks the limit | violated | |
| `tokens_dropped` | tokens renewed inside a command never reach the disk | violated | |
| `failover_repicks` | another request ends the cooldown, the failed account is leased again | violated | |
| `log_kinds` | the first request decides the kind of all | violated | |

Each violated run states what a document or a comment of the repository says;
`PROJECT.json` ("findings") quotes it. The type invariants of `token_refresher`, `generation` and
`jobs` are the inductive invariants of the proofs (`CredentialInvariant`, `GenerationInvariant`, `JobsInvariant`), which contain the
types. 
`CondemnedForCause` names the causes for which `probeAccountAuth` saves an account as "refresh_failed", whatever error it records: the copy's refresh token
is missing or spent, or Clerk ended the login; or the copy's access token ran out and the renewal did not come through, for whatever reason; or a command of the probe
ran on credentials that another goroutine put, or was putting, into the home; or its second `AccountStatus` failed, and not on authentication. The last three can hit a login that
Clerk would renew: the code makes no promise that they do not. With any of these causes left out of the property, TLC finds a probe that condemns without it.

`NewestTokensSaved` holds in one run and fails in another:
of the refresher alone, while nothing fails, and of `refreshCreditsByID`.

Every property of a passing run has a mutant: an operator next to the definition it
replaces, commented "Mutant of ...", that changes the definition as a plausible bug would, and
breaks the property.

### Documents and code

Beside the five violated runs, the following disagreements were found by reading while the
modules were written. The modules follow the code.

* `docs/CANVAS_INTEGRATION.md:140` says of 502 `upstream_error` that the proxy switches to another account by itself;
  `videosCreate` answers 502 after its first failed create (`videos_compat.go:204`; `Mark` in Generation).
* The design document (`docs/superpowers/specs/2026-07-28-higgsfield-openai-proxy-design.md`), line 293, has "Global max concurrent jobs configurable."; `GlobalConcurrency`
  (`config.go:22`) is read by no code.
* `types.go:98` has the kinds "image|video|auto" for `POST /v1/generate`; `Generate` takes "auto" for "image", also with a video model
  (`handlers.go:206`). With kind "video" and no model it starts the default image model with the parameters
  of a video, because `ResolveModelSpec` has filled in the model before the branch for that case (`handlers.go:181`).
* An alias with "seedance" in its name that stands for a job of images gets the parameters of a video
  (`handlers.go:192` looks at the name the client sent, not at the job). `KindFitsTheJob` excepts it.
* `catalog.go:24` lists `kling_omni_image` under "image"; `guessKind` takes every name with "kling" for a video.
* The repository's `README.md:75` accepts "base64 data URL"s; a JSON body is cut at 8 MB (`server/server.go:147`), so a larger picture in it is an invalid JSON body.
* A canvas's resolution "4k" is passed as "4kp" (`normalizeRes`). The ratios 3:2 and 2:3, which `SizeToAspect` knows, are not ratios
  for `isRatio`, so the resolution named with them is dropped.
* `formatDuration` (`higgs/cli.go:428`) tests `d%d == 0`, which always holds: a wait of 90 seconds is passed as "1m".
* The design document, line 281, asks to disable an account whose refresh fails; `handleUpstreamError`
  (`handlers.go:447`) gives it a cooldown of ten minutes.
* `account.go:50` says "If last_error indicates refresh/auth failure, not healthy."; `Healthy` asks so only once the
  access token has expired.
* `handlers.go:285` says "persist tokens if Create refreshed them"; the handler saves its copy's tokens always, so it can replace
  tokens the refresher renewed meanwhile by dead ones (`SaveTokens` after `Create`).
* The probe that fails to renew its copy saves the whole of it (`admin/handlers.go:73`, `SaveCopy`), which can
  replace renewed tokens by dead ones; its comment, line 54, speaks of `AuthStatus` only.
* `admin/handlers.go:99` has "network blip: if token not expired, keep valid"; after a renewal, a blip in the second status saves the account as
  "refresh_failed" (line 94), and a renewal that finds Clerk out of reach does so too (line 86). `CondemnedForCause` names these cases.
* An answer of Clerk with an error status, 503 say, reads "refresh failed (503)" (`oauth.go:110`), which `isAuthFailureError` (`account.go:170`) takes for
  an authentication failure: once its access token has expired, `Healthy` and `StatusLabel` show the login as lost, though Clerk may renew it (outcome "busy" of `RefreshAccount`).
* `EnsureAuth` returns (true, err) when it renewed the tokens and could not write the CLI's credentials file (`cli.go:105`);
  all its callers drop the tokens then (`res = "unwritten"`).
* Account ids are hashes of access tokens (`admin/handlers.go:504`): a login imported again after a renewal becomes a second account
  on the same single-use refresh token. Imported with the same token, it replaces the record, tokens renewed since included (`SaveCopy`).
* The design document, lines 56 and 246, promises a job handle with status "queued" when a wait times out; `runGeneration` answers 502
  `upstream_error` and marks the entry "failed" (`handlers.go:327`), although the job goes on (`WaitFails`, `AnswerWait`). A poll by `/v1/videos` that gets no answer from upstream then
  says "failed", also of a job that has been completed since. `EndsAreTrue` excepts it.
* `docs/CANVAS_INTEGRATION.md:130` has clients poll `/v1/jobs/{id}` until "completed|failed"; `JobGet` passes on upstream's words, so such a client
  never hears of the end of a job that upstream calls "nsfw" or "cancelled" (`ReplyJob`). `EndIsReported` excepts it.
* `handlers.go:342` has "final settle balance after completion/failure"; a refresh that fails there is not tried again, and `CLI.Wait` may have returned a job that has not ended.
* `videos_compat.go:308` refreshes credits "once when job reaches terminal state"; a late poll sets the entry's status back and the next one
  refreshes again (`ReplyVideo`).
* `apikey/store.go:183` "imports static config keys once if store empty"; it does so at every start with an empty
  list (`Seeded`), also after the console deleted them.

### Bounds

`MaxNow` (`MaxClock` for logins) bounds the clock; it reaches every expiry and TTL an instance starts with
where time plays a part, and is 0 elsewhere. `MaxIssued` bounds the token pairs Clerk
issues; afterwards it refuses, which is also how it ends a login, so at least one
renewal and one refusal happen in every run with logins. `MaxRestarts`, `MaxRefreshes` and the cap of
`2 * MaxEntries` on logged requests bound counters: one restart separates a life
with a table from one without, two refreshes are one more than is asked for, the log is
cut at 2 entries and sees 4. Two accounts make a failover possible and three make a
rotation; two leases exceed a limit of one; two goroutines are enough for a
read-change-write to be undone, two polls for a late answer. In `pool_slots` leases and callers are
symmetric. In `pool_rotation` the renewals and balances are those the records have already, since
rotation depends on health only, and the switch and stale writes decide it there; in `generation` a cooldown outlasts the run unless
`UpdateTokens` ends it. `generation` renews no token early (`RefreshSkew = 0`); `token_keepers` and `token_refresher` do. In `token_keepers` one
goroutine of each kind works on one account, the keeper's goroutine may instead be the console's, and
balances are 0, since no step looks at them. In `stores`, two clients upload and send requests over two ticks of the clock,
enough for two files of one extension with names from the same tick and from different ones; the requests cover every way to name a media,
and the canvas's sizes, ratios and resolutions are crossed with durations below, within and above the limits.

### Fairness

Safety runs assume none. `PoolFairness`: goroutines that can run do run, handlers return
(so that their deferred `Release` runs) and requests keep coming; nothing is
assumed of the console. `CredentialFairness`: the refresher's ticker fires again and
again and its HTTP requests end (they time out after 30 seconds); the sweep goes over all accounts.
`GenerationFairness`: a handler that has begun goes on. The code gives CLI commands no timeout,
so that they end is an assumption about the CLI; a command that hangs holds
its lease for ever. `JobsFairness`: jobs end and polls return. `EndIsReported` is conditional (`KeepsPolling`): the client of the job keeps polling
by the one path or the other, and upstream does not fail these polls for ever.

### Assumptions about the outside

Clerk gives a new refresh token at every renewal and takes each one once
(`RefreshAccount` handles an answer without one, too, by keeping the old). Upstream accepts an access
token until it expires and shows a job to its owner only. The CLI reads the tokens from `credentials.json` in its home
and may word a missing or torn file as any failure. Random values (keys,
session tokens, OAuth states) are never drawn twice. Clerk's answers may be lost in `token_keepers`
(`LosesAnswers`). The answer of a create is not lost in `generation`: with lost answers a retry makes a second job.

## What is proved

TLAPS proves the following for every value of the constants that satisfies the named
assumptions, which TLC evaluates in every run.

* `AccountPoolProofs`. `PoolInvariant` is inductive: types, a lease that is choosing holds
  nothing, the count does not pass the limit, and the count of an account plus the slots a `Delete` forgot
  is the number of leases on it. The last part needs the first two: a pick adds a lease only where
  there was none. `PoolInvariantHolds` follows, and from it
  `ConcurrencyLimited`. `PoolImplementsSemaphore`: if nothing is deleted, nothing is
  forgotten, so a lease's account is in flight, every release finds its slot, and each step is
  a step of `AccountSemaphore` or a stutter. Assumed: account ids are numbers and finitely many,
  finitely many leases, any configured limit (also zero and negative ones), records of the right type.
  `ValidAlwaysSelectable` and `TimeHealsNobodyElse` follow from the types and from the clock, which only goes forward:
  the console's label and the scheduler's verdict agree, and time alone heals nothing but a cooldown.
* `ApiKeysProofs`. `KeysInvariant` adds to `AcknowledgedLasts` that the reply on its way is what the list says and that
  a key under change is not acknowledged; each step of a save keeps it.
  `RevokedStaysOut` follows at the gate.
* `OAuthLoginProofs`. `LoginInvariant`: a login is pending, in one request's hands or sent, and never two of
  these. `TakenInTime` follows, since a pending login keeps its start time.
* `SessionsProofs`. `SessionsInvariant`: the manager holds no token of an ended session and every
  expiry is the last use plus the TTL; `LogoutIsFinal` and
  `SessionsExpire` follow.

* `CredentialsProofs`. `CredentialInvariant` adds to the pool's invariant the types of the goroutines' copies, that a
  goroutine that works on an account has a copy of it, and that no command runs while its goroutine's own write is pending;
  `CredentialInvariantHolds` shows it inductive, one lemma per kind of step. The next three theorems assume `FreshLogins`: generation 1 is
  what the files and the imports hold when the server starts, since Clerk (`issued`) is at generation 1 then.
  * `TokenWritesAreAlwaysFresh` goes by ownership (`TokensAreOwned`): a renewal spends the newest refresh token and gives
    its goroutine a newer one than is on disk or in anybody else's hands, and that stays so until the goroutine has written it.
    So the owner is unique, and what a pending `UpdateTokens` writes is what Clerk issued last.
  * `ProbesCondemnForCause` adds `CopiesAreJudged`: a command that finds the file its goroutine wrote finds the
    goroutine's copy in it, so an authentication failure then has the copy's own expiry as its only cause. The cause is established where the probe decides to
    renew a second time or to save its copy, and lasts: a token that is spent or ran out stays so, and what else failed is remembered.
  * `TheRefresherSavesTheNewest`: the newest tokens are on disk, or a refresher has them in hand or in a pending write
    (`NewestSavedOrInHand`). It assumes that refreshers work alone in a server that is not stopped (`RefresherAlone`) and that
    no answer is lost and no write fails (`NothingFails`): with a keeper, a probe, an import, a switch of the console, a restart, a lost
    answer or a failed write, TLC finds a login whose newest tokens are lost; `tokens_dropped` is one of these.

  TLC checked `TokensAreOwned` and `CopiesAreJudged` on the instance of `token_keepers`, and `NewestSavedOrInHand` on that
  of `token_refresher`, also with two refreshers, before they were proved.
* `GenerationProofs`. `GenerationInvariant`: `CredentialInvariant` goes on to hold when the handlers use the same
  goroutines' steps, and the job that a request may have made is traced along its way: none before the create, one that is known
  between the create and the record, the recorded one afterwards (`JobIsTraced`).
  `EveryRequestMakesOneJob` follows, if no answer of a create is lost (`LosesAnswers = FALSE`; with lost answers a retry does make a second job).
  All theorems of this module are about one life of the server (`RequestsAssumption`); what a restart does to the pool, the tokens and the
  job table is in the modules of these.
  `HandlersKeepTheLimit`: the limit per account in the composed system. `AllUseThePool`: each step of the handlers, the refresher, the probes, the imports and the
  console is a step of the pool's own specification or a stutter. It assumes `PoolIsOpen`: that the constants which only bound TLC's
  inputs to the pool (`Calls`, `Balances`, `TokenSets`, `StoredAccounts`) bound nothing. So
  what is proved of the pool carries over: `AllSeeSemaphores` (if nothing is deleted) and `AllSeeTheSameHealth`.
  `TokenWritesAreFresh` is not among it: a handler saves its copy's tokens after every create, renewed or not, so
  it holds of the other goroutines only (see "Documents and code").
* `JobsProofs`. `JobsInvariant`: polls ask for jobs the client was told of; no two jobs share an entry, also not through the pointers that
  polls hold on to (the run has one job, so this part has its content from the proof); an entry or a pending answer shows an end only if upstream came to it, but for the error of a failed wait, and a URL only
  if upstream has one; an entry that shows an end has a refresh after that end run, due, or in the hands of the handler that waited. `EndsAlwaysTrue` and `EndsAlwaysSettled` follow. The argument of the
  latter is that the writer of an end either refreshes itself or starts a goroutine, and that a poll which finds the end written already may rely on the one who wrote it.
  `JobsImplementOutcomes`: each step is a step of `JobOutcomes` or a stutter. An answer tells the job's outcome or a hint's, because entries and pending
  answers are true (`EntriesAreTrue`, `AnswersAreTrue`); a restart loses the clients of handlers that were waiting (`Lose`).
* `RequestProofs`. `LogAlwaysTheNewest`: `LogIsTheNewest` is inductive as it stands; a cut keeps a prefix, and
  what is put in front moves the rest on by one. Of a translated request the invariant is that it is what the request's route makes of it. From it follow
  `KindAlwaysFitsTheJob`, by the route and by how the model is named, and `CanvasAlwaysAsksForWhatItNames`, by the
  digits and the ratio of each size that stands for what a canvas names, for every duration. Assumed of the configuration (`MappingAssumption`): the default models are jobs
  of their kind, the default video model is no alias, a name with "seedance" in it is taken for a video's by `guessKind`, and the empty name is none.
  The proof of `KindFitsTheJob` needed either an assumption that no alias says "seedance" of a job of images, or an exception; the code refuses no such alias,
  so the property has the exception and the instance of `stores` has two such aliases.

  `MediaAlwaysArriveAsNamed`: by `MediaInvariant`, at every moment the values that a request has for a group show, in order, the files or references
  handled so far, and what is left is the rest of them. The link is a strictly increasing selection of positions, so handling one more item extends the
  selection by one value or by none, and no induction over lists is needed. There are two such selections, of the form's files that were
  stored and of the references that were resolved; `Accept` joins the first to the named references, and the theorem composes the two.
  A stored value shows its media as long as its file does: a name holds the tick it was made at, so only an upload of the same tick
  can replace the file, and then the file says so (`clash`). A client that names an upload has made one. Assumed (`MediaAssumption`): requests
  are of the type `Order`, with lists of any length, and a client's own upload is one of the media. TLC checked `MediaInvariant` on the instance of `stores`, also
  with `Fails = FALSE`, before it was proved.

The pool's, the credentials' and the handlers' modules put a bound on the clock (`MaxNow`) and on what Clerk issues (`MaxIssued`); the theorems hold for
every value of these.

Only model-checked:

* All liveness (`EveryHealthyAccountServes`, `DisabledAccountDrains`, `TokensAreRenewed`, `EveryRequestAnswered`, `EndIsReported`):
  it rests on fairness and so on ENABLED, which the prover does not handle.
* What the five violated runs show is TLC's by nature.

No module of the project declares a recursive operator.

## What is not modelled

Strings: the parsing of the CLI's output, of JWTs and of error texts (the models take the class of a failure as an input),
base64, MIME types and HTTP downloads (a media has an extension). Prompts. Configuration loading, the listings of the console and
statistics (they only read), the static catalogue, CORS, routes and pages. `GET /v1/models` is not a goroutine of the model, although it changes state: it calls `EnsureAuth` on a copy of
each enabled account, saves renewed tokens with `UpdateTokens`, and runs `ListModels` in the account's home. These are steps that a keeper takes too
(`Authenticate`, `SaveTokens`, `Run`), with the same loss of tokens that a command renews inside (`tokens_dropped`). Plan
and e-mail of an account are display fields. `AuthLogin` is called by nothing. `LogIsTheNewest` speaks of a log file that
never held more than the configured maximum. The fields of a job's entry that `JobGet` and `videosGet` read without the lock are read in
one step in the model. Each account has a login of its own: two accounts on one login, which a second
import can make, are described above and not modelled.

## Plan

1. Done: AccountHealth, AccountPool with AccountSemaphore, Credentials with homes, imports and deletion, Generation, Jobs with JobOutcomes, ApiKeys, Sessions,
   OAuthLogin, RequestLog, RequestMapping, Media.
2. Done: a theorem for every invariant and every action property that a passing run checks under the specification it is about, and for the refinements of the pool and of
   the job table.
3. Left: two accounts on one login, which a second import can make.
