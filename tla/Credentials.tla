---------------------------- MODULE Credentials ----------------------------
(* The OAuth tokens of the accounts: Clerk, which issues them; RefreshAccount *)
(* and EnsureAuth (internal/higgs/oauth.go, cli.go), which renew them on a    *)
(* goroutine's own copy of an account record; CLI.run, which writes the       *)
(* copy's tokens into the account's home directory and runs a command there;  *)
(* and those who do so: the background refresher (cmd/server/main.go),        *)
(* refreshCreditsByID (internal/openaiapi/handlers.go), the console's probe,  *)
(* its imports and the deletion of an account (internal/admin/handlers.go).   *)
(*                                                                            *)
(* Token generation n stands for the n-th pair of tokens Clerk issued to a    *)
(* login.  A refresh token can be used once, an access token until it expires.*)
(* Each access to Clerk, to the home and to the pool is a step of its own:    *)
(* all goroutines of an account share one home, and nothing locks it.         *)
EXTENDS AccountPool

CONSTANTS
    Refreshers,     \* the background refresher: one goroutine, or none
    Keepers,        \* goroutines that run refreshCreditsByID
    Probers,        \* console requests that probe an account
    Importers,      \* console requests that import a login
    Consoles,       \* requests that enable, disable or delete an account
    RefreshSkew,    \* ticks before expires_at at which a token is renewed
    Lifetime,       \* ticks an access token lives
    LosesAnswers,   \* whether Clerk's answer can be lost on the way
    CommandsFail,   \* whether commands, Clerk and the local disk can fail
    MaxIssued       \* bound on the generations Clerk issues; then it ends the login

ASSUME CredentialsAssumption ==
    /\ Refreshers \union Keepers \union Probers \union Importers \union Consoles
          \subseteq Callers
    /\ RefreshSkew \in Nat /\ Lifetime \in Nat \ {0} /\ MaxIssued \in Nat \ {0}
    /\ LosesAnswers \in BOOLEAN /\ CommandsFail \in BOOLEAN

VARIABLES
    issued,     \* issued[id]: the newest generation Clerk issued to the login
    work,       \* work[c]: where goroutine c is, and its copy of an account
    sweep,      \* sweep[c]: the accounts the refresher listed and has not looked at
    home        \* home[id]: credentials.json in cli-homes/<id>, and who wrote it

credentialVars == <<issued, work, sweep, home>>

\* ret is where refreshCredits returns to, run where a goroutine is inside CLI.run;
\* cause is auxiliary, see Cause.
Idle == [pc |-> "idle", id |-> NoAccount, acc |-> NoAccount,
         ret |-> "done", run |-> "none", cause |-> "none"]

\* A request is served once.
Done == [Idle EXCEPT !.pc = "done"]

Starting(pc, id, a) == [Idle EXCEPT !.pc = pc, !.id = id, !.acc = a]

-----------------------------------------------------------------------------
(* Renewing a copy.  Each operator gives the outcomes possible for copy a    *)
(* while Clerk is at generation n of the login.                              *)

NeedsRefresh(a) ==
    /\ a.rt # 0
    /\ \/ a.tok = 0
       \/ a.exp > 0 /\ now + RefreshSkew >= a.exp

\* Mutant of RefreshAccount: the lifetime is subtracted.
RefreshAccountBackdated(a, n) ==
    IF a.rt # 0 /\ a.rt = n /\ n < MaxIssued
    THEN {[acc |-> [a EXCEPT !.tok = n + 1, !.rt = n + 1, !.exp = now - Lifetime],
           issued |-> n + 1, res |-> "ok"]}
    ELSE {[acc |-> a, issued |-> n, res |-> "refused"]}

\* Clerk refuses a dead refresh token.  It may be out of reach, or busy: it answers with
\* an error of its own, which reads like a refusal to isAuthFailureError only.
RefreshAccount(a, n) ==
    LET live == a.rt # 0 /\ a.rt = n /\ n < MaxIssued
        renewed == [a EXCEPT !.tok = n + 1, !.rt = n + 1, !.exp = now + Lifetime,
                             !.err = "none"]
        Failing(reason, m) == [acc |-> a, issued |-> m, res |-> reason]
    IN  {o \in {[acc |-> renewed, issued |-> n + 1, res |-> "ok"]} : live}
        \union {o \in {Failing("refused", n)} : ~live}
        \union {o \in {Failing("unreachable", n), Failing("busy", n)} : CommandsFail}
        \union {o \in {Failing("unreachable", n + 1)} : live /\ LosesAnswers}

\* Only callers that see no error save the tokens: those renewed just before the
\* credentials file could not be written stay in the copy.
EnsureAuth(a, n) ==
    IF ~NeedsRefresh(a)
    THEN {[acc |-> a, issued |-> n, res |-> "unchanged"]}
    ELSE RefreshAccount(a, n)
         \union {[o EXCEPT !.res = "unwritten"] :
                    o \in {r \in RefreshAccount(a, n) : r.res = "ok" /\ CommandsFail}}

-----------------------------------------------------------------------------
(* The home directory of an account, which all its commands share.           *)

\* credentials.json as prepareAccountDir writes it for copy a, and as a write that
\* failed half-way or a removal leaves it.
Written(c, a) == [by |-> c, tok |-> a.tok, exp |-> a.exp]
Broken(c) == [by |-> c, tok |-> 0, exp |-> 0]

\* EnsureAuth writes the file if it has renewed the tokens.
HomeEnsured(c, id, o) ==
    CASE o.res = "ok" -> home' = [home EXCEPT ![id] = Written(c, o.acc)]
      [] o.res = "unwritten" -> home' = [home EXCEPT ![id] = Broken(c)]
      [] OTHER -> UNCHANGED home

\* The points at which a goroutine runs a command.
RunsAt == {"status", "statusAgain", "probeStatus", "probeStatusAgain",
           "importList", "importSelect", "importStatus", "create", "wait"}

\* Goroutines that may be writing the file right now: os.WriteFile empties it first,
\* so a command may find it empty or half written.
Preparing(id) ==
    {d \in Callers :
        /\ call[d] = NoCall
        /\ \/ /\ work[d].id = id
              /\ work[d].pc \in {"auth", "probe", "import"} \union RunsAt
              /\ work[d].run # "again"
           \/ work[d].pc = "sweep" /\ id \in Present(sweep[d])}

\* Whether goroutine c's command may see a file that is not the one c wrote for it.
Foreign(c) ==
    \/ home[work[c].id].by # c
    \/ Preparing(work[c].id) \ {c} # {}

\* Upstream accepts an access token until it expires; how the CLI words a missing or
\* torn file is its own affair.
Answers(c) ==
    LET file == home[work[c].id] IN
    {IF file.tok # 0 /\ (file.exp = 0 \/ now < file.exp) THEN "ok" ELSE "auth"}
    \union {x \in {"other"} : CommandsFail \/ file.tok = 0}
    \union {x \in {"auth", "other"} : Preparing(work[c].id) \ {c} # {}}

-----------------------------------------------------------------------------
(* One goroutine's steps.  It goes on when its pool call has been written.   *)

At(c, pc) == work[c].pc = pc /\ call[c] = NoCall

\* A handler calls refreshCredits before the create, after it, and after the wait.
NextReturn(ret) ==
    CASE ret = "create" -> "record" [] ret = "record" -> "release" [] OTHER -> "done"

\* Goroutine c's state at pc with copy a, which a request that is done with its
\* account does not keep.
Then(c, pc, a) ==
    LET ret == work[c].ret
        to == IF pc = "return" THEN ret ELSE pc
    IN  IF to \in {"retry", "select", "release", "done"}
        THEN Starting(to, NoAccount, NoAccount)
        ELSE [work[c] EXCEPT !.pc = to, !.acc = a,
                             !.ret = IF pc = "return" THEN NextReturn(ret) ELSE ret]

Goto(c, pc) ==
    /\ work' = [work EXCEPT ![c] = Then(c, pc, work[c].acc)]
    /\ UNCHANGED <<issued, sweep, home>>

\* Continue at pc with the outcome o of a renewal.
Take(c, o, pc) ==
    /\ issued' = [issued EXCEPT ![work[c].id] = o.issued]
    /\ work' = [work EXCEPT ![c] = Then(c, pc, o.acc)]
    /\ UNCHANGED <<poolVars, sweep>>

\* The pool's methods do nothing when the account file is gone.
IfStored(id, method) == IF disk[id] = NoAccount THEN UNCHANGED poolVars ELSE method

SaveTokens(c, from, to) ==
    LET a == work[c].acc IN
    /\ At(c, from)
    /\ IfStored(work[c].id, UpdateTokens(c, work[c].id, [tok |-> a.tok, rt |-> a.rt, exp |-> a.exp]))
    /\ Goto(c, to)

\* The copy as it is saved when the login cannot be renewed; why is the failure.
Refused(a, why) ==
    [a EXCEPT !.auth = "refresh_failed",
              !.err = IF why \in {"refused", "busy", "auth"} THEN "auth" ELSE "other"]

-----------------------------------------------------------------------------
(* CLI.run: renew if need be, write the home, run the command there, and on   *)
(* an authentication failure renew, write and run once more.                  *)

\* Where the run's caller goes on with the command's result; a is its copy, which an
\* import from the user's own home does not call valid.  An empty list of workspaces
\* counts as a failure.
After(pc, result, a) ==
    CASE pc \in {"status", "statusAgain"} /\ result = "ok" -> "credits"
      [] pc = "status" /\ result = "auth" -> "statusRefresh"
      [] pc \in {"probeStatus", "probeStatusAgain"} /\ result = "ok" -> "probeCredits"
      [] pc = "probeStatus" /\ result = "auth" -> "probeRefresh"
      [] pc = "probeStatusAgain" /\ result # "ok" -> "probeSave"
      [] pc = "importList" /\ result = "ok" /\ a.auth = "valid" -> "importSelect"
      [] pc = "importList" /\ ~(result = "ok" /\ a.auth = "valid") -> "importStatus"
      [] pc = "importSelect" -> "importStatus"
      [] pc = "importStatus" -> "importSave"
      [] pc = "create" -> IF result = "ok" THEN "tokens" ELSE "failTokens"
      [] pc = "wait" -> IF result = "ok" THEN "waited" ELSE "waitFailed"
      [] OTHER -> "return"

\* What the caller makes of its copy, b being the balance it was told.
Judged(pc, result, a, b) ==
    CASE pc = "probeStatusAgain" /\ result # "ok" -> Refused(a, result)
      [] pc = "importList" /\ result = "ok" -> [a EXCEPT !.credits = b]
      [] pc = "importStatus" /\ result = "ok" -> [a EXCEPT !.credits = b, !.err = "none"]
      [] pc = "importStatus" /\ result # "ok" /\ a.auth = "valid" -> [a EXCEPT !.err = result]
      [] OTHER -> a

\* Auxiliary: what may have made a probe's command fail, if it is not the probe's copy.
Cause(c, result) ==
    LET foreign == work[c].run # "none" /\ Foreign(c) IN
    CASE work[c].pc \in {"probeStatus", "probeStatusAgain"} /\ result # "ok" /\ foreign
            -> "foreign"
      [] work[c].pc = "probeStatusAgain" /\ result = "other" /\ ~foreign -> "outage"
      [] OTHER -> "none"

\* The run ends with a result and the copy a.
Finish(c, result, a) ==
    LET pc == work[c].pc IN
    \E b \in IF pc \in {"importList", "importStatus"} THEN Balances ELSE {a.credits} :
        work' = [work EXCEPT ![c] =
                    [Then(c, After(pc, result, a), Judged(pc, result, a, b)) EXCEPT
                        !.run = "none", !.cause = Cause(c, result)]]

PrepareRun(c) ==
    /\ work[c].pc \in RunsAt /\ work[c].run = "none" /\ call[c] = NoCall
    /\ \E o \in EnsureAuth(work[c].acc, issued[work[c].id]) :
          /\ issued' = [issued EXCEPT ![work[c].id] = o.issued]
          /\ \/ /\ home' = [home EXCEPT ![work[c].id] = Written(c, o.acc)]
                /\ work' = [work EXCEPT ![c].run = "first", ![c].acc = o.acc]
             \/ /\ CommandsFail
                /\ home' = [home EXCEPT ![work[c].id] = Broken(c)]
                /\ Finish(c, "other", o.acc)
    /\ UNCHANGED <<poolVars, sweep>>

\* Answered: a result other than an authentication failure, or one without remedy.
CommandEnds(c) ==
    /\ work[c].run = "first"
    /\ \E result \in Answers(c) :
          /\ result = "auth" => work[c].acc.rt = 0
          /\ Finish(c, result, work[c].acc)
    /\ UNCHANGED <<poolVars, issued, sweep, home>>

CommandRetries(c) ==
    /\ work[c].run = "first"
    /\ "auth" \in Answers(c)
    /\ work[c].acc.rt # 0
    /\ \E o \in RefreshAccount(work[c].acc, issued[work[c].id]) :
          /\ issued' = [issued EXCEPT ![work[c].id] = o.issued]
          /\ IF o.res = "ok"
             THEN /\ home' = [home EXCEPT ![work[c].id] = Written(c, o.acc)]
                  /\ work' = [work EXCEPT ![c].run = "again", ![c].acc = o.acc]
             ELSE /\ Finish(c, "auth", o.acc)
                  /\ UNCHANGED home
    /\ UNCHANGED <<poolVars, sweep>>

RetryEnds(c) ==
    /\ work[c].run = "again"
    /\ \E result \in Answers(c) : Finish(c, result, work[c].acc)
    /\ UNCHANGED <<poolVars, issued, sweep, home>>

Run(c) == PrepareRun(c) \/ CommandEnds(c) \/ CommandRetries(c) \/ RetryEnds(c)

-----------------------------------------------------------------------------
(* Handler.prepareAccount and refreshCredits.                                 *)

\* Mutant of Authenticate: the copy's tokens are saved whether renewed or not.
AuthenticateAlwaysSaves(c) ==
    /\ At(c, "auth")
    /\ \E o \in EnsureAuth(work[c].acc, issued[work[c].id]) :
          Take(c, o, "authTokens") /\ HomeEnsured(c, work[c].id, o)

\* EnsureAuth, then save what it renewed, then refreshCredits.
Authenticate(c) ==
    /\ At(c, "auth")
    /\ \E o \in EnsureAuth(work[c].acc, issued[work[c].id]) :
          /\ Take(c, o, IF o.res = "ok" THEN "authTokens" ELSE "status")
          /\ HomeEnsured(c, work[c].id, o)

\* The account status failed on authentication: renew, save, ask again.
StatusRefresh(c) ==
    /\ At(c, "statusRefresh")
    /\ \E o \in RefreshAccount(work[c].acc, issued[work[c].id]) :
          Take(c, o, IF o.res = "ok" THEN "statusTokens" ELSE "return")
    /\ UNCHANGED home

\* The balance also goes into the copy.
SaveCredits(c, from, to) ==
    /\ At(c, from)
    /\ \E b \in Balances :
          /\ IfStored(work[c].id, UpdateCredits(c, work[c].id, b))
          /\ work' = [work EXCEPT ![c] = Then(c, to, [work[c].acc EXCEPT !.credits = b])]
    /\ UNCHANGED <<issued, sweep, home>>

PrepareAccount(c) ==
    \/ Authenticate(c)
    \/ SaveTokens(c, "authTokens", "status")
    \/ StatusRefresh(c)
    \/ SaveTokens(c, "statusTokens", "statusAgain")
    \/ SaveCredits(c, "credits", "return")

\* refreshCreditsByID, started by polls that see a job end.
StartKeeper(c, id) ==
    /\ At(c, "idle")
    /\ disk[id] # NoAccount
    /\ work' = [work EXCEPT ![c] = Starting("auth", id, disk[id])]
    /\ UNCHANGED <<poolVars, issued, sweep, home>>

KeeperStep(c) == (\E id \in Ids : StartKeeper(c, id)) \/ PrepareAccount(c) \/ Run(c)

-----------------------------------------------------------------------------
(* The background refresher: every ten minutes, one account after the other. *)

StartSweep(c) ==
    /\ At(c, "idle")
    /\ sweep' = [sweep EXCEPT ![c] = disk]
    /\ work' = [work EXCEPT ![c].pc = "sweep"]
    /\ UNCHANGED <<poolVars, issued, home>>

\* Mutant of SweepAccount: the renewed copy is not saved.
SweepAccountForgets(c, id) ==
    LET a == sweep[c][id] IN
    /\ At(c, "sweep")
    /\ id \in Present(sweep[c])
    /\ sweep' = [sweep EXCEPT ![c][id] = NoAccount]
    /\ \E o \in EnsureAuth(a, issued[id]) : issued' = [issued EXCEPT ![id] = o.issued]
    /\ UNCHANGED <<poolVars, work, home>>

\* The next account of the listing, which is in file-name order.
SweepAccount(c, id) ==
    LET a == sweep[c][id] IN
    /\ At(c, "sweep")
    /\ id \in Present(sweep[c])
    /\ \A j \in Present(sweep[c]) : id <= j
    /\ sweep' = [sweep EXCEPT ![c][id] = NoAccount]
    /\ IF a.disabled \/ a.rt = 0
       THEN UNCHANGED <<issued, work, home>>
       ELSE \E o \in EnsureAuth(a, issued[id]) :
               /\ issued' = [issued EXCEPT ![id] = o.issued]
               /\ HomeEnsured(c, id, o)
               /\ work' = [work EXCEPT ![c] =
                              IF o.res = "ok" THEN Starting("sweepTokens", id, o.acc)
                              ELSE Starting("sweep", NoAccount, NoAccount)]
    /\ UNCHANGED poolVars

EndSweep(c) ==
    /\ At(c, "sweep")
    /\ Present(sweep[c]) = {}
    /\ work' = [work EXCEPT ![c] = Idle]
    /\ UNCHANGED <<poolVars, issued, sweep, home>>

RefresherStep(c) ==
    \/ StartSweep(c)
    \/ \E id \in Ids : SweepAccount(c, id)
    \/ SaveTokens(c, "sweepTokens", "sweep")
    \/ EndSweep(c)

-----------------------------------------------------------------------------
(* probeAccountAuth on a listed account.                                     *)

StartProbe(c, id) ==
    /\ At(c, "idle")
    /\ disk[id] # NoAccount
    /\ ~disk[id].disabled
    /\ disk[id].tok # 0
    /\ work' = [work EXCEPT ![c] = Starting("probe", id, disk[id])]
    /\ UNCHANGED <<poolVars, issued, sweep, home>>

\* Mutant of ProbeAuth: every failure counts as a refusal.
ProbeAuthBlames(c) ==
    /\ At(c, "probe")
    /\ \E o \in EnsureAuth(work[c].acc, issued[work[c].id]) :
          /\ CASE o.res = "ok" -> Take(c, o, "probeTokens")
               [] o.res = "unchanged" -> Take(c, o, "probeStatus")
               [] OTHER -> Take(c, [o EXCEPT !.acc = Refused(o.acc, "auth")], "probeSave")
          /\ HomeEnsured(c, work[c].id, o)

ProbeAuth(c) ==
    /\ At(c, "probe")
    /\ \E o \in EnsureAuth(work[c].acc, issued[work[c].id]) :
          /\ CASE o.res = "ok" -> Take(c, o, "probeTokens")
               [] o.res = "unchanged" -> Take(c, o, "probeStatus")
               [] o.res \notin {"ok", "unchanged"}
                      /\ (o.res = "refused" \/ TokenExpired(o.acc, now))
                    -> Take(c, [o EXCEPT !.acc = Refused(o.acc, o.res)], "probeSave")
               [] OTHER -> Take(c, o, "done")
          /\ HomeEnsured(c, work[c].id, o)

ProbeRefresh(c) ==
    /\ At(c, "probeRefresh")
    /\ \E o \in RefreshAccount(work[c].acc, issued[work[c].id]) :
          IF o.res = "ok" THEN Take(c, o, "probeTokensAgain")
          ELSE Take(c, [o EXCEPT !.acc = Refused(o.acc, o.res)], "probeSave")
    /\ UNCHANGED home

\* Save(a): the whole copy goes to disk, its tokens and switches included.
SaveCopy(c, from) ==
    /\ At(c, from)
    /\ Save(work[c].id, work[c].acc)
    /\ Goto(c, "done")

\* "clear sticky auth error on disk"
ProbeValid(c) ==
    /\ At(c, "probeValid")
    /\ IfStored(work[c].id, ProbeSucceeds(c, work[c].id, work[c].acc.credits))
    /\ Goto(c, "done")

ProberStep(c) ==
    \/ \E id \in Ids : StartProbe(c, id)
    \/ ProbeAuth(c)
    \/ SaveTokens(c, "probeTokens", "probeStatus")
    \/ ProbeRefresh(c)
    \/ SaveTokens(c, "probeTokensAgain", "probeStatusAgain")
    \/ SaveCopy(c, "probeSave")
    \/ SaveCredits(c, "probeCredits", "probeValid")
    \/ ProbeValid(c)
    \/ Run(c)

-----------------------------------------------------------------------------
(* Imports.  A login comes as pasted credentials, through the browser, or     *)
(* from the home of the server's own user, which is copied.  The account's id *)
(* is a hash of the access token that came, whatever is renewed on the way.   *)

\* The records of new logins, whose id is the hash of the first access token.
Pasted ==
    {[a EXCEPT !.credits = 0, !.disabled = FALSE, !.until = 0, !.err = "none",
               !.auth = "valid"] : a \in {r \in StoredAccounts : r.tok = 1}}

\* Those that LoadAccountFromUserCLI reads from the user's files.
FromUserCLI == {[a EXCEPT !.auth = ""] : a \in Pasted}

CopyCLIHome(c, id, a) == home' = [home EXCEPT ![id] = Written(c, a)]

StartImport(c, id) ==
    /\ At(c, "idle")
    /\ \E a \in Pasted : work' = [work EXCEPT ![c] = Starting("import", id, a)]
    /\ UNCHANGED <<poolVars, issued, sweep, home>>

\* finalizeAndSaveAccount goes on whether or not the tokens could be renewed; it
\* looks for a workspace if none came with them.
ImportAuth(c) ==
    /\ At(c, "import")
    /\ \E o \in EnsureAuth(work[c].acc, issued[work[c].id]), pc \in {"importList", "importSelect"} :
          Take(c, o, pc) /\ HomeEnsured(c, work[c].id, o)

\* ImportCLI copies the user's files and renews nothing at first.
StartImportCLI(c, id) ==
    /\ At(c, "idle")
    /\ \E a \in FromUserCLI, pc \in {"importList", "importStatus"} :
          /\ work' = [work EXCEPT ![c] = Starting(pc, id, a)]
          /\ CopyCLIHome(c, id, a)
    /\ UNCHANGED <<poolVars, issued, sweep>>

ImporterStep(c) ==
    \/ \E id \in Ids : StartImport(c, id) \/ StartImportCLI(c, id)
    \/ ImportAuth(c)
    \/ SaveCopy(c, "importSave")
    \/ Run(c)

-----------------------------------------------------------------------------
(* The console's SetDisabled: enable, disable or delete.                      *)

Switch(c) ==
    /\ At(c, "idle")
    /\ \E id \in Ids :
          \/ "Delete" \in Calls /\ Delete(c, id)
          \/ "SetDisabled" \in Calls /\ \E d \in BOOLEAN : SetDisabled(c, id, d)
    /\ Goto(c, "done")

\* Delete removes the account's file and, if there was one, then the home.
DeleteAccount(c) ==
    /\ call[c] # NoCall /\ call[c].op = "Delete"
    /\ Write(c)
    /\ work' = IF disk[call[c].id] = NoAccount THEN work
               ELSE [work EXCEPT ![c] = Starting("removeHome", call[c].id, NoAccount)]
    /\ UNCHANGED <<issued, sweep, home>>

RemoveHome(c) ==
    /\ At(c, "removeHome")
    /\ home' = [home EXCEPT ![work[c].id] = Broken(c)]
    /\ work' = [work EXCEPT ![c] = Done]
    /\ UNCHANGED <<poolVars, issued, sweep>>

ConsoleStep(c) == Switch(c) \/ DeleteAccount(c) \/ RemoveHome(c)

-----------------------------------------------------------------------------

CredentialInit ==
    /\ PoolInit
    /\ issued = [id \in Ids |-> 1]
    /\ work = [c \in Callers |-> Idle]
    /\ sweep = [c \in Refreshers |-> [id \in Ids |-> NoAccount]]
    /\ home = [id \in Ids |-> Broken(NoAccount)]

\* Writes and the clock leave the goroutines where they are.
PoolStep ==
    /\ \/ \E c \in Callers : (call[c] # NoCall => call[c].op # "Delete") /\ Write(c)
       \/ Tick
    /\ UNCHANGED credentialVars

\* The server stops, where a renewed copy or a half-written file may be lost, and
\* starts again.
RestartServer ==
    /\ "Restart" \in Calls
    /\ Restart
    /\ \E torn \in SUBSET {id \in Ids : Preparing(id) # {}} :
          home' = [id \in Ids |-> IF id \in torn THEN Broken(NoAccount) ELSE home[id]]
    /\ work' = [c \in Callers |->
                   IF work[c].pc = "idle" \/ c \in Refreshers THEN Idle ELSE Done]
    /\ sweep' = [c \in Refreshers |-> [id \in Ids |-> NoAccount]]
    /\ UNCHANGED issued

CredentialNext ==
    \/ \E c \in Refreshers : RefresherStep(c)
    \/ \E c \in Keepers : KeeperStep(c)
    \/ \E c \in Probers : ProberStep(c)
    \/ \E c \in Importers : ImporterStep(c)
    \/ \E c \in Consoles : ConsoleStep(c)
    \/ PoolStep
    \/ RestartServer

CredentialSpec == CredentialInit /\ [][CredentialNext]_<<poolVars, credentialVars>>

\* The refresher's ticker fires again and again, and what runs ends: renewals time
\* out after 30 seconds.  Nothing is assumed of polls and of the console.
CredentialFairness ==
    /\ \A c \in Refreshers : WF_<<poolVars, credentialVars>>(RefresherStep(c))
    /\ \A c \in Callers : WF_<<poolVars, credentialVars>>(Write(c) /\ UNCHANGED credentialVars)

FairCredentialSpec == CredentialSpec /\ CredentialFairness

-----------------------------------------------------------------------------
(* Properties *)

\* Where a goroutine may be: without a copy of an account, or with one in hand.
EmptyHanded == {"idle", "done", "retry", "select", "release", "sweep", "removeHome"}

WithCopy ==
    {"auth", "authTokens", "status", "statusRefresh", "statusTokens", "statusAgain", "credits",
     "create", "tokens", "failTokens", "mark", "record", "wait", "waited", "waitFailed",
     "sweepTokens", "probe", "probeTokens", "probeStatus", "probeRefresh", "probeTokensAgain",
     "probeStatusAgain", "probeSave", "probeCredits", "probeValid",
     "import", "importList", "importSelect", "importStatus", "importSave"}

Goroutine == [pc : EmptyHanded \union WithCopy, id : Ids \union {NoAccount},
              acc : Account \union {NoAccount}, ret : {"done", "create", "record", "release"},
              run : {"none", "first", "again"}, cause : {"none", "foreign", "outage"}]

\* It is inside CLI.run only where it runs a command.
Proper(w) ==
    /\ w \in Goroutine
    /\ w.pc \in WithCopy => w.id \in Ids /\ w.acc \in Account
    /\ w.pc = "removeHome" => w.id \in Ids
    /\ w.run # "none" => w.pc \in RunsAt

CredentialsFile == [by : Callers \union {NoAccount}, tok : Nat, exp : Nat]

\* The types of the goroutines' copies and of Clerk's state, over the pool's types.
CredentialTypeOK ==
    /\ PoolTypeOK
    /\ issued \in [Ids -> Nat]
    /\ work \in [Callers -> Goroutine]
    /\ sweep \in [Refreshers -> [Ids -> Account \union {NoAccount}]]
    /\ home \in [Ids -> CredentialsFile]

\* What CredentialsProofs proves to be inductive: the pool is used so that its own
\* invariant holds, and no goroutine works on an account that it has no copy of, or
\* lets a command run while a write of its own is pending.
CredentialInvariant ==
    /\ PoolInvariant
    /\ CredentialTypeOK
    /\ \A c \in Callers : /\ Proper(work[c])
                          /\ work[c].run # "none" => call[c] = NoCall

AllIdle == \A c \in Callers : work[c].pc \in {"idle", "done"} /\ call[c] = NoCall

\* UpdateTokens "persists refreshed OAuth tokens": once everybody is done, the
\* newest tokens Clerk issued to a login are the ones on disk.  Older ones are
\* useless, the account is lost when the access token expires.
NewestTokensSaved ==
    AllIdle => \A id \in Ids :
                   (disk[id] # NoAccount /\ disk[id].rt # 0) => disk[id].rt = issued[id]

\* The refresher keeps every enabled login alive: tokens about to expire are
\* renewed on disk, unless Clerk has ended the login.
TokensAreRenewed ==
    \A id \in Ids :
        (disk[id] # NoAccount /\ ~disk[id].disabled /\ NeedsRefresh(disk[id]))
            ~> \/ disk[id] = NoAccount
               \/ disk[id].disabled
               \/ ~NeedsRefresh(disk[id])
               \/ issued[id] = MaxIssued

\* Whether goroutine c, about to renew for a second time or to save its copy as
\* "refresh_failed", has a cause.
HasCause(c) ==
    LET w == work[c]  a == work[c].acc IN
    w.pc \in {"probeRefresh", "probeSave"} =>
        \/ a.rt = 0 \/ a.rt # issued[w.id] \/ issued[w.id] = MaxIssued
        \/ TokenExpired(a, now)
        \/ w.cause = "foreign"
        \/ w.cause = "outage" /\ CommandsFail

\* Whatever error it records with it, a probe saves an account as "refresh_failed" only
\* if the copy's refresh token is missing or spent, or the login was ended; or the access
\* token ran out, and the renewal did not come through; or a command of the probe ran on
\* credentials that another goroutine put, or was putting, into the home they share; or
\* its second command failed, and not on authentication.  The last three may hit a login
\* that Clerk would renew.  Whoever else renews, imports or deletes the account, there is
\* no fifth way.
CondemnedForCause == \A c \in Probers : HasCause(c)

\* The refresh tokens of a login on disk and in the hands of goroutines.
RefreshTokensOf(id) ==
    {a.rt : a \in ({disk[id]} \union {work[c].acc : c \in {d \in Callers : work[d].id = id}})
                    \ {NoAccount}}

\* Tokens are saved by the one goroutine that owns the newest generation: until
\* they are on disk nobody else can renew them, since a refresh token is good for
\* one renewal.  So a pending UpdateTokens never writes back tokens that are
\* already dead, however many goroutines renew the same account; and an import that
\* has renewed what it was given saves the newest tokens that anybody holds.
TokenWritesAreFresh ==
    \A c \in Callers :
        /\ (call[c] # NoCall /\ call[c].op = "UpdateTokens")
               => call[c].write.rt = issued[call[c].id]
        /\ (work[c].pc = "importSave" /\ work[c].acc.rt > 1)
               => \A n \in RefreshTokensOf(work[c].id) : n <= work[c].acc.rt

-----------------------------------------------------------------------------
(* The inductive invariant behind the last two properties.                   *)

\* The copies of an account that goroutine d has, those on their way to disk included.
Copies(d, id) ==
    (UNION {IF work[d].id = id THEN {work[d].acc} ELSE {},
            IF call[d] # NoCall /\ call[d].id = id THEN {call[d].write} ELSE {},
            IF d \in Refreshers THEN {sweep[d][id]} ELSE {}}) \ {NoAccount}

\* The refresh token n of the login is newer than any on disk or in other hands.
NewerThanOthers(c, id, n) ==
    /\ disk[id] # NoAccount => disk[id].rt < n
    /\ \A d \in Callers \ {c} : \A a \in Copies(d, id) : a.rt < n

\* Where a goroutine has renewed tokens that it is about to save, and where it may have.
SavesAt == {"authTokens", "statusTokens", "sweepTokens", "probeTokens", "probeTokensAgain"}
ImportsAt == {"import", "importList", "importSelect", "importStatus", "importSave"}

\* Nobody has a token that Clerk did not issue.
TokensAreIssued ==
    \A id \in Ids :
        /\ issued[id] \in 1 .. MaxIssued
        /\ disk[id] # NoAccount => disk[id].rt <= issued[id]
        /\ \A d \in Callers : \A a \in Copies(d, id) : a.rt <= issued[id]

\* Who has renewed tokens in hand, or is writing them, has newer ones than anybody else.
RenewedInHand(c) ==
    LET id == work[c].id  n == work[c].acc.rt IN
    /\ work[c].pc \in SavesAt
          => call[c] = NoCall /\ n > 1 /\ n = issued[id] /\ NewerThanOthers(c, id, n)
    /\ work[c].pc \in ImportsAt
          => call[c] = NoCall /\ (n > 1 => NewerThanOthers(c, id, n))

RenewedInCall(c) ==
    LET id == call[c].id  n == call[c].write.rt IN
    (call[c] # NoCall /\ call[c].op = "UpdateTokens")
        => n > 1 /\ n = issued[id] /\ NewerThanOthers(c, id, n)

TokensAreOwned ==
    TokensAreIssued /\ \A c \in Callers : RenewedInHand(c) /\ RenewedInCall(c)

\* A command that finds the file its goroutine wrote finds the goroutine's copy.
FindsItsCopy(c) ==
    LET w == work[c] IN
    (w.run # "none" /\ home[w.id].by = c) => home[w.id] = Written(c, w.acc)

CopiesAreJudged == \A c \in Callers : FindsItsCopy(c) /\ HasCause(c)

=============================================================================
