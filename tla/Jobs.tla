-------------------------------- MODULE Jobs --------------------------------
(* The job table (Handler.jobs of internal/openaiapi), the handlers that     *)
(* wait for the jobs they created (handlers.go, runGeneration) and those who *)
(* poll: GET /v1/jobs/{id} (JobGet) and GET /v1/videos/{id}                  *)
(* (videos_compat.go, videosGet).  The table's mutex is held for single      *)
(* accesses only: a poll looks an entry up, asks upstream, and then works on *)
(* the entry it looked up.  Credits are refreshed after an end was written,  *)
(* by the handler that waited or by a goroutine that a poll starts.  Table   *)
(* and goroutines die with the process; the jobs live on upstream, where the *)
(* account that created one can see it.                                      *)
EXTENDS Naturals, Sequences

CONSTANTS
    JobIds,         \* jobs that requests create
    Accounts,
    Polls,          \* goroutines that serve a GET /v1/jobs/{id} or /v1/videos/{id}
    RawEnds,        \* the words by which upstream says that a job has ended
    MaxRestarts     \* bound on the restarts of the process

ASSUME JobsAssumption ==
    /\ MaxRestarts \in Nat
    /\ RawEnds \subseteq {"completed", "failed", "nsfw", "cancelled"}

VARIABLES
    real,       \* real[j]: the status of job j upstream
    shown,      \* shown[j]: whether upstream has a result URL for job j
    owner,      \* owner[j]: the account that created job j
    stored,     \* stored[a]: whether the account's file is enabled, disabled or gone
    stage,      \* stage[j]: how far the handler that creates job j is
    entries,    \* the localJob structs, in order of allocation
    table,      \* Handler.jobs: table[j] is the index of j's entry, 0 if there is none
    poll,       \* poll[p]: where poll p is
    due,        \* the jobs for which goroutines are to refresh the owner's credits
    tried,      \* auxiliary: the jobs after whose end a refresh, started in this life of
                \* the process for the job, ran, whatever came of it
    told,       \* auxiliary: told[j]: the ends of job j the client was told
    restarts

jobVars == <<real, shown, owner, stored, stage, entries, table, poll, due, tried, told,
             restarts>>

\* "queued" stands for every word of a job on its way, "none" for no job or no answer.
Raw == {"none", "queued", "completed", "failed", "nsfw", "cancelled"}
Ends == {"completed", "failed"}
Stages == {"new", "created", "waiting", "settling", "abandoning", "reported", "abandoned", "lost"}

\* mapCanvasStatus.
Mapped(status) ==
    CASE status = "completed" -> "completed"
      [] status \in {"failed", "nsfw", "cancelled"} -> "failed"
      [] OTHER -> "queued"

Final(status) == Mapped(status) \in Ends

\* The client has the job's id: from the answer, or from the error that ended the wait,
\* which quotes the command with the id.
Known(j) == stage[j] \in {"reported", "abandoned"}

NoPoll == [pc |-> "idle", job |-> 0, video |-> FALSE, entry |-> 0, got |-> "none",
           url |-> FALSE, scanned |-> FALSE]

JobsInit ==
    /\ real = [j \in JobIds |-> "none"]
    /\ shown = [j \in JobIds |-> FALSE]
    /\ owner \in [JobIds -> Accounts]
    /\ stored = [a \in Accounts |-> "enabled"]
    /\ stage = [j \in JobIds |-> "new"]
    /\ entries = <<>>
    /\ table = [j \in JobIds |-> 0]
    /\ poll = [p \in Polls |-> NoPoll]
    /\ due = {}
    /\ tried = {}
    /\ told = [j \in JobIds |-> {}]
    /\ restarts = 0

\* The refresh asks for the balance now.  It does nothing if the account is gone or
\* upstream does not answer, and nobody tries again.
Refreshed(j) == IF Final(real[j]) THEN tried \union {j} ELSE tried

\* A client takes the two ends for ends and any other word for a job still on its way.
Told(j, status) == IF status \in Ends THEN [told EXCEPT ![j] = @ \union {status}] ELSE told

-----------------------------------------------------------------------------
(* Upstream, the console, and the handlers that create jobs.                 *)

CreateUpstream(j) ==
    /\ stage[j] = "new"
    /\ real' = [real EXCEPT ![j] = "queued"]
    /\ stage' = [stage EXCEPT ![j] = "created"]
    /\ UNCHANGED <<shown, owner, stored, entries, table, poll, due, tried, told, restarts>>

Progress(j) ==
    /\ real[j] = "queued"
    /\ \E end \in RawEnds : real' = [real EXCEPT ![j] = end]
    /\ UNCHANGED <<shown, owner, stored, stage, entries, table, poll, due, tried, told, restarts>>

\* The result's URL may come before upstream calls the job completed, or after.
ShowResult(j) ==
    /\ real[j] \in {"queued", "completed"} /\ ~shown[j]
    /\ shown' = [shown EXCEPT ![j] = TRUE]
    /\ UNCHANGED <<real, owner, stored, stage, entries, table, poll, due, tried, told, restarts>>

\* The console disables or deletes an account.
Withdraw(a) ==
    /\ \/ stored[a] = "enabled" /\ stored' = [stored EXCEPT ![a] = "disabled"]
       \/ stored[a] # "gone" /\ stored' = [stored EXCEPT ![a] = "gone"]
    /\ UNCHANGED <<real, shown, owner, stage, entries, table, poll, due, tried, told, restarts>>

\* The handler records the job and answers with its id, unless it was asked to wait.
Record(j) ==
    /\ stage[j] = "created"
    /\ entries' = Append(entries, [job |-> j, known |-> TRUE, status |-> "queued",
                                   url |-> FALSE, err |-> FALSE])
    /\ table' = [table EXCEPT ![j] = Len(entries')]
    /\ \E state \in {"waiting", "reported"} : stage' = [stage EXCEPT ![j] = state]
    /\ UNCHANGED <<real, shown, owner, stored, poll, due, tried, told, restarts>>

\* CLI.Wait returns the job as upstream has it, ended or not, and the entry keeps that.
WaitReturns(j) ==
    /\ stage[j] = "waiting"
    /\ entries' = [entries EXCEPT ![table[j]].status = real[j], ![table[j]].url = shown[j]]
    /\ stage' = [stage EXCEPT ![j] = "settling"]
    /\ UNCHANGED <<real, shown, owner, stored, table, poll, due, tried, told, restarts>>

\* CLI.Wait fails, on its timeout or otherwise; the job goes on.
WaitFails(j) ==
    /\ stage[j] = "waiting"
    /\ entries' = [entries EXCEPT ![table[j]].status = "failed", ![table[j]].err = TRUE]
    /\ stage' = [stage EXCEPT ![j] = "abandoning"]
    /\ UNCHANGED <<real, shown, owner, stored, table, poll, due, tried, told, restarts>>

\* Mutant of AnswerWait: after a failed wait the answer gives the entry's status.
AnswerWaitAlike(j) ==
    /\ stage[j] \in {"settling", "abandoning"}
    /\ stage' = [stage EXCEPT ![j] = "reported"]
    /\ told' = Told(j, entries[table[j]].status)
    /\ tried' = Refreshed(j)
    /\ UNCHANGED <<real, shown, owner, stored, entries, table, poll, due, restarts>>

\* The handler refreshes the credits and answers: with the status Wait returned, or with
\* an error, which names the job if it is the command's.
AnswerWait(j) ==
    /\ \/ /\ stage[j] = "settling"
          /\ stage' = [stage EXCEPT ![j] = "reported"]
          /\ told' = Told(j, entries[table[j]].status)
       \/ /\ stage[j] = "abandoning"
          /\ \E state \in {"abandoned", "lost"} : stage' = [stage EXCEPT ![j] = state]
          /\ UNCHANGED told
    /\ tried' = Refreshed(j)
    /\ UNCHANGED <<real, shown, owner, stored, entries, table, poll, due, restarts>>

\* A goroutine's refreshCreditsByID; several for one job count as one.
Refresh(j) ==
    /\ j \in due
    /\ due' = due \ {j}
    /\ tried' = Refreshed(j)
    /\ UNCHANGED <<real, shown, owner, stored, stage, entries, table, poll, told, restarts>>

-----------------------------------------------------------------------------
(* A poll.                                                                   *)

Lookup(p, j, video) ==
    /\ poll[p].pc = "idle"
    /\ Known(j)
    /\ poll' = [poll EXCEPT ![p] = [NoPoll EXCEPT !.pc = "ask", !.job = j, !.video = video,
                                                  !.entry = table[j]]]
    /\ UNCHANGED <<real, shown, owner, stored, stage, entries, table, due, tried, told, restarts>>

HasAccount(p) == poll[p].entry # 0 /\ entries[poll[p].entry].known

\* Mutant of Ask: only the account in the entry is asked.
AskRecordedOnly(p) ==
    LET j == poll[p].job IN
    /\ poll[p].pc = "ask"
    /\ HasAccount(p) /\ stored[owner[j]] # "gone"
    /\ poll' = [poll EXCEPT ![p].pc = "reply", ![p].got = real[j], ![p].url = shown[j]]
    /\ UNCHANGED <<real, shown, owner, stored, stage, entries, table, due, tried, told, restarts>>

\* The account in the entry is asked first, even if it has been disabled, then
\* the enabled ones; only the job's owner can answer.  JobGet tells the two apart.
Ask(p) ==
    LET j == poll[p].job IN
    /\ poll[p].pc = "ask"
    /\ \E scanned \in BOOLEAN :
          /\ IF scanned THEN stored[owner[j]] = "enabled"
             ELSE HasAccount(p) /\ stored[owner[j]] # "gone"
          /\ poll' = [poll EXCEPT ![p].pc = "reply", ![p].got = real[j], ![p].url = shown[j],
                                  ![p].scanned = scanned /\ ~poll[p].video]
    /\ UNCHANGED <<real, shown, owner, stored, stage, entries, table, due, tried, told, restarts>>

AskFails(p) ==
    /\ poll[p].pc = "ask"
    /\ poll' = [poll EXCEPT ![p].pc = "reply"]
    /\ UNCHANGED <<real, shown, owner, stored, stage, entries, table, due, tried, told, restarts>>

Answer(p, status) ==
    /\ poll' = [poll EXCEPT ![p] = NoPoll]
    /\ told' = Told(poll[p].job, status)

\* Mutant of ReplyFromEntry: a job that is not in the table has failed.
ReplyFromEntryFails(p) ==
    LET entry == entries[poll[p].entry]
    IN  /\ poll[p].pc = "reply"
        /\ poll[p].got = "none"
        /\ Answer(p, CASE poll[p].entry = 0 -> "failed"
                       [] poll[p].entry # 0 /\ poll[p].video /\ entry.err -> "failed"
                       [] poll[p].entry # 0 /\ poll[p].video /\ ~entry.err /\ entry.url -> "completed"
                       [] OTHER -> entry.status)
        /\ UNCHANGED <<real, shown, owner, stored, stage, entries, table, due, tried, restarts>>

\* Without an answer from upstream: 404, or the entry's status; videosGet lets the URL
\* in the entry make it completed, and the error of a failed wait failed.
ReplyFromEntry(p) ==
    LET entry == entries[poll[p].entry]
    IN  /\ poll[p].pc = "reply"
        /\ poll[p].got = "none"
        /\ Answer(p, CASE poll[p].entry = 0 -> "not_found"
                       [] poll[p].entry # 0 /\ poll[p].video /\ entry.err -> "failed"
                       [] poll[p].entry # 0 /\ poll[p].video /\ ~entry.err /\ entry.url -> "completed"
                       [] OTHER -> entry.status)
        /\ UNCHANGED <<real, shown, owner, stored, stage, entries, table, due, tried, restarts>>

\* Mutant of ReplyJob: it refreshes the credits whatever upstream answers.
ReplyJobEager(p) ==
    /\ poll[p].pc = "reply"
    /\ ~poll[p].video
    /\ poll[p].got # "none"
    /\ Answer(p, poll[p].got)
    /\ due' = IF poll[p].scanned THEN due ELSE due \union {poll[p].job}
    /\ UNCHANGED <<real, shown, owner, stored, stage, entries, table, tried, restarts>>

\* JobGet passes upstream's word on and leaves the table alone.  Asked through the
\* entry's account, an end it knows, or a result, starts a refresh.
ReplyJob(p) ==
    /\ poll[p].pc = "reply"
    /\ ~poll[p].video
    /\ poll[p].got # "none"
    /\ Answer(p, poll[p].got)
    /\ due' = IF ~poll[p].scanned /\ (poll[p].got \in Ends \union {"nsfw"} \/ poll[p].url)
              THEN due \union {poll[p].job} ELSE due
    /\ UNCHANGED <<real, shown, owner, stored, stage, entries, table, tried, restarts>>

\* Mutant of ReplyVideo: the old status is read after the new one was written.
ReplyVideoLate(p) ==
    LET j == poll[p].job
        status == Mapped(poll[p].got)
        old == poll[p].entry
    IN  /\ poll[p].pc = "reply"
        /\ poll[p].video
        /\ poll[p].got # "none"
        /\ IF old = 0
           THEN /\ entries' = Append(entries, [job |-> j, known |-> FALSE, status |-> status,
                                               url |-> poll[p].url, err |-> FALSE])
                /\ table' = [table EXCEPT ![j] = Len(entries')]
           ELSE /\ entries' = [entries EXCEPT ![old].status = status, ![old].url = poll[p].url]
                /\ UNCHANGED table
        /\ due' = IF HasAccount(p) /\ Final(status) /\ status # entries'[old].status
                  THEN due \union {j} ELSE due
        /\ Answer(p, status)
        /\ UNCHANGED <<real, shown, owner, stored, stage, tried, restarts>>

\* videosGet updates the entry it looked up, or enters a new one without account,
\* and starts a refresh if the status is final and not the entry's old one.
ReplyVideo(p) ==
    LET j == poll[p].job
        status == Mapped(poll[p].got)
        old == poll[p].entry
    IN  /\ poll[p].pc = "reply"
        /\ poll[p].video
        /\ poll[p].got # "none"
        /\ IF old = 0
           THEN /\ entries' = Append(entries, [job |-> j, known |-> FALSE, status |-> status,
                                               url |-> poll[p].url, err |-> FALSE])
                /\ table' = [table EXCEPT ![j] = Len(entries')]
           ELSE /\ entries' = [entries EXCEPT ![old].status = status, ![old].url = poll[p].url]
                /\ UNCHANGED table
        /\ due' = IF HasAccount(p) /\ Final(status) /\ status # entries[old].status
                  THEN due \union {j} ELSE due
        /\ Answer(p, status)
        /\ UNCHANGED <<real, shown, owner, stored, stage, tried, restarts>>

\* Requests, goroutines and table die; a client without an answer never gets the id.
Restart ==
    /\ restarts < MaxRestarts
    /\ restarts' = restarts + 1
    /\ entries' = <<>>
    /\ table' = [j \in JobIds |-> 0]
    /\ poll' = [p \in Polls |-> NoPoll]
    /\ due' = {}
    /\ tried' = {}
    /\ stage' = [j \in JobIds |-> IF stage[j] = "new" \/ Known(j) THEN stage[j] ELSE "lost"]
    /\ UNCHANGED <<real, shown, owner, stored, told>>

-----------------------------------------------------------------------------

Wait(j) == WaitReturns(j) \/ WaitFails(j) \/ AnswerWait(j)

Reply(p) == ReplyFromEntry(p) \/ ReplyJob(p) \/ ReplyVideo(p)

JobsNext ==
    \/ \E j \in JobIds :
          \/ CreateUpstream(j) \/ Progress(j) \/ ShowResult(j)
          \/ Record(j) \/ Wait(j) \/ Refresh(j)
    \/ \E a \in Accounts : Withdraw(a)
    \/ \E p \in Polls :
          \/ \E j \in JobIds, video \in BOOLEAN : Lookup(p, j, video)
          \/ Ask(p) \/ AskFails(p) \/ Reply(p)
    \/ Restart

JobsSpec == JobsInit /\ [][JobsNext]_jobVars

\* Jobs end, and polls return.
JobsFairness ==
    /\ \A j \in JobIds : WF_jobVars(Progress(j))
    /\ \A p \in Polls : WF_jobVars(Reply(p)) /\ WF_jobVars(Ask(p) \/ AskFails(p))

FairJobsSpec == JobsSpec /\ JobsFairness

-----------------------------------------------------------------------------
(* Properties *)

\* The types of the job table, of the jobs upstream and of the polls; statuses in the
\* table are upstream's own or those of mapCanvasStatus.
JobsTypeOK ==
    /\ real \in [JobIds -> Raw]
    /\ shown \in [JobIds -> BOOLEAN]
    /\ owner \in [JobIds -> Accounts]
    /\ stored \in [Accounts -> {"enabled", "disabled", "gone"}]
    /\ stage \in [JobIds -> Stages]
    /\ entries \in Seq([job : JobIds, known : BOOLEAN, status : Raw, url : BOOLEAN,
                        err : BOOLEAN])
    /\ table \in [JobIds -> 0 .. Len(entries)]
    /\ poll \in [Polls -> [pc : {"idle", "ask", "reply"}, job : JobIds \union {0},
                           video : BOOLEAN, entry : 0 .. Len(entries), got : Raw,
                           url : BOOLEAN, scanned : BOOLEAN]]
    /\ due \in SUBSET JobIds
    /\ tried \in SUBSET JobIds
    /\ told \in [JobIds -> SUBSET Ends]
    /\ restarts \in 0 .. MaxRestarts

\* There is reason to call end the end of job j: upstream says so, or it shows a result
\* and the end is "completed", or the handler's wait failed and the end is "failed".
HasReason(j, end) ==
    \/ end = Mapped(real[j])
    \/ end = "completed" /\ shown[j]
    \/ end = "failed" /\ stage[j] = "abandoned"

\* The client is told of the end its job has, or of none, through all overlaps of the
\* waiting handler, stale polls, goroutines and lives of the process, but for what
\* videosGet and the entry of a failed wait make of a job: "completed" on the strength of
\* a result's URL, and "failed" although the job goes on.
EndsAreTrue == \A j \in JobIds : \A end \in told[j] : HasReason(j, end)

\* Whether an entry says that its job has ended, and not just that its wait failed.
ShowsEnd(entry) == Final(entry.status) /\ ~(entry.err /\ entry.status = "failed")

\* A refresh of the credits of job j ran after the job's end, or is to run.
SeenTo(j) == j \in tried \union due \/ stage[j] = "settling"

\* Credits follow the end: once an entry with an account shows that its job has ended,
\* whoever of the waiting handler and the polls wrote it and in which order, a refresh of
\* the credits ran after that end, or a goroutine or the handler is still to run it.
EndIsSettled ==
    \A j \in JobIds :
        (table[j] # 0 /\ entries[table[j]].known /\ ShowsEnd(entries[table[j]])) => SeenTo(j)

\* Polls ask for jobs the client was told of; a handler that waits has recorded its job.
StagesAgree ==
    /\ \A p \in Polls : poll[p].pc # "idle" => poll[p].job \in JobIds /\ Known(poll[p].job)
    /\ \A j \in JobIds : /\ stage[j] = "new" => real[j] = "none"
                         /\ stage[j] \in {"waiting", "settling", "abandoning"} => table[j] # 0

\* The table, and a poll that looked an entry up, lead to the entry of the job they are for.
EntriesApart ==
    /\ \A j \in JobIds : table[j] # 0 => entries[table[j]].job = j
    /\ \A p \in Polls : (poll[p].pc # "idle" /\ poll[p].entry # 0) =>
          entries[poll[p].entry].job = poll[p].job

\* An entry that shows an end shows that of its job, with the credits seen to; the error
\* is that of a failed wait, the URL one that upstream gave.
EntryIsTrue(entry) ==
    /\ entry.err => stage[entry.job] \in {"abandoning", "abandoned", "lost"}
    /\ entry.url => shown[entry.job]
    /\ ShowsEnd(entry) => /\ Mapped(entry.status) = Mapped(real[entry.job])
                          /\ entry.known => SeenTo(entry.job)

EntriesAreTrue == \A e \in 1 .. Len(entries) : EntryIsTrue(entries[e])

\* What a poll has been told of an end and of a URL, and still carries about, stands.
AnswersAreTrue ==
    \A p \in Polls : poll[p].pc # "idle" =>
        /\ Final(poll[p].got) => Mapped(poll[p].got) = Mapped(real[poll[p].job])
        /\ poll[p].url => shown[poll[p].job]

\* No refresh is started for a job that neither ended nor has a result.
RefreshesHaveCause ==
    \A j \in JobIds : j \in tried \union due => Final(real[j]) \/ shown[j]

\* What JobsProofs proves to be inductive; EndIsSettled follows from it.
JobsInvariant ==
    /\ JobsTypeOK
    /\ StagesAgree
    /\ EntriesApart
    /\ EntriesAreTrue
    /\ AnswersAreTrue
    /\ RefreshesHaveCause
    /\ EndsAreTrue

\* What jobs are to their clients: the mapping to JobOutcomes.
Outcome == [j \in JobIds |-> IF Final(real[j]) THEN Mapped(real[j]) ELSE "open"]

Hints == [j \in JobIds |-> (IF shown[j] THEN {"completed"} ELSE {})
                            \union (IF stage[j] = "abandoned" THEN {"failed"} ELSE {})]

Client ==
    [j \in JobIds |-> CASE Known(j) -> "knows"
                        [] stage[j] = "lost" -> "lost"
                        [] OTHER -> "waits"]

Outcomes ==
    INSTANCE JobOutcomes WITH outcome <- Outcome, hints <- Hints, client <- Client

\* Whatever polls, waits, withdrawals of accounts and restarts overlap, all that a
\* client meets is that it comes to know its job, in a wait that failed too, or is left
\* without it for ever, and then hears of an end there is evidence for, of each end once
\* and for all.
ImplementsOutcomes == Outcomes!OutcomeSpec

\* The client of job j keeps polling, by /v1/videos or by /v1/jobs, and upstream does
\* not fail these polls for ever.
KeepsPolling(j, video) ==
    /\ SF_jobVars(\E p \in Polls : Lookup(p, j, video))
    /\ \A p \in Polls : SF_jobVars(Ask(p) /\ poll[p].job = j /\ poll[p].video = video)

\* A client that keeps polling, by whichever path, hears of an end of its job, also after
\* its wait failed or a restart emptied the table, as long as the job's account stays
\* enabled; but /v1/jobs never says the end of a job that upstream calls nsfw or cancelled.
EndIsReported ==
    \A j \in JobIds :
        /\ KeepsPolling(j, TRUE) =>
              (Known(j) ~> (told[j] # {} \/ stored[owner[j]] # "enabled"))
        /\ KeepsPolling(j, FALSE) =>
              (Known(j) ~> (told[j] # {} \/ stored[owner[j]] # "enabled"
                                         \/ real[j] \in {"nsfw", "cancelled"}))

=============================================================================
