----------------------------- MODULE JobsProofs -----------------------------
(* Proofs about the job table, for every set of jobs, accounts and polls,    *)
(* every choice of upstream's words for ends, and every number of restarts.  *)
EXTENDS Jobs, SequenceTheorems, TLAPS

Entry == [job : JobIds, known : BOOLEAN, status : Raw, url : BOOLEAN, err : BOOLEAN]

\* The states of a poll when the table has n entries.
PollStates(n) ==
    [pc : {"idle", "ask", "reply"}, job : JobIds \union {0}, video : BOOLEAN,
     entry : 0 .. n, got : Raw, url : BOOLEAN, scanned : BOOLEAN]

\* mapCanvasStatus knows three statuses; an end stays the same end when it is mapped
\* once more, as it is when a poll answers from an entry that videosGet updated.
LEMMA MappedStatuses ==
  /\ \A s \in Raw :
        /\ Mapped(s) \in Raw /\ Mapped(s) \in {"queued", "completed", "failed"}
        /\ Mapped(Mapped(s)) = Mapped(s)
        /\ Final(s) <=> s \in {"completed", "failed", "nsfw", "cancelled"}
        /\ s \in Ends => Mapped(s) = s
  /\ ~Final("none") /\ ~Final("queued") /\ ~Final("not_found")
  /\ "not_found" \notin Ends /\ "none" \notin Ends /\ "queued" \notin Ends
BY DEF Raw, Mapped, Final, Ends

LEMMA InitJobs == JobsInit => JobsInvariant
<1> SUFFICES ASSUME JobsInit PROVE JobsInvariant
  OBVIOUS
<1>1. JobsTypeOK
  <2>1. entries \in Seq(Entry) /\ Len(entries) = 0
    BY EmptySeq DEF JobsInit
  <2>2. restarts \in 0 .. MaxRestarts
    BY JobsAssumption DEF JobsInit
  <2> QED
    BY <2>1, <2>2 DEF JobsInit, JobsTypeOK, Entry, NoPoll, Raw, Stages
<1>2. EntriesApart /\ EntriesAreTrue
  BY DEF JobsInit, EntriesApart, EntriesAreTrue, NoPoll
<1>3. StagesAgree /\ AnswersAreTrue /\ EndsAreTrue /\ RefreshesHaveCause
  BY DEF JobsInit, StagesAgree, AnswersAreTrue, EndsAreTrue, RefreshesHaveCause, NoPoll
<1> QED
  BY <1>1, <1>2, <1>3 DEF JobsInvariant

-----------------------------------------------------------------------------
(* What the steps have in common *)

\* Jobs move forward only: the facts about a step within one life of the process that
\* keep what entries, answers and clients say.
Forward ==
    \A j \in JobIds :
        /\ stage[j] \in {"abandoning", "abandoned", "lost"}
              => stage'[j] \in {"abandoning", "abandoned", "lost"}
        /\ Known(j) => stage'[j] = stage[j]
        /\ Final(real[j]) => real'[j] = real[j]
        /\ shown[j] => shown'[j]
        /\ Final(real[j]) /\ SeenTo(j) => SeenTo(j)'

\* A job that a poll holds is one its client knows.
LEMMA HeldEntries ==
  ASSUME JobsInvariant, NEW p \in Polls, poll[p].pc # "idle"
  PROVE  /\ poll[p].job \in JobIds
         /\ Known(poll[p].job)
         /\ poll[p].entry \in 0 .. Len(entries)
         /\ poll[p].got \in Raw /\ poll[p].url \in BOOLEAN
         /\ poll[p].entry # 0 => /\ poll[p].entry \in 1 .. Len(entries)
                                 /\ entries[poll[p].entry] \in Entry
                                 /\ entries[poll[p].entry].job = poll[p].job
                                 /\ EntryIsTrue(entries[poll[p].entry])
<1>1. poll[p] \in PollStates(Len(entries)) /\ entries \in Seq(Entry) /\ Len(entries) \in Nat
  BY LenProperties DEF JobsInvariant, JobsTypeOK, PollStates, Entry
<1>2. poll[p].job \in JobIds /\ Known(poll[p].job)
  BY DEF JobsInvariant, StagesAgree
<1>3. poll[p].entry \in 0 .. Len(entries) /\ poll[p].got \in Raw /\ poll[p].url \in BOOLEAN
  BY <1>1 DEF PollStates
<1>4. ASSUME poll[p].entry # 0
      PROVE  /\ poll[p].entry \in 1 .. Len(entries)
             /\ entries[poll[p].entry] \in Entry
             /\ entries[poll[p].entry].job = poll[p].job
             /\ EntryIsTrue(entries[poll[p].entry])
  <2>1. poll[p].entry \in 1 .. Len(entries)
    BY <1>1, <1>3, <1>4
  <2>2. entries[poll[p].entry] \in Entry
    BY <1>1, <2>1, ElementOfSeq
  <2>3. entries[poll[p].entry].job = poll[p].job
    BY <1>4 DEF JobsInvariant, EntriesApart
  <2>4. EntryIsTrue(entries[poll[p].entry])
    BY Zenon, <2>1 DEF JobsInvariant, EntriesAreTrue
  <2> QED
    BY <2>1, <2>2, <2>3, <2>4
<1> QED
  BY <1>2, <1>3, <1>4

\* What an entry says stays true of a job that moves forward.
LEMMA EntryKept ==
  ASSUME Forward
  PROVE  \A x \in Entry : EntryIsTrue(x) => EntryIsTrue(x)'
<1> SUFFICES ASSUME NEW x \in Entry, EntryIsTrue(x) PROVE EntryIsTrue(x)'
  OBVIOUS
<1>1. x.job \in JobIds
  BY DEF Entry
<1>2. ShowsEnd(x) => Final(real[x.job])
  BY DEF EntryIsTrue, ShowsEnd, Final
<1>3. ShowsEnd(x) => Mapped(x.status) = Mapped(real'[x.job])
  BY <1>1, <1>2 DEF Forward, EntryIsTrue
<1>4. ShowsEnd(x) /\ x.known => SeenTo(x.job)'
  BY <1>1, <1>2 DEF Forward, EntryIsTrue
<1>5. /\ x.err => stage'[x.job] \in {"abandoning", "abandoned", "lost"}
      /\ x.url => shown'[x.job]
  BY <1>1 DEF Forward, EntryIsTrue
<1> QED
  BY <1>3, <1>4, <1>5 DEF EntryIsTrue

LEMMA EntriesKept ==
  ASSUME JobsInvariant, Forward, UNCHANGED entries
  PROVE  EntriesAreTrue'
<1>1. entries \in Seq(Entry)
  BY DEF JobsInvariant, JobsTypeOK, Entry
<1>2. ASSUME NEW e \in 1 .. Len(entries) PROVE EntryIsTrue(entries[e])'
  <2>1. PICK x \in Entry : x = entries[e]
    BY <1>1, ElementOfSeq
  <2>2. EntryIsTrue(x)
    BY <2>1 DEF JobsInvariant, EntriesAreTrue, EntryIsTrue, ShowsEnd
  <2>3. EntryIsTrue(x)'
    BY <2>2, EntryKept
  <2> QED
    BY <2>1, <2>3 DEF EntryIsTrue, ShowsEnd
<1> QED
  BY <1>2 DEF EntriesAreTrue

\* A new entry at the end.
LEMMA EntryAppended ==
  ASSUME JobsInvariant, Forward, NEW x \in Entry, EntryIsTrue(x)',
         entries' = Append(entries, x)
  PROVE  /\ entries' \in Seq(Entry)
         /\ Len(entries) \in Nat /\ Len(entries') = Len(entries) + 1
         /\ \A e \in 1 .. Len(entries) : entries'[e] = entries[e]
         /\ entries'[Len(entries')] = x
         /\ EntriesAreTrue'
<1>1. entries \in Seq(Entry) /\ Len(entries) \in Nat
  BY LenProperties DEF JobsInvariant, JobsTypeOK, Entry
<1>2. /\ entries' \in Seq(Entry) /\ Len(entries') = Len(entries) + 1
      /\ \A e \in 1 .. Len(entries) : entries'[e] = entries[e]
      /\ entries'[Len(entries) + 1] = x
  BY <1>1, AppendProperties
<1>3. ASSUME NEW e \in 1 .. Len(entries) + 1 PROVE EntryIsTrue(entries[e])'
  <2>1. CASE e = Len(entries) + 1
    BY <1>2, <2>1 DEF EntryIsTrue, ShowsEnd
  <2>2. CASE e \in 1 .. Len(entries)
    <3>1. PICK y \in Entry : y = entries[e]
      BY <1>1, <2>2, ElementOfSeq
    <3>2. EntryIsTrue(y)
      BY <2>2, <3>1 DEF JobsInvariant, EntriesAreTrue, EntryIsTrue, ShowsEnd
    <3>3. EntryIsTrue(y)' /\ entries'[e] = y
      BY <1>2, <2>2, <3>1, <3>2, EntryKept
    <3> QED
      BY <3>3 DEF EntryIsTrue, ShowsEnd
  <2> QED
    BY <1>1, <2>1, <2>2
<1>4. EntriesAreTrue'
  BY <1>2, <1>3 DEF EntriesAreTrue
<1> QED
  BY <1>1, <1>2, <1>4

\* An entry changes to one that is true of the same job.
LEMMA EntryUpdated ==
  ASSUME JobsInvariant, Forward, NEW e0 \in 1 .. Len(entries),
         NEW x \in Entry, EntryIsTrue(x)', x.job = entries[e0].job,
         entries' = [entries EXCEPT ![e0] = x]
  PROVE  /\ entries' \in Seq(Entry) /\ Len(entries') = Len(entries)
         /\ \A e \in 1 .. Len(entries) : entries'[e].job = entries[e].job
         /\ EntriesAreTrue'
<1>1. entries \in Seq(Entry)
  BY DEF JobsInvariant, JobsTypeOK, Entry
<1>2. /\ entries' \in Seq(Entry) /\ Len(entries') = Len(entries)
      /\ \A e \in 1 .. Len(entries) : entries'[e] = IF e = e0 THEN x ELSE entries[e]
  BY <1>1, ExceptSeq
<1>3. ASSUME NEW e \in 1 .. Len(entries) PROVE EntryIsTrue(entries[e])'
  <2>1. CASE e = e0
    BY <1>2, <2>1 DEF EntryIsTrue, ShowsEnd
  <2>2. CASE e # e0
    <3>1. PICK y \in Entry : y = entries[e]
      BY <1>1, ElementOfSeq
    <3>2. EntryIsTrue(y)
      BY <3>1 DEF JobsInvariant, EntriesAreTrue, EntryIsTrue, ShowsEnd
    <3>3. EntryIsTrue(y)' /\ entries'[e] = y
      BY <1>2, <2>2, <3>1, <3>2, EntryKept
    <3> QED
      BY <3>3 DEF EntryIsTrue, ShowsEnd
  <2> QED
    BY <2>1, <2>2
<1>4. EntriesAreTrue'
  BY <1>2, <1>3 DEF EntriesAreTrue
<1> QED
  BY <1>2, <1>4

\* A reason to call an end a job's stays one.
LEMMA ReasonsKept ==
  ASSUME Forward, NEW j \in JobIds, NEW end \in Ends, HasReason(j, end)
  PROVE  HasReason(j, end)'
BY DEF Forward, HasReason, Final, Known

\* What polls carry and what clients were told stays true of jobs that move forward.
LEMMA EndsKept ==
  ASSUME JobsInvariant, Forward
  PROVE  /\ \A p \in Polls : poll[p].pc # "idle" =>
               /\ Final(poll[p].got) => Mapped(poll[p].got) = Mapped(real'[poll[p].job])
               /\ poll[p].url => shown'[poll[p].job]
         /\ \A j \in JobIds : \A end \in told[j] : HasReason(j, end)'
<1>1. ASSUME NEW p \in Polls, poll[p].pc # "idle"
      PROVE  /\ Final(poll[p].got) => Mapped(poll[p].got) = Mapped(real'[poll[p].job])
             /\ poll[p].url => shown'[poll[p].job]
  <2>1. poll[p].job \in JobIds
    BY <1>1, HeldEntries
  <2>2. /\ Final(poll[p].got) => Mapped(poll[p].got) = Mapped(real[poll[p].job])
        /\ poll[p].url => shown[poll[p].job]
    BY <1>1 DEF JobsInvariant, AnswersAreTrue
  <2>3. Final(poll[p].got) => Final(real[poll[p].job])
    BY <2>2 DEF Final
  <2> QED
    BY <2>1, <2>2, <2>3 DEF Forward
<1>2. ASSUME NEW j \in JobIds, NEW end \in told[j] PROVE HasReason(j, end)'
  <2>1. end \in Ends /\ HasReason(j, end)
    BY DEF JobsInvariant, JobsTypeOK, EndsAreTrue
  <2> QED
    BY <2>1, ReasonsKept
<1> QED
  BY <1>1, <1>2

\* A refresh that runs after the end of its job sees to it.
LEMMA RefreshRuns ==
  ASSUME JobsInvariant, NEW j \in JobIds, tried' = Refreshed(j), UNCHANGED real
  PROVE  /\ tried' \in SUBSET JobIds
         /\ tried \subseteq tried'
         /\ tried' \subseteq tried \union {j}
         /\ Final(real[j]) => j \in tried'
         /\ \A i \in tried' : i \in tried \/ Final(real'[i])
BY DEF JobsInvariant, JobsTypeOK, Refreshed

-----------------------------------------------------------------------------
(* Upstream, the console, the handlers that create jobs, the refreshes *)

\* Steps that leave the table, its entries, the polls and the clients alone.
LEMMA QuietInvariant ==
  ASSUME JobsInvariant,
         \/ \E j \in JobIds : CreateUpstream(j) \/ Progress(j) \/ ShowResult(j) \/ Refresh(j)
         \/ \E a \in Accounts : Withdraw(a)
  PROVE  JobsInvariant'
<1>1. UNCHANGED <<owner, entries, table, poll, told, restarts>>
  BY DEF CreateUpstream, Progress, ShowResult, Withdraw, Refresh
<1>2. /\ real \in [JobIds -> Raw] /\ shown \in [JobIds -> BOOLEAN]
      /\ stage \in [JobIds -> Stages] /\ stored \in [Accounts -> {"enabled", "disabled", "gone"}]
      /\ due \in SUBSET JobIds /\ tried \in SUBSET JobIds
      /\ \A j \in JobIds : stage[j] = "new" => real[j] = "none"
  BY Zenon DEF JobsInvariant, JobsTypeOK, StagesAgree
<1> DEFINE Moved ==
      /\ real' \in [JobIds -> Raw] /\ shown' \in [JobIds -> BOOLEAN]
      /\ stage' \in [JobIds -> Stages] /\ stored' \in [Accounts -> {"enabled", "disabled", "gone"}]
      /\ due' \in SUBSET JobIds /\ tried' \in SUBSET JobIds
      /\ \A j \in JobIds :
            /\ stage[j] # "new" => stage'[j] = stage[j]
            /\ stage[j] = "new" => stage'[j] \in {"new", "created"}
            /\ stage'[j] = "new" => real'[j] = "none"
      /\ Forward
      /\ \A j \in JobIds : j \in tried' \union due' => j \in tried \union due \/ Final(real'[j])
<1>3. Moved
  <2>1. ASSUME NEW j \in JobIds, CreateUpstream(j) PROVE Moved
    <3>1. stage[j] = "new" /\ real[j] = "none"
      BY <1>2, <2>1 DEF CreateUpstream
    <3> QED
      BY <1>2, <2>1, <3>1, MappedStatuses
         DEF CreateUpstream, Raw, Stages, Forward, Known, SeenTo
  <2>2. ASSUME NEW j \in JobIds, Progress(j) PROVE Moved
    <3>1. ~Final(real[j]) /\ stage[j] # "new"
      BY <1>2, <2>2, MappedStatuses DEF Progress
    <3>2. real' \in [JobIds -> Raw]
      BY <1>2, <2>2, JobsAssumption DEF Progress, Raw
    <3>3. \A i \in JobIds : i # j => real'[i] = real[i]
      BY <1>2, <2>2 DEF Progress
    <3> QED
      BY <1>2, <2>2, <3>1, <3>2, <3>3 DEF Progress, Forward, Known, SeenTo
  <2>3. ASSUME NEW j \in JobIds, ShowResult(j) PROVE Moved
    BY <1>2, <2>3 DEF ShowResult, Forward, Known, SeenTo
  <2>4. ASSUME NEW j \in JobIds, Refresh(j) PROVE Moved
    <3>1. /\ tried' \in SUBSET JobIds /\ tried \subseteq tried'
          /\ Final(real[j]) => j \in tried'
          /\ \A i \in tried' : i \in tried \/ Final(real'[i])
      BY <2>4, RefreshRuns DEF Refresh
    <3> QED
      BY <1>2, <2>4, <3>1 DEF Refresh, Forward, Known, SeenTo
  <2>5. ASSUME NEW a \in Accounts, Withdraw(a) PROVE Moved
    BY <1>2, <2>5 DEF Withdraw, Forward, Known, SeenTo
  <2> QED
    BY <2>1, <2>2, <2>3, <2>4, <2>5
<1>4. JobsTypeOK'
  BY <1>1, <1>3 DEF JobsInvariant, JobsTypeOK
<1>5. StagesAgree'
  BY <1>1, <1>3 DEF JobsInvariant, StagesAgree, Known
<1>6. EntriesApart' /\ EntriesAreTrue'
  <2>1. Forward
    BY Zenon, <1>3
  <2> QED
    BY <1>1, <2>1, EntriesKept DEF JobsInvariant, EntriesApart
<1>7. AnswersAreTrue' /\ EndsAreTrue'
  <2>1. Forward
    BY Zenon, <1>3
  <2> QED
    BY <1>1, <2>1, EndsKept DEF AnswersAreTrue, EndsAreTrue
<1>8. RefreshesHaveCause'
  BY <1>3 DEF JobsInvariant, RefreshesHaveCause, Forward
<1> QED
  BY <1>4, <1>5, <1>6, <1>7, <1>8 DEF JobsInvariant

LEMMA RecordInvariant ==
  ASSUME JobsInvariant, NEW j \in JobIds, Record(j)
  PROVE  JobsInvariant'
<1>1. PICK x \in Entry :
         x = [job |-> j, known |-> TRUE, status |-> "queued", url |-> FALSE, err |-> FALSE]
  BY DEF Entry, Raw
<1>2. /\ entries' = Append(entries, x) /\ table' = [table EXCEPT ![j] = Len(entries')]
      /\ UNCHANGED <<real, shown, owner, stored, poll, due, tried, told, restarts>>
  BY <1>1 DEF Record
<1>3. EntryIsTrue(x)'
  BY <1>1, MappedStatuses DEF EntryIsTrue, ShowsEnd
<1>4. /\ stage \in [JobIds -> Stages] /\ stage' \in [JobIds -> Stages]
      /\ stage[j] = "created" /\ \A i \in JobIds : i # j => stage'[i] = stage[i]
      /\ stage'[j] \in {"waiting", "reported"}
  BY DEF JobsInvariant, JobsTypeOK, Record, Stages
<1>5. Forward
  BY <1>2, <1>4 DEF Forward, Known, SeenTo
<1>6. /\ entries' \in Seq(Entry)
      /\ Len(entries) \in Nat /\ Len(entries') = Len(entries) + 1
      /\ \A e \in 1 .. Len(entries) : entries'[e] = entries[e]
      /\ entries'[Len(entries')] = x
      /\ EntriesAreTrue'
  BY <1>2, <1>3, <1>5, EntryAppended
<1>7. /\ table \in [JobIds -> 0 .. Len(entries)] /\ table' \in [JobIds -> 0 .. Len(entries')]
      /\ \A i \in JobIds : i # j => table'[i] = table[i]
      /\ table'[j] = Len(entries')
  BY <1>2, <1>6 DEF JobsInvariant, JobsTypeOK
<1>8. JobsTypeOK'
  <2>1. poll' \in [Polls -> PollStates(Len(entries'))]
    BY <1>2, <1>6 DEF JobsInvariant, JobsTypeOK, PollStates
  <2> QED
    BY <1>2, <1>4, <1>6, <1>7, <2>1 DEF JobsInvariant, JobsTypeOK, PollStates, Entry
<1>9. StagesAgree'
  <2>1. \A p \in Polls : poll[p].pc # "idle" => poll[p].job \in JobIds /\ Known(poll[p].job)'
    BY <1>2, <1>5 DEF JobsInvariant, StagesAgree, Forward, Known
  <2>2. ASSUME NEW i \in JobIds
        PROVE  /\ stage'[i] = "new" => real[i] = "none"
               /\ stage'[i] \in {"waiting", "settling", "abandoning"} => table'[i] # 0
    BY <1>4, <1>6, <1>7 DEF JobsInvariant, StagesAgree
  <2> QED
    BY <1>2, <2>1, <2>2 DEF StagesAgree
<1>10. EntriesApart'
  <2>1. ASSUME NEW i \in JobIds, table'[i] # 0 PROVE entries'[table'[i]].job = i
    <3>1. CASE i = j
      BY <1>1, <1>6, <1>7, <3>1
    <3>2. CASE i # j
      BY <1>6, <1>7, <2>1, <3>2 DEF JobsInvariant, EntriesApart
    <3> QED
      BY <3>1, <3>2
  <2>2. ASSUME NEW p \in Polls, poll[p].pc # "idle", poll[p].entry # 0
        PROVE  entries'[poll[p].entry].job = poll[p].job
    BY <1>6, <2>2, HeldEntries
  <2> QED
    BY <1>2, <2>1, <2>2 DEF EntriesApart
<1>11. AnswersAreTrue' /\ EndsAreTrue'
  BY <1>2, <1>5, EndsKept DEF AnswersAreTrue, EndsAreTrue
<1>12. RefreshesHaveCause'
  BY <1>2 DEF JobsInvariant, RefreshesHaveCause
<1> QED
  BY <1>6, <1>8, <1>9, <1>10, <1>11, <1>12 DEF JobsInvariant

\* The entry of a handler that waits is its job's.
LEMMA WaitingEntry ==
  ASSUME JobsInvariant, NEW j \in JobIds, stage[j] \in {"waiting", "settling", "abandoning"}
  PROVE  /\ table[j] \in 1 .. Len(entries) /\ entries \in Seq(Entry)
         /\ entries[table[j]] \in Entry /\ entries[table[j]].job = j
         /\ EntryIsTrue(entries[table[j]])
<1>1. entries \in Seq(Entry) /\ Len(entries) \in Nat
  BY LenProperties DEF JobsInvariant, JobsTypeOK, Entry
<1>2. table[j] \in 1 .. Len(entries)
  BY <1>1 DEF JobsInvariant, JobsTypeOK, StagesAgree
<1>3. entries[table[j]] \in Entry
  BY <1>1, <1>2, ElementOfSeq
<1>4. entries[table[j]].job = j
  BY <1>2 DEF JobsInvariant, EntriesApart
<1>5. EntryIsTrue(entries[table[j]])
  BY Zenon, <1>2 DEF JobsInvariant, EntriesAreTrue
<1> QED
  BY <1>1, <1>2, <1>3, <1>4, <1>5

LEMMA WaitInvariant ==
  ASSUME JobsInvariant, NEW j \in JobIds, WaitReturns(j) \/ WaitFails(j)
  PROVE  JobsInvariant'
<1>1. /\ stage[j] = "waiting"
      /\ UNCHANGED <<real, shown, owner, stored, table, poll, due, tried, told, restarts>>
  BY DEF WaitReturns, WaitFails
<1>2. /\ table[j] \in 1 .. Len(entries) /\ entries \in Seq(Entry)
      /\ entries[table[j]] \in Entry /\ entries[table[j]].job = j
      /\ EntryIsTrue(entries[table[j]])
  BY <1>1, WaitingEntry
<1>3. /\ stage \in [JobIds -> Stages] /\ stage' \in [JobIds -> Stages]
      /\ \A i \in JobIds : i # j => stage'[i] = stage[i]
      /\ stage'[j] \in {"settling", "abandoning"}
  BY DEF JobsInvariant, JobsTypeOK, WaitReturns, WaitFails, Stages
<1>4. Forward
  BY <1>1, <1>3 DEF Forward, Known, SeenTo
<1>5. \E x \in Entry : /\ entries' = [entries EXCEPT ![table[j]] = x]
                       /\ x.job = j
                       /\ EntryIsTrue(x)'
  <2>1. CASE WaitReturns(j)
    <3>1. PICK old, x, status, url :
             /\ old = entries[table[j]] /\ status = real[j] /\ url = shown[j]
             /\ x = [old EXCEPT !.status = status, !.url = url]
      BY Zenon
    <3>2. status \in Raw /\ url \in BOOLEAN /\ old \in Entry
      BY <1>2, <3>1 DEF JobsInvariant, JobsTypeOK
    <3>3. /\ x \in Entry /\ x.job = j /\ x.status = status /\ x.url = url /\ x.err = old.err
      BY <1>2, <3>1, <3>2 DEF Entry
    <3>4. entries' = [entries EXCEPT ![table[j]] = x]
      BY <1>2, <2>1, <3>1 DEF WaitReturns
    <3>5. ~x.err
      BY <1>1, <1>2, <3>1, <3>3 DEF EntryIsTrue
    <3>6. stage'[j] = "settling"
      BY <2>1 DEF JobsInvariant, JobsTypeOK, WaitReturns
    <3>7. EntryIsTrue(x)'
      BY <1>1, <3>1, <3>3, <3>5, <3>6 DEF EntryIsTrue, SeenTo
    <3> QED
      BY <3>3, <3>4, <3>7
  <2>2. CASE WaitFails(j)
    <3>1. PICK old, x :
             /\ old = entries[table[j]]
             /\ x = [old EXCEPT !.status = "failed", !.err = TRUE]
      BY Zenon
    <3>2. "failed" \in Raw /\ old \in Entry
      BY <1>2, <3>1 DEF Raw
    <3>3. /\ x \in Entry /\ x.job = j /\ x.status = "failed" /\ x.url = old.url /\ x.err
      BY <1>2, <3>1, <3>2 DEF Entry
    <3>4. entries' = [entries EXCEPT ![table[j]] = x]
      BY <1>2, <2>2, <3>1 DEF WaitFails
    <3>5. stage'[j] = "abandoning"
      BY <2>2 DEF JobsInvariant, JobsTypeOK, WaitFails
    <3>6. EntryIsTrue(x)'
      BY <1>1, <1>2, <3>1, <3>3, <3>5 DEF EntryIsTrue, ShowsEnd
    <3> QED
      BY <3>3, <3>4, <3>6
  <2> QED
    BY <2>1, <2>2
<1>6. /\ entries' \in Seq(Entry) /\ Len(entries') = Len(entries)
      /\ \A e \in 1 .. Len(entries) : entries'[e].job = entries[e].job
      /\ EntriesAreTrue'
  BY <1>2, <1>4, <1>5, EntryUpdated
<1>7. JobsTypeOK'
  BY <1>1, <1>3, <1>6 DEF JobsInvariant, JobsTypeOK, Entry
<1>8. StagesAgree'
  BY <1>1, <1>2, <1>3 DEF JobsInvariant, StagesAgree, Known
<1>9. EntriesApart'
  <2>1. \A i \in JobIds : table[i] # 0 => entries'[table[i]].job = i
    BY <1>6, LenProperties DEF JobsInvariant, JobsTypeOK, EntriesApart
  <2>2. ASSUME NEW p \in Polls, poll[p].pc # "idle", poll[p].entry # 0
        PROVE  entries'[poll[p].entry].job = poll[p].job
    BY <1>6, <2>2, HeldEntries
  <2> QED
    BY <1>1, <2>1, <2>2 DEF EntriesApart
<1>10. AnswersAreTrue' /\ EndsAreTrue'
  BY <1>1, <1>4, EndsKept DEF AnswersAreTrue, EndsAreTrue
<1>11. RefreshesHaveCause'
  BY <1>1 DEF JobsInvariant, RefreshesHaveCause
<1> QED
  BY <1>6, <1>7, <1>8, <1>9, <1>10, <1>11 DEF JobsInvariant

\* A client hears of an end for a reason.
LEMMA ToldForReason ==
  ASSUME JobsInvariant, Forward, NEW j \in JobIds, NEW status, told' = Told(j, status),
         status \in Ends => HasReason(j, status)'
  PROVE  told' \in [JobIds -> SUBSET Ends] /\ EndsAreTrue'
<1>1. told \in [JobIds -> SUBSET Ends]
  BY DEF JobsInvariant, JobsTypeOK
<1>2. \A i \in JobIds : \A end \in told[i] : HasReason(i, end)'
  BY EndsKept
<1>3. told' \in [JobIds -> SUBSET Ends]
  BY <1>1 DEF Told
<1>4. ASSUME NEW i \in JobIds, NEW end \in told'[i] PROVE HasReason(i, end)'
  <2>1. end \in told[i] \/ (i = j /\ end = status /\ status \in Ends)
    BY <1>1, <1>4 DEF Told
  <2> QED
    BY <1>2, <2>1 DEF HasReason
<1> QED
  BY <1>3, <1>4 DEF EndsAreTrue

LEMMA AnswerWaitInvariant ==
  ASSUME JobsInvariant, NEW j \in JobIds, AnswerWait(j)
  PROVE  JobsInvariant'
<1>1. /\ stage[j] \in {"settling", "abandoning"}
      /\ UNCHANGED <<real, shown, owner, stored, entries, table, poll, due, restarts>>
      /\ tried' = Refreshed(j)
  BY DEF AnswerWait
<1>2. /\ stage \in [JobIds -> Stages] /\ stage' \in [JobIds -> Stages]
      /\ \A i \in JobIds : i # j => stage'[i] = stage[i]
      /\ stage[j] = "settling" => stage'[j] = "reported"
      /\ stage[j] = "abandoning" => stage'[j] \in {"abandoned", "lost"}
  BY DEF JobsInvariant, JobsTypeOK, AnswerWait, Stages
<1>3. /\ tried' \in SUBSET JobIds /\ tried \subseteq tried'
      /\ Final(real[j]) => j \in tried'
      /\ \A i \in tried' : i \in tried \/ Final(real'[i])
  BY <1>1, RefreshRuns
<1>4. Forward
  BY <1>1, <1>2, <1>3 DEF Forward, Known, SeenTo
<1>5. told' \in [JobIds -> SUBSET Ends] /\ EndsAreTrue'
  <2>1. CASE stage[j] = "settling"
    <3>1. PICK x \in Entry : x = entries[table[j]] /\ EntryIsTrue(x) /\ x.job = j
      BY <1>1, WaitingEntry
    <3>2. told' = Told(j, x.status)
      BY <2>1, <3>1 DEF AnswerWait
    <3>3. ~x.err /\ x.status \in Raw
      BY <2>1, <3>1 DEF EntryIsTrue, Entry
    <3>4. x.status \in Ends => x.status = Mapped(real[j])
      BY <3>1, <3>3, MappedStatuses DEF EntryIsTrue, ShowsEnd, Ends
    <3>5. x.status \in Ends => HasReason(j, x.status)'
      BY <1>1, <3>4 DEF HasReason
    <3> QED
      BY <1>4, <3>2, <3>5, ToldForReason
  <2>2. CASE stage[j] = "abandoning"
    <3>1. told' = told
      BY <2>2 DEF AnswerWait
    <3> QED
      BY <1>4, <3>1, EndsKept DEF JobsInvariant, JobsTypeOK, EndsAreTrue
  <2> QED
    BY <1>1, <2>1, <2>2
<1>6. JobsTypeOK'
  BY <1>1, <1>2, <1>3, <1>5 DEF JobsInvariant, JobsTypeOK
<1>7. StagesAgree'
  BY <1>1, <1>2 DEF JobsInvariant, StagesAgree, Known
<1>8. EntriesApart' /\ EntriesAreTrue'
  BY <1>1, <1>4, EntriesKept DEF JobsInvariant, EntriesApart
<1>9. AnswersAreTrue'
  BY <1>1, <1>4, EndsKept DEF AnswersAreTrue
<1>10. RefreshesHaveCause'
  BY <1>1, <1>3 DEF JobsInvariant, RefreshesHaveCause
<1> QED
  BY <1>5, <1>6, <1>7, <1>8, <1>9, <1>10 DEF JobsInvariant

-----------------------------------------------------------------------------
(* Polls *)

LEMMA AskInvariant ==
  ASSUME JobsInvariant, NEW p \in Polls,
         \/ \E j \in JobIds, video \in BOOLEAN : Lookup(p, j, video)
         \/ Ask(p) \/ AskFails(p)
  PROVE  JobsInvariant'
<1>1. UNCHANGED <<real, shown, owner, stored, stage, entries, table, due, tried, told, restarts>>
  BY Zenon DEF Lookup, Ask, AskFails
<1>2. PICK n : n = Len(entries) /\ poll \in [Polls -> PollStates(n)]
  BY DEF JobsInvariant, JobsTypeOK, PollStates
<1>3. PICK old : old = poll[p] /\ old \in PollStates(n)
  BY <1>2
<1>4. \E new \in PollStates(n) :
         /\ poll' = [poll EXCEPT ![p] = new]
         /\ new.job \in JobIds /\ Known(new.job)
         /\ new.entry # 0 => entries[new.entry].job = new.job
         /\ Final(new.got) => Mapped(new.got) = Mapped(real[new.job])
         /\ new.url => shown[new.job]
  <2>1. CASE \E j \in JobIds, video \in BOOLEAN : Lookup(p, j, video)
    <3>1. PICK j \in JobIds, video \in BOOLEAN : Lookup(p, j, video)
      BY <2>1
    <3>2. PICK entry \in 0 .. n : entry = table[j] /\ (entry # 0 => entries[entry].job = j)
      BY <1>2 DEF JobsInvariant, JobsTypeOK, EntriesApart
    <3>3. PICK new : new = [NoPoll EXCEPT !.pc = "ask", !.job = j, !.video = video,
                                          !.entry = entry]
      BY Zenon
    <3>4. /\ new \in PollStates(n) /\ new.job = j /\ new.entry = entry
          /\ new.got = "none" /\ ~new.url
      BY <3>3 DEF NoPoll, PollStates, Raw
    <3>5. poll' = [poll EXCEPT ![p] = new] /\ Known(j)
      BY Zenon, <3>1, <3>2, <3>3 DEF Lookup
    <3>6. /\ new.job \in JobIds /\ Known(new.job)
          /\ new.entry # 0 => entries[new.entry].job = new.job
          /\ ~Final(new.got) /\ ~new.url
      BY Zenon, <3>2, <3>4, <3>5, MappedStatuses
    <3> QED
      BY <3>4, <3>5, <3>6
  <2>2. ASSUME Ask(p) \/ AskFails(p)
        PROVE  /\ old.job \in JobIds /\ Known(old.job)
               /\ old.entry # 0 => entries[old.entry].job = old.job
               /\ Final(old.got) => Mapped(old.got) = Mapped(real[old.job])
               /\ old.url => shown[old.job]
    <3>1. poll[p].pc # "idle"
      BY <2>2 DEF Ask, AskFails
    <3> QED
      BY <1>3, <3>1, HeldEntries DEF JobsInvariant, AnswersAreTrue
  <2>3. CASE Ask(p)
    <3>1. PICK status, url : status = real[old.job] /\ url = shown[old.job]
      OBVIOUS
    <3>2. status \in Raw /\ url \in BOOLEAN
      BY <2>2, <2>3, <3>1 DEF JobsInvariant, JobsTypeOK
    <3>3. PICK scanned \in BOOLEAN :
             poll' = [poll EXCEPT ![p].pc = "reply", ![p].got = status, ![p].url = url,
                                  ![p].scanned = scanned /\ ~old.video]
      BY Zenon, <1>3, <2>3, <3>1 DEF Ask
    <3>4. PICK told1 \in BOOLEAN : told1 = (scanned /\ ~old.video)
      OBVIOUS
    <3>5. PICK new : new = [old EXCEPT !.pc = "reply", !.got = status, !.url = url,
                                       !.scanned = told1]
      BY Zenon
    <3>6. poll' = [poll EXCEPT ![p] = new]
      BY Zenon, <1>3, <3>3, <3>4, <3>5
    <3>7. /\ new \in PollStates(n) /\ new.job = old.job /\ new.entry = old.entry
          /\ new.got = status /\ new.url = url
      BY <1>3, <3>2, <3>5 DEF PollStates
    <3> QED
      BY <2>2, <2>3, <3>1, <3>6, <3>7
  <2>4. CASE AskFails(p)
    <3>1. PICK new : new = [old EXCEPT !.pc = "reply"]
      BY Zenon
    <3>2. poll' = [poll EXCEPT ![p] = new]
      BY Zenon, <1>3, <2>4, <3>1 DEF AskFails
    <3>3. /\ new \in PollStates(n) /\ new.job = old.job /\ new.entry = old.entry
          /\ new.got = old.got /\ new.url = old.url
      BY <1>3, <3>1 DEF PollStates
    <3> QED
      BY <2>2, <2>4, <3>2, <3>3
  <2> QED
    BY <2>1, <2>3, <2>4
<1>5. PICK new \in PollStates(n) :
         /\ poll' \in [Polls -> PollStates(n)]
         /\ poll'[p] = new /\ \A q \in Polls : q # p => poll'[q] = poll[q]
         /\ new.job \in JobIds /\ Known(new.job)
         /\ new.entry # 0 => entries[new.entry].job = new.job
         /\ Final(new.got) => Mapped(new.got) = Mapped(real[new.job])
         /\ new.url => shown[new.job]
  BY <1>2, <1>4
<1>6. JobsTypeOK'
  BY <1>1, <1>2, <1>5 DEF JobsInvariant, JobsTypeOK, PollStates
<1>7. StagesAgree'
  BY <1>1, <1>5 DEF JobsInvariant, StagesAgree, Known
<1>8. EntriesApart'
  BY <1>1, <1>5 DEF JobsInvariant, EntriesApart
<1>9. EntriesAreTrue' /\ EndsAreTrue'
  <2>1. Forward
    BY <1>1 DEF Forward, Known, SeenTo
  <2> QED
    BY <1>1, <2>1, EntriesKept, EndsKept DEF EndsAreTrue
<1>10. AnswersAreTrue'
  BY <1>1, <1>5 DEF JobsInvariant, AnswersAreTrue
<1>11. RefreshesHaveCause'
  BY <1>1 DEF JobsInvariant, RefreshesHaveCause
<1> QED
  BY <1>6, <1>7, <1>8, <1>9, <1>10, <1>11 DEF JobsInvariant

\* A poll that answers leaves the stage.
LEMMA PollAnswered ==
  ASSUME JobsInvariant, Forward, NEW p \in Polls, NEW status, Answer(p, status),
         poll[p].pc # "idle", UNCHANGED <<real, shown, stage>>,
         \A j \in JobIds : table[j] # 0 => table'[j] # 0,
         status \in Ends => HasReason(poll[p].job, status)
  PROVE  /\ told' \in [JobIds -> SUBSET Ends]
         /\ poll' \in [Polls -> PollStates(Len(entries))]
         /\ \A q \in Polls : poll'[q].pc # "idle" => poll'[q] = poll[q]
         /\ StagesAgree' /\ AnswersAreTrue' /\ EndsAreTrue'
<1>1. poll[p].job \in JobIds /\ 0 \in 0 .. Len(entries)
  BY HeldEntries DEF JobsInvariant, JobsTypeOK
<1>2. NoPoll \in PollStates(Len(entries)) /\ NoPoll.pc = "idle"
  BY <1>1 DEF NoPoll, Raw, PollStates
<1>3. poll' = [poll EXCEPT ![p] = NoPoll]
  BY DEF Answer
<1>4. poll \in [Polls -> PollStates(Len(entries))]
  BY DEF JobsInvariant, JobsTypeOK, PollStates
<1>5. poll' \in [Polls -> PollStates(Len(entries))]
  BY <1>2, <1>3, <1>4
<1>6. \A q \in Polls : poll'[q].pc # "idle" => poll'[q] = poll[q]
  BY <1>2, <1>3, <1>4
<1>7. told' \in [JobIds -> SUBSET Ends] /\ EndsAreTrue'
  <2>1. PICK j \in JobIds : j = poll[p].job
    BY <1>1
  <2>2. told' = Told(j, status) /\ (status \in Ends => HasReason(j, status))
    BY <2>1 DEF Answer
  <2>3. status \in Ends => HasReason(j, status)'
    BY <2>2, ReasonsKept
  <2> QED
    BY <2>2, <2>3, ToldForReason
<1>8. StagesAgree' /\ AnswersAreTrue'
  BY <1>6, EndsKept DEF JobsInvariant, StagesAgree, AnswersAreTrue, Known
<1> QED
  BY <1>5, <1>6, <1>7, <1>8

\* Why polls say what they say.
LEMMA EntryHasReason ==
  ASSUME JobsInvariant, NEW j \in JobIds, Known(j),
         NEW x \in Entry, EntryIsTrue(x), x.job = j
  PROVE  /\ x.err => HasReason(j, "failed")
         /\ x.url => HasReason(j, "completed")
         /\ x.status \in Ends => HasReason(j, x.status)
BY MappedStatuses DEF EntryIsTrue, ShowsEnd, HasReason, Known, Entry, Ends

LEMMA AnswerHasReason ==
  ASSUME JobsInvariant, NEW p \in Polls, poll[p].pc # "idle"
  PROVE  /\ poll[p].got \in Ends => HasReason(poll[p].job, poll[p].got)
         /\ Mapped(poll[p].got) \in Ends => HasReason(poll[p].job, Mapped(poll[p].got))
         /\ Final(poll[p].got) => Final(real[poll[p].job])
         /\ Final(Mapped(poll[p].got)) =>
               /\ Final(poll[p].got)
               /\ Mapped(Mapped(poll[p].got)) = Mapped(real[poll[p].job])
<1>1. poll[p].got \in Raw
  BY HeldEntries
<1>2. Final(poll[p].got) => Mapped(poll[p].got) = Mapped(real[poll[p].job])
  BY DEF JobsInvariant, AnswersAreTrue
<1> QED
  BY <1>1, <1>2, MappedStatuses DEF HasReason, Final

\* What a poll says that changes no entry, it says for a reason.
LEMMA ReplyReasons ==
  ASSUME JobsInvariant, NEW p \in Polls, ReplyFromEntry(p) \/ ReplyJob(p)
  PROVE  \E status : Answer(p, status) /\ (status \in Ends => HasReason(poll[p].job, status))
<1>1. poll[p].pc # "idle"
  BY DEF ReplyFromEntry, ReplyJob
<1>2. PICK j \in JobIds : j = poll[p].job /\ Known(j)
  BY <1>1, HeldEntries
<1>3. CASE ReplyJob(p)
  BY <1>1, <1>3, AnswerHasReason DEF ReplyJob
<1>4. CASE ReplyFromEntry(p) /\ poll[p].entry = 0
  <2>1. Answer(p, "not_found")
    BY <1>4 DEF ReplyFromEntry
  <2> QED
    BY <2>1, MappedStatuses
<1>5. CASE ReplyFromEntry(p) /\ poll[p].entry # 0
  <2>1. PICK x \in Entry : x = entries[poll[p].entry] /\ x.job = j /\ EntryIsTrue(x)
    BY <1>1, <1>2, <1>5, HeldEntries
  <2>2. /\ x.err => HasReason(j, "failed")
        /\ x.url => HasReason(j, "completed")
        /\ x.status \in Ends => HasReason(j, x.status)
    BY <1>2, <2>1, EntryHasReason
  <2>3. \/ Answer(p, "failed") /\ x.err
        \/ Answer(p, "completed") /\ x.url
        \/ Answer(p, x.status)
    BY <1>5, <2>1 DEF ReplyFromEntry
  <2> QED
    BY <1>2, <2>2, <2>3
<1> QED
  BY <1>3, <1>4, <1>5

\* Answers that change no entry.
LEMMA ReplyInvariant ==
  ASSUME JobsInvariant, NEW p \in Polls, ReplyFromEntry(p) \/ ReplyJob(p)
  PROVE  JobsInvariant'
<1>1. /\ poll[p].pc # "idle"
      /\ UNCHANGED <<real, shown, owner, stored, stage, entries, table, tried, restarts>>
  BY DEF ReplyFromEntry, ReplyJob
<1>2. PICK j \in JobIds : j = poll[p].job /\ Known(j)
  BY <1>1, HeldEntries
<1>3. /\ due \subseteq due' /\ due' \subseteq due \union {j}
      /\ j \in due' => j \in due \/ Final(real[j]) \/ shown[j]
  <2>1. CASE ReplyFromEntry(p)
    BY <2>1 DEF ReplyFromEntry
  <2>2. CASE ReplyJob(p)
    <3>1. \A s \in Ends \union {"nsfw"} : Final(s)
      BY MappedStatuses DEF Ends, Raw
    <3>2. poll[p].got \in Ends \union {"nsfw"} => Final(real[j])
      BY <1>1, <1>2, <3>1, AnswerHasReason
    <3>3. poll[p].url => shown[j]
      BY <1>1, <1>2 DEF JobsInvariant, AnswersAreTrue
    <3> QED
      BY <1>2, <2>2, <3>2, <3>3 DEF ReplyJob
  <2> QED
    BY <2>1, <2>2
<1>4. Forward
  BY <1>1, <1>3 DEF Forward, Known, SeenTo
<1>5. \E status : Answer(p, status) /\ (status \in Ends => HasReason(poll[p].job, status))
  BY ReplyReasons
<1>6. /\ told' \in [JobIds -> SUBSET Ends]
      /\ poll' \in [Polls -> PollStates(Len(entries))]
      /\ \A q \in Polls : poll'[q].pc # "idle" => poll'[q] = poll[q]
      /\ StagesAgree' /\ AnswersAreTrue' /\ EndsAreTrue'
  BY <1>1, <1>4, <1>5, PollAnswered
<1>7. JobsTypeOK'
  BY <1>1, <1>3, <1>6 DEF JobsInvariant, JobsTypeOK, PollStates
<1>8. EntriesApart' /\ EntriesAreTrue'
  <2>1. EntriesAreTrue'
    BY <1>1, <1>4, EntriesKept
  <2>2. EntriesApart'
    BY <1>1, <1>6 DEF JobsInvariant, EntriesApart
  <2> QED
    BY <2>1, <2>2
<1>9. RefreshesHaveCause'
  BY <1>1, <1>3 DEF JobsInvariant, RefreshesHaveCause
<1> QED
  BY <1>6, <1>7, <1>8, <1>9 DEF JobsInvariant

\* A poll of a video writes what it heard into the entry it looked up, or into a new one.
LEMMA ReplyVideoInvariant ==
  ASSUME JobsInvariant, NEW p \in Polls, ReplyVideo(p)
  PROVE  JobsInvariant'
<1>1. /\ poll[p].pc # "idle"
      /\ UNCHANGED <<real, shown, owner, stored, stage, tried, restarts>>
      /\ Answer(p, Mapped(poll[p].got))
  BY DEF ReplyVideo
<1>2. PICK j, status, url, old, n :
         /\ j \in JobIds /\ j = poll[p].job /\ Known(j)
         /\ status = Mapped(poll[p].got) /\ url = poll[p].url
         /\ old = poll[p].entry /\ n = Len(entries)
  BY <1>1, HeldEntries
<1>3. /\ status \in Raw /\ url \in BOOLEAN
      /\ Final(status) => Mapped(status) = Mapped(real[j]) /\ Final(real[j])
      /\ url => shown[j]
  <2>1. poll[p].got \in Raw /\ url \in BOOLEAN
    BY <1>1, <1>2, HeldEntries
  <2>2. url => shown[j]
    BY <1>1, <1>2 DEF JobsInvariant, AnswersAreTrue
  <2> QED
    BY <1>1, <1>2, <2>1, <2>2, MappedStatuses, AnswerHasReason
<1>4. /\ due \subseteq due' /\ due' \subseteq due \union {j}
      /\ j \in due' => j \in due \/ Final(real[j])
      /\ (old # 0 /\ entries[old].known /\ Final(status) /\ status # entries[old].status)
            => j \in due'
  BY <1>2, <1>3 DEF ReplyVideo, HasAccount
<1>5. Forward
  BY <1>1, <1>4 DEF Forward, Known, SeenTo
<1>6. /\ entries' \in Seq(Entry) /\ n \in Nat /\ Len(entries') \in Nat /\ n <= Len(entries')
      /\ table' \in [JobIds -> 0 .. Len(entries')]
      /\ \A i \in JobIds : table[i] # 0 => table'[i] # 0
      /\ \A i \in JobIds : table'[i] # 0 => entries'[table'[i]].job = i
      /\ \A e \in 1 .. n : entries'[e].job = entries[e].job
      /\ EntriesAreTrue'
  <2>1. n \in Nat /\ entries \in Seq(Entry) /\ table \in [JobIds -> 0 .. n]
    BY <1>2, LenProperties DEF JobsInvariant, JobsTypeOK, Entry
  <2>2. CASE old = 0
    <3>1. PICK x \in Entry : x = [job |-> j, known |-> FALSE, status |-> status,
                                  url |-> url, err |-> FALSE]
      BY <1>2, <1>3 DEF Entry
    <3>2. entries' = Append(entries, x) /\ table' = [table EXCEPT ![j] = Len(entries')]
      BY <1>2, <2>2, <3>1 DEF ReplyVideo
    <3>3. EntryIsTrue(x)'
      BY <1>1, <1>3, <3>1 DEF EntryIsTrue, ShowsEnd
    <3>4. /\ entries' \in Seq(Entry) /\ Len(entries') = n + 1
          /\ \A e \in 1 .. n : entries'[e] = entries[e]
          /\ entries'[n + 1] = x /\ EntriesAreTrue'
      BY <1>2, <1>5, <3>2, <3>3, EntryAppended
    <3>5. /\ table' \in [JobIds -> 0 .. n + 1] /\ table'[j] = n + 1
          /\ \A i \in JobIds : i # j => table'[i] = table[i]
      BY <1>2, <2>1, <3>2, <3>4
    <3>6. ASSUME NEW i \in JobIds, table'[i] # 0 PROVE entries'[table'[i]].job = i
      <4>1. CASE i = j
        BY <3>1, <3>4, <3>5, <4>1
      <4>2. CASE i # j
        BY <2>1, <3>4, <3>5, <3>6, <4>2 DEF JobsInvariant, EntriesApart
      <4> QED
        BY <4>1, <4>2
    <3>7. \A i \in JobIds : table[i] # 0 => table'[i] # 0
      BY <2>1, <3>5
    <3> QED
      BY <2>1, <3>4, <3>5, <3>6, <3>7
  <2>3. CASE old # 0
    <3>1. PICK y \in Entry : y = entries[old] /\ y.job = j /\ EntryIsTrue(y)
      BY <1>1, <1>2, <2>3, HeldEntries
    <3>2. PICK x : x = [y EXCEPT !.status = status, !.url = url]
      BY Zenon
    <3>3. /\ x \in Entry /\ x.job = j /\ x.known = y.known /\ x.err = y.err
          /\ x.status = status /\ x.url = url
      BY <1>3, <3>1, <3>2 DEF Entry
    <3>4. entries' = [entries EXCEPT ![old] = x] /\ table' = table
      <4>1. entries' = [entries EXCEPT ![old].status = status, ![old].url = url]
            /\ table' = table
        BY <1>2, <2>3 DEF ReplyVideo
      <4> QED
        BY Zenon, <3>1, <3>2, <4>1
    <3>5. EntryIsTrue(x)'
      <4>1. /\ x.err => stage'[j] \in {"abandoning", "abandoned", "lost"}
            /\ x.url => shown'[j]
            /\ ShowsEnd(x) => Mapped(x.status) = Mapped(real'[j])
        BY <1>1, <1>3, <3>1, <3>3 DEF EntryIsTrue, ShowsEnd
      <4>2. ASSUME ShowsEnd(x), x.known PROVE SeenTo(j)'
        <5>1. CASE status = y.status
          <6>1. ShowsEnd(y) /\ y.known
            BY <3>3, <4>2, <5>1 DEF ShowsEnd
          <6> QED
            BY <1>1, <1>4, <3>1, <6>1 DEF EntryIsTrue, SeenTo
        <5>2. CASE status # y.status
          BY <1>4, <2>3, <3>1, <3>3, <4>2, <5>2 DEF ShowsEnd, SeenTo
        <5> QED
          BY <5>1, <5>2
      <4> QED
        BY <3>3, <4>1, <4>2 DEF EntryIsTrue, ShowsEnd
    <3>6. old \in 1 .. Len(entries)
      BY <1>1, <1>2, <2>3, HeldEntries
    <3>7. /\ entries' \in Seq(Entry) /\ Len(entries') = n
          /\ \A e \in 1 .. n : entries'[e].job = entries[e].job
          /\ EntriesAreTrue'
      BY <1>2, <1>5, <3>1, <3>3, <3>4, <3>5, <3>6, EntryUpdated
    <3>8. \A i \in JobIds : table'[i] # 0 => entries'[table'[i]].job = i
      BY <2>1, <3>4, <3>7 DEF JobsInvariant, EntriesApart
    <3> QED
      BY <2>1, <3>4, <3>7, <3>8
  <2> QED
    BY <2>2, <2>3
<1>7. /\ told' \in [JobIds -> SUBSET Ends]
      /\ poll' \in [Polls -> PollStates(n)]
      /\ \A q \in Polls : poll'[q].pc # "idle" => poll'[q] = poll[q]
      /\ StagesAgree' /\ AnswersAreTrue' /\ EndsAreTrue'
  <2>1. status \in Ends => HasReason(poll[p].job, status)
    BY <1>1, <1>2, AnswerHasReason
  <2> QED
    BY <1>1, <1>2, <1>5, <1>6, <2>1, PollAnswered
<1>8. JobsTypeOK'
  <2>1. poll' \in [Polls -> PollStates(Len(entries'))]
    BY <1>6, <1>7 DEF PollStates
  <2>2. due' \in SUBSET JobIds
    BY <1>2, <1>4 DEF JobsInvariant, JobsTypeOK
  <2> QED
    BY <1>1, <1>6, <1>7, <2>1, <2>2 DEF JobsInvariant, JobsTypeOK, PollStates, Entry
<1>9. EntriesApart'
  <2>1. ASSUME NEW q \in Polls, poll'[q].pc # "idle", poll'[q].entry # 0
        PROVE  entries'[poll'[q].entry].job = poll'[q].job
    <3>1. poll'[q] = poll[q] /\ poll[q].pc # "idle" /\ poll[q].entry # 0
      BY <1>7, <2>1
    <3>2. poll[q].entry \in 1 .. n /\ entries[poll[q].entry].job = poll[q].job
      BY <1>2, <3>1, HeldEntries
    <3> QED
      BY <1>6, <3>1, <3>2
  <2> QED
    BY <1>6, <2>1 DEF EntriesApart
<1>10. RefreshesHaveCause'
  BY <1>1, <1>4 DEF JobsInvariant, RefreshesHaveCause
<1> QED
  BY <1>6, <1>7, <1>8, <1>9, <1>10 DEF JobsInvariant

-----------------------------------------------------------------------------

\* The table, the polls and the refreshes die, what clients know and were told does not.
LEMMA RestartJobs ==
  ASSUME JobsInvariant, Restart
  PROVE  JobsInvariant'
<1>1. /\ entries' \in Seq(Entry) /\ Len(entries') = 0
      /\ restarts' \in 0 .. MaxRestarts
      /\ stage' \in [JobIds -> Stages]
  BY EmptySeq, JobsAssumption DEF JobsInvariant, JobsTypeOK, Restart, Stages
<1>2. \A j \in JobIds : /\ Known(j) => stage'[j] = stage[j]
                        /\ stage'[j] = "new" => stage[j] = "new"
                        /\ stage'[j] \notin {"waiting", "settling", "abandoning"}
  BY DEF Restart, Known
<1>3. JobsTypeOK'
  BY <1>1 DEF JobsInvariant, JobsTypeOK, Restart, Entry, NoPoll, Raw
<1>4. EntriesApart' /\ EntriesAreTrue'
  BY DEF Restart, EntriesApart, EntriesAreTrue, NoPoll
<1>5. StagesAgree' /\ AnswersAreTrue'
  BY <1>2 DEF JobsInvariant, StagesAgree, AnswersAreTrue, Restart, NoPoll
<1>6. EndsAreTrue'
  <2>1. ASSUME NEW j \in JobIds, NEW end \in told[j] PROVE HasReason(j, end)'
    <3>1. HasReason(j, end)
      BY DEF JobsInvariant, EndsAreTrue
    <3>2. stage[j] = "abandoned" => stage'[j] = "abandoned"
      BY <1>2 DEF Known
    <3> QED
      BY <3>1, <3>2 DEF HasReason, Restart
  <2> QED
    BY <2>1 DEF EndsAreTrue, Restart
<1>7. RefreshesHaveCause'
  BY DEF RefreshesHaveCause, Restart
<1> QED
  BY <1>3, <1>4, <1>5, <1>6, <1>7 DEF JobsInvariant

LEMMA NextJobs == JobsInvariant /\ [JobsNext]_jobVars => JobsInvariant'
<1> SUFFICES ASSUME JobsInvariant, [JobsNext]_jobVars PROVE JobsInvariant'
  OBVIOUS
<1>1. ASSUME NEW j \in JobIds,
             \/ CreateUpstream(j) \/ Progress(j) \/ ShowResult(j)
             \/ Record(j) \/ Wait(j) \/ Refresh(j)
      PROVE  JobsInvariant'
  BY <1>1, QuietInvariant, RecordInvariant, WaitInvariant, AnswerWaitInvariant DEF Wait
<1>2. ASSUME NEW a \in Accounts, Withdraw(a) PROVE JobsInvariant'
  BY <1>2, QuietInvariant
<1>3. ASSUME NEW p \in Polls,
             \/ \E j \in JobIds, video \in BOOLEAN : Lookup(p, j, video)
             \/ Ask(p) \/ AskFails(p) \/ Reply(p)
      PROVE  JobsInvariant'
  BY <1>3, AskInvariant, ReplyInvariant, ReplyVideoInvariant DEF Reply
<1>4. CASE UNCHANGED jobVars
  BY <1>4 DEF jobVars, JobsInvariant, JobsTypeOK, StagesAgree, EntriesApart, EntriesAreTrue,
              EntryIsTrue, ShowsEnd, SeenTo, Known, AnswersAreTrue, RefreshesHaveCause,
              EndsAreTrue, HasReason
<1> QED
  BY <1>1, <1>2, <1>3, <1>4, RestartJobs DEF JobsNext

\* However polls, waiting handlers, refreshes and restarts interleave, entries are never
\* mixed up between jobs and show no end that did not happen but that of a failed wait,
\* and what polls carry from upstream to their answers stands.
THEOREM JobsInvariantHolds == JobsSpec => []JobsInvariant
  BY InitJobs, NextJobs, PTL DEF JobsSpec

\* Clients are told of no end (runGeneration, JobGet, videosGet) that the job does not
\* have, but "completed" once a result shows and "failed" after the wait for it failed.
THEOREM EndsAlwaysTrue == JobsSpec => []EndsAreTrue
<1>1. JobsInvariant => EndsAreTrue
  BY DEF JobsInvariant
<1> QED
  BY <1>1, JobsInvariantHolds, PTL

\* After every end that shows in an entry with an account, a refresh of the credits ran,
\* or the handler or a goroutine is still to run it, in this life of the process.
THEOREM EndsAlwaysSettled == JobsSpec => []EndIsSettled
<1>1. JobsInvariant => EndIsSettled
  <2> SUFFICES ASSUME JobsInvariant, NEW j \in JobIds, table[j] # 0,
                      entries[table[j]].known, ShowsEnd(entries[table[j]])
               PROVE  SeenTo(j)
    BY DEF EndIsSettled
  <2>1. table[j] \in 1 .. Len(entries)
    BY LenProperties DEF JobsInvariant, JobsTypeOK
  <2>2. EntryIsTrue(entries[table[j]])
    BY <2>1 DEF JobsInvariant, EntriesAreTrue
  <2>3. entries[table[j]].job = j
    BY DEF JobsInvariant, EntriesApart
  <2> QED
    BY <2>2, <2>3 DEF EntryIsTrue
<1> QED
  BY <1>1, JobsInvariantHolds, PTL

-----------------------------------------------------------------------------
(* Jobs as their clients meet them *)

\* An end of a job is one of the two that JobOutcomes knows; a reason to call an end the
\* job's is one that JobOutcomes lets a client hear of.
LEMMA OutcomeOfEnd ==
  ASSUME JobsInvariant, NEW j \in JobIds
  PROVE  /\ Outcomes!Ended(j) <=> Final(real[j])
         /\ Final(real[j]) => Outcome[j] = Mapped(real[j])
         /\ Outcome[j] \in {"open", "completed", "failed"}
         /\ \A end \in Ends : HasReason(j, end) =>
               end \in Hints[j] \union (IF Outcomes!Ended(j) THEN {Outcome[j]} ELSE {})
BY DEF Outcomes!Ended, Outcome, Hints, HasReason, Final, Ends

LEMMA OutcomeOfUpstream ==
  ASSUME JobsInvariant, NEW j \in JobIds,
         CreateUpstream(j) \/ Progress(j) \/ ShowResult(j) \/ Refresh(j)
  PROVE  \/ Outcomes!End(j) \/ Outcomes!ShowEarly(j)
         \/ UNCHANGED <<Outcome, Hints, Client, told>>
<1>1. CASE CreateUpstream(j)
  <2>1. real[j] = "none" /\ UNCHANGED <<shown, told>>
    BY <1>1 DEF JobsInvariant, StagesAgree, CreateUpstream
  <2>2. UNCHANGED Client /\ UNCHANGED Hints
    BY <1>1 DEF CreateUpstream, Client, Hints, Known, JobsInvariant, JobsTypeOK
  <2>3. UNCHANGED Outcome
    BY <1>1, <2>1, MappedStatuses DEF CreateUpstream, Outcome, JobsInvariant, JobsTypeOK
  <2> QED
    BY <2>1, <2>2, <2>3
<1>2. CASE Progress(j)
  <2>1. /\ UNCHANGED <<Hints, Client, told>>
        /\ ~Final(real[j])
        /\ Final(real'[j])
        /\ \A i \in JobIds : i # j => real'[i] = real[i]
    <3>1. UNCHANGED <<Hints, Client, told>>
      BY <1>2 DEF Progress, Hints, Client, Known
    <3>2. PICK end \in RawEnds : real' = [real EXCEPT ![j] = end]
      BY <1>2 DEF Progress
    <3>3. ~Final(real[j]) /\ Final(end)
      BY <1>2, <3>2, JobsAssumption, MappedStatuses DEF Progress, Raw
    <3> QED
      BY <3>1, <3>2, <3>3 DEF JobsInvariant, JobsTypeOK
  <2>2. ~Outcomes!Ended(j)
    BY <2>1, OutcomeOfEnd
  <2>3. Outcome' = [Outcome EXCEPT ![j] = Mapped(real'[j])]
    BY <2>1 DEF Outcome
  <2> QED
    BY <2>1, <2>2, <2>3 DEF Outcomes!End, Final, Ends
<1>3. CASE ShowResult(j)
  <2>1. UNCHANGED <<Outcome, Client, told>>
    BY <1>3 DEF ShowResult, Outcome, Client, Known
  <2>2. shown' = [shown EXCEPT ![j] = TRUE] /\ UNCHANGED stage
    BY <1>3 DEF ShowResult
  <2>3. Hints' = [Hints EXCEPT ![j] = @ \union {"completed"}]
    BY <2>2 DEF Hints, JobsInvariant, JobsTypeOK
  <2> QED
    BY <2>1, <2>3 DEF Outcomes!ShowEarly
<1>4. CASE Refresh(j)
  BY <1>4 DEF Refresh, Outcome, Hints, Client, Known
<1> QED
  BY <1>1, <1>2, <1>3, <1>4

LEMMA OutcomeOfHandlers ==
  ASSUME JobsInvariant, NEW j \in JobIds, Record(j) \/ Wait(j)
  PROVE  \/ Outcomes!Inform(j) \/ Outcomes!GiveUp(j) \/ Outcomes!Lose
         \/ UNCHANGED <<Outcome, Hints, Client, told>>
<1>1. UNCHANGED <<Outcome, shown>>
  BY DEF Record, Wait, WaitReturns, WaitFails, AnswerWait, Outcome
<1>2. /\ stage[j] \in {"created", "waiting", "settling", "abandoning"}
      /\ stage \in [JobIds -> Stages] /\ Client[j] = "waits"
  BY DEF JobsInvariant, JobsTypeOK, Record, Wait, WaitReturns, WaitFails, AnswerWait,
         Client, Known
<1>3. ASSUME NEW state \in Stages, stage' = [stage EXCEPT ![j] = state]
      PROVE  /\ state # "abandoned" => UNCHANGED Hints
             /\ state = "abandoned" => Hints' = [Hints EXCEPT ![j] = @ \union {"failed"}]
             /\ state \in {"waiting", "settling", "abandoning"} => UNCHANGED Client
             /\ state \in {"reported", "abandoned"} => Client' = [Client EXCEPT ![j] = "knows"]
             /\ state = "lost" =>
                   Client' = [i \in JobIds |-> IF i \in {j} THEN "lost" ELSE Client[i]]
  <2>1. stage'[j] = state /\ \A i \in JobIds : i # j => stage'[i] = stage[i]
    BY <1>2, <1>3
  <2>2. /\ state # "abandoned" => UNCHANGED Hints
        /\ state = "abandoned" => Hints' = [Hints EXCEPT ![j] = @ \union {"failed"}]
    BY <1>1, <1>2, <2>1 DEF Hints
  <2>3. ASSUME state \in {"waiting", "settling", "abandoning"} PROVE UNCHANGED Client
    BY <1>2, <2>1, <2>3 DEF Client, Known
  <2>4. ASSUME state \in {"reported", "abandoned"}
        PROVE  Client' = [Client EXCEPT ![j] = "knows"]
    BY <1>2, <2>1, <2>4 DEF Client, Known
  <2>5. ASSUME state = "lost"
        PROVE  Client' = [i \in JobIds |-> IF i \in {j} THEN "lost" ELSE Client[i]]
    BY <1>2, <2>1, <2>5 DEF Client, Known
  <2> QED
    BY <2>2, <2>3, <2>4, <2>5
<1>4. CASE Record(j) \/ WaitReturns(j) \/ WaitFails(j)
  <2>1. PICK state \in {"waiting", "reported", "settling", "abandoning"} :
           stage' = [stage EXCEPT ![j] = state] /\ told' = told
    BY Zenon, <1>4 DEF Record, WaitReturns, WaitFails
  <2> QED
    BY <1>1, <1>2, <1>3, <2>1 DEF Outcomes!Inform, Stages
<1>5. CASE AnswerWait(j)
  <2>1. CASE stage[j] = "settling"
    <3>1. PICK x \in Entry : x = entries[table[j]] /\ EntryIsTrue(x) /\ x.job = j
      BY <2>1, WaitingEntry
    <3>2. told' = Told(j, x.status) /\ stage' = [stage EXCEPT ![j] = "reported"]
      BY <1>5, <2>1, <3>1 DEF AnswerWait
    <3>3. ~x.err /\ x.status \in Raw
      BY <2>1, <3>1 DEF EntryIsTrue, Entry
    <3>4. x.status \in Ends => Final(real[j]) /\ x.status = Mapped(real[j])
      BY <3>1, <3>3, MappedStatuses DEF EntryIsTrue, ShowsEnd, Final
    <3>5. x.status \in Ends => Outcomes!Ended(j) /\ x.status = Outcome[j]
      BY <3>4, OutcomeOfEnd
    <3>6. UNCHANGED Hints /\ Client' = [Client EXCEPT ![j] = "knows"]
      BY <1>3, <3>2 DEF Stages
    <3> QED
      BY <1>1, <1>2, <3>2, <3>5, <3>6 DEF Outcomes!Inform, Told
  <2>2. CASE stage[j] = "abandoning"
    <3>1. PICK state \in {"abandoned", "lost"} :
             stage' = [stage EXCEPT ![j] = state] /\ told' = told
      BY <1>5, <2>2 DEF AnswerWait
    <3>2. CASE state = "abandoned"
      BY <1>1, <1>2, <1>3, <3>1, <3>2 DEF Outcomes!GiveUp, Stages
    <3>3. CASE state = "lost"
      <4>1. UNCHANGED Hints
        BY <1>3, <3>1, <3>3 DEF Stages
      <4>2. Client' = [i \in JobIds |-> IF i \in {j} THEN "lost" ELSE Client[i]]
        BY <1>3, <3>1, <3>3 DEF Stages
      <4>3. {j} \in SUBSET {i \in JobIds : Client[i] = "waits"}
        BY <1>2
      <4> QED
        BY <1>1, <3>1, <4>1, <4>2, <4>3 DEF Outcomes!Lose
    <3> QED
      BY <3>1, <3>2, <3>3
  <2> QED
    BY <1>5, <2>1, <2>2 DEF AnswerWait
<1> QED
  BY <1>4, <1>5 DEF Wait

\* A poll that answers tells the client of an end there is reason to believe in, or of none.
LEMMA OutcomeOfReply ==
  ASSUME JobsInvariant, NEW p \in Polls, Reply(p)
  PROVE  \/ \E j \in JobIds : Outcomes!Tell(j)
         \/ UNCHANGED <<Outcome, Hints, Client, told>>
<1>1. poll[p].pc # "idle" /\ UNCHANGED <<real, shown, stage>>
  BY DEF Reply, ReplyFromEntry, ReplyJob, ReplyVideo
<1>2. PICK j \in JobIds : j = poll[p].job /\ Known(j)
  BY <1>1, HeldEntries
<1>3. PICK status :
        told' = Told(j, status) /\ (status \in Ends => HasReason(j, status))
  <2>1. CASE ReplyJob(p) \/ ReplyVideo(p)
    BY <1>1, <1>2, <2>1, AnswerHasReason DEF ReplyJob, ReplyVideo, Answer
  <2>2. CASE ReplyFromEntry(p)
    BY <1>2, <2>2, ReplyReasons DEF Answer
  <2> QED
    BY <2>1, <2>2 DEF Reply
<1>4. UNCHANGED <<Outcome, Hints, Client>> /\ Client[j] = "knows"
  BY <1>1, <1>2 DEF Outcome, Hints, Client, Known
<1>5. CASE status \in Ends
  BY <1>3, <1>4, <1>5, OutcomeOfEnd DEF Outcomes!Tell, Told
<1>6. CASE status \notin Ends
  BY <1>3, <1>4, <1>6 DEF Told
<1> QED
  BY <1>5, <1>6

\* A restart leaves without the id those who were waiting for a job that exists.
LEMMA OutcomeOfRestart ==
  ASSUME JobsInvariant, Restart
  PROVE  Outcomes!Lose
<1> DEFINE js == {j \in JobIds : stage[j] # "new" /\ ~Known(j) /\ stage[j] # "lost"}
<1>1. js \in SUBSET {j \in JobIds : Client[j] = "waits"}
  BY DEF Client
<1>2. Client' = [j \in JobIds |-> IF j \in js THEN "lost" ELSE Client[j]]
  BY DEF Restart, Client, Known, JobsInvariant, JobsTypeOK
<1>3. UNCHANGED <<Outcome, Hints, told>>
  BY DEF Restart, Outcome, Hints, Known
<1> QED
  BY <1>1, <1>2, <1>3 DEF Outcomes!Lose

LEMMA OutcomeStep ==
  JobsInvariant /\ [JobsNext]_jobVars
    => [Outcomes!OutcomeNext]_<<Outcome, Hints, Client, told>>
<1> SUFFICES ASSUME JobsInvariant, [JobsNext]_jobVars
             PROVE  Outcomes!OutcomeNext \/ UNCHANGED <<Outcome, Hints, Client, told>>
  OBVIOUS
<1>1. ASSUME NEW j \in JobIds,
             \/ CreateUpstream(j) \/ Progress(j) \/ ShowResult(j)
             \/ Record(j) \/ Wait(j) \/ Refresh(j)
      PROVE  Outcomes!OutcomeNext \/ UNCHANGED <<Outcome, Hints, Client, told>>
  BY <1>1, OutcomeOfUpstream, OutcomeOfHandlers DEF Outcomes!OutcomeNext
<1>2. CASE \/ \E a \in Accounts : Withdraw(a)
           \/ \E p \in Polls : \/ \E j \in JobIds, video \in BOOLEAN : Lookup(p, j, video)
                               \/ Ask(p) \/ AskFails(p)
           \/ UNCHANGED jobVars
  <2>1. UNCHANGED <<real, shown, stage, told>>
    BY Zenon, <1>2 DEF Withdraw, Lookup, Ask, AskFails, jobVars
  <2> QED
    BY <2>1 DEF Outcome, Hints, Client, Known
<1>3. ASSUME NEW p \in Polls, Reply(p)
      PROVE  Outcomes!OutcomeNext \/ UNCHANGED <<Outcome, Hints, Client, told>>
  BY <1>3, OutcomeOfReply DEF Outcomes!OutcomeNext
<1>4. CASE Restart
  BY <1>4, OutcomeOfRestart DEF Outcomes!OutcomeNext
<1> QED
  BY <1>1, <1>2, <1>3, <1>4 DEF JobsNext

\* To its client a job is what JobOutcomes says of it: JobGet, videosGet and the
\* handlers of the requests (runGeneration, videosCreate) tell a client that knows its
\* job of the job's own end, or of one that a result or a failed wait speaks for.
THEOREM JobsImplementOutcomes == JobsSpec => ImplementsOutcomes
<1>1. JobsInit => Outcomes!OutcomeInit
  BY MappedStatuses
     DEF JobsInit, Outcomes!OutcomeInit, Outcome, Hints, Client, Known
<1> QED
  BY <1>1, OutcomeStep, JobsInvariantHolds, PTL
     DEF JobsSpec, ImplementsOutcomes, Outcomes!OutcomeSpec, Outcomes!outcomeVars

=============================================================================
