------------------------- MODULE CredentialsProofs -------------------------
(* Proofs about the accounts' tokens, for every set of accounts and of      *)
(* goroutines that renew, probe, import and delete them.                    *)
EXTENDS Credentials, AccountPoolProofs

-----------------------------------------------------------------------------
(* What a renewal gives *)

\* The renewed copy is an account record with the next generation of tokens; a copy
\* that was not renewed is as it was, and only a live refresh token makes Clerk issue.
LEMMA Renewals ==
  ASSUME NEW a \in Account, NEW n \in Nat, now \in Nat, NEW o \in RefreshAccount(a, n)
  PROVE  /\ o.acc \in Account
         /\ o.issued \in {n, n + 1}
         /\ o.res \in {"ok", "refused", "unreachable", "busy"}
         /\ o.res = "ok" => o.issued = n + 1 /\ o.acc.tok = n + 1 /\ o.acc.rt = n + 1
         /\ o.res # "ok" => o.acc = a
         /\ o.issued = n + 1 => a.rt = n /\ n # 0 /\ n < MaxIssued
         /\ o.res = "refused" => o.issued = n /\ ~(a.rt # 0 /\ a.rt = n /\ n < MaxIssued)
<1> DEFINE live == a.rt # 0 /\ a.rt = n /\ n < MaxIssued
           renewed == [a EXCEPT !.tok = n + 1, !.rt = n + 1, !.exp = now + Lifetime,
                                !.err = "none"]
<1>1. renewed \in Account /\ renewed.tok = n + 1 /\ renewed.rt = n + 1
  <2>1. now + Lifetime \in Nat /\ n + 1 \in Nat
    BY CredentialsAssumption
  <2> QED
    BY <2>1 DEF Account, ErrorKinds
<1>2. \/ o = [acc |-> renewed, issued |-> n + 1, res |-> "ok"] /\ live
      \/ o = [acc |-> a, issued |-> n, res |-> "refused"] /\ ~live
      \/ o = [acc |-> a, issued |-> n, res |-> "unreachable"]
      \/ o = [acc |-> a, issued |-> n, res |-> "busy"]
      \/ o = [acc |-> a, issued |-> n + 1, res |-> "unreachable"] /\ live
  BY Zenon DEF RefreshAccount
<1> HIDE DEF renewed
<1> QED
  BY <1>1, <1>2

\* EnsureAuth renews or leaves the copy as it is.
LEMMA Ensurings ==
  ASSUME NEW a \in Account, NEW n \in Nat, now \in Nat, NEW o \in EnsureAuth(a, n)
  PROVE  /\ o.acc \in Account
         /\ o.issued \in {n, n + 1}
         /\ o.res \in {"ok", "unwritten"}
              => o.issued = n + 1 /\ o.acc.tok = n + 1 /\ o.acc.rt = n + 1
         /\ o.res \notin {"ok", "unwritten"} => o.acc = a
         /\ o.issued = n + 1 => a.rt = n /\ n # 0 /\ n < MaxIssued
         /\ o.res = "refused" => o.issued = n /\ ~(a.rt # 0 /\ a.rt = n /\ n < MaxIssued)
         /\ o.res \in {"ok", "unwritten", "unchanged", "refused", "unreachable", "busy"}
<1>1. CASE o = [acc |-> a, issued |-> n, res |-> "unchanged"]
  BY <1>1
<1>2. CASE o \in RefreshAccount(a, n)
  BY <1>2, Renewals
<1>3. CASE \E r \in RefreshAccount(a, n) : r.res = "ok" /\ o = [r EXCEPT !.res = "unwritten"]
  <2>1. PICK r \in RefreshAccount(a, n) : r.res = "ok" /\ o = [r EXCEPT !.res = "unwritten"]
    BY <1>3
  <2>2. r \in [acc : {r.acc}, issued : {r.issued}, res : {r.res}]
    BY DEF RefreshAccount
  <2>3. o.acc = r.acc /\ o.issued = r.issued /\ o.res = "unwritten"
    BY <2>1, <2>2
  <2> QED
    BY <2>1, <2>3, Renewals
<1> QED
  BY <1>1, <1>2, <1>3, Zenon DEF EnsureAuth

-----------------------------------------------------------------------------
(* Where a step leaves a goroutine *)

LEMMA StartingProper ==
  ASSUME NEW pc \in WithCopy, NEW id \in Ids, NEW a \in Account
  PROVE  Proper(Starting(pc, id, a)) /\ Starting(pc, id, a).run = "none"
<1>1. /\ Starting(pc, id, a) \in Goroutine
      /\ Starting(pc, id, a).id = id
      /\ Starting(pc, id, a).acc = a
      /\ Starting(pc, id, a).run = "none"
  BY DEF Starting, Idle, Goroutine
<1> QED
  BY <1>1 DEF Proper, EmptyHanded, WithCopy

LEMMA EmptyHandedProper ==
  ASSUME NEW pc \in EmptyHanded \ {"removeHome"}
  PROVE  /\ Proper(Starting(pc, NoAccount, NoAccount))
         /\ Starting(pc, NoAccount, NoAccount).run = "none"
<1>1. /\ Starting(pc, NoAccount, NoAccount) \in Goroutine
      /\ Starting(pc, NoAccount, NoAccount).pc = pc
      /\ Starting(pc, NoAccount, NoAccount).run = "none"
  BY DEF Starting, Idle, Goroutine, EmptyHanded
<1> QED
  BY <1>1 DEF Proper, EmptyHanded, WithCopy

LEMMA IdleProper == Proper(Idle) /\ Idle.run = "none" /\ Proper(Done) /\ Done.run = "none"
<1>1. /\ Idle \in Goroutine /\ Idle.pc = "idle" /\ Idle.run = "none"
      /\ Done \in Goroutine /\ Done.pc = "done" /\ Done.run = "none"
  BY DEF Idle, Done, Goroutine, EmptyHanded
<1> QED
  BY <1>1 DEF Proper, WithCopy

\* Going on with a copy of the account it works on, a goroutine keeps it in hand.
LEMMA ThenProper ==
  ASSUME NEW c \in Callers, work[c] \in Goroutine, work[c].id \in Ids,
         NEW pc \in EmptyHanded \union WithCopy \union {"return"}, NEW a \in Account
  PROVE  LET t == Then(c, pc, a) IN
         /\ t \in Goroutine
         /\ t.pc \in WithCopy => t.id \in Ids /\ t.acc \in Account
         /\ t.pc = "removeHome" => t.id \in Ids
         /\ t.run \in {"none", work[c].run}
<1> DEFINE ret == work[c].ret
           to == IF pc = "return" THEN ret ELSE pc
           kept == [work[c] EXCEPT !.pc = to, !.acc = a,
                                   !.ret = IF pc = "return" THEN NextReturn(ret) ELSE ret]
<1>1. CASE to \in {"retry", "select", "release", "done"}
  <2>1. Then(c, pc, a) = Starting(to, NoAccount, NoAccount)
    BY <1>1, Zenon DEF Then
  <2>2. to \in EmptyHanded \ {"removeHome"}
    BY <1>1 DEF EmptyHanded
  <2> HIDE DEF to
  <2> QED
    BY <2>1, <2>2, EmptyHandedProper DEF Proper
<1>2. CASE to \notin {"retry", "select", "release", "done"}
  <2>1. Then(c, pc, a) = kept
    BY <1>2, Zenon DEF Then
  <2>2. ret \in {"done", "create", "record", "release"} /\ to \in EmptyHanded \union WithCopy
    BY DEF Goroutine, EmptyHanded, WithCopy
  <2>3. (IF pc = "return" THEN NextReturn(ret) ELSE ret) \in {"done", "create", "record", "release"}
    BY <2>2 DEF NextReturn
  <2>4. kept \in Goroutine /\ kept.id = work[c].id /\ kept.acc = a /\ kept.run = work[c].run
    BY <2>2, <2>3 DEF Goroutine
  <2> QED
    BY <2>1, <2>4
<1> QED
  BY <1>1, <1>2

\* A step of one goroutine, which leaves it in a proper state.
LEMMA StepInvariant ==
  ASSUME CredentialInvariant, PoolInvariant', NEW c \in Callers, NEW w, Proper(w),
         w.run # "none" => call'[c] = NoCall,
         work' = [work EXCEPT ![c] = w],
         \A d \in Callers \ {c} : call[d] = NoCall => call'[d] = NoCall,
         issued' \in [Ids -> Nat],
         sweep' \in [Refreshers -> [Ids -> Account \union {NoAccount}]],
         home' \in [Ids -> CredentialsFile]
  PROVE  CredentialInvariant'
<1>1. work \in [Callers -> Goroutine] /\ \A d \in Callers : Proper(work[d])
  BY DEF CredentialInvariant, CredentialTypeOK
<1>2. w \in Goroutine
  BY DEF Proper
<1>3. CredentialTypeOK'
  BY <1>1, <1>2 DEF CredentialTypeOK, PoolInvariant
<1>4. \A d \in Callers : work'[d] = IF d = c THEN w ELSE work[d]
  BY <1>1
<1>5. ASSUME NEW d \in Callers
      PROVE  Proper(work'[d]) /\ (work'[d].run # "none" => call'[d] = NoCall)
  BY <1>1, <1>4 DEF CredentialInvariant
<1> QED
  BY <1>3, <1>5 DEF CredentialInvariant, Proper

LEMMA PoolStays == PoolInvariant /\ UNCHANGED poolVars => PoolInvariant'
  BY NextInvariant

\* What a goroutine has in hand when it takes a step.
LEMMA InHand ==
  ASSUME CredentialInvariant, NEW c \in Callers
  PROVE  /\ PoolInvariant /\ now \in Nat
         /\ work \in [Callers -> Goroutine] /\ Proper(work[c])
         /\ issued \in [Ids -> Nat]
         /\ sweep \in [Refreshers -> [Ids -> Account \union {NoAccount}]]
         /\ home \in [Ids -> CredentialsFile]
         /\ work[c].pc \in WithCopy => work[c].id \in Ids /\ work[c].acc \in Account
         /\ work[c].run # "none" => work[c].pc \in RunsAt /\ call[c] = NoCall
  BY DEF CredentialInvariant, CredentialTypeOK, PoolInvariant, PoolTypeOK, Proper

LEMMA RunPlaces == RunsAt \subseteq WithCopy /\ \A pc \in RunsAt : pc \notin EmptyHanded
  BY DEF RunsAt, WithCopy, EmptyHanded

\* Moving on, with or without the copy.
LEMMA GotoInvariant ==
  ASSUME CredentialInvariant, PoolInvariant', NEW c \in Callers,
         NEW pc \in EmptyHanded \union WithCopy \union {"return"},
         work[c].pc \in WithCopy \/ pc \in {"retry", "select", "release", "done"},
         work[c].pc \notin RunsAt,
         \A d \in Callers \ {c} : call[d] = NoCall => call'[d] = NoCall,
         Goto(c, pc)
  PROVE  CredentialInvariant'
<1>1. Proper(Then(c, pc, work[c].acc)) /\ Then(c, pc, work[c].acc).run = "none"
  <2>1. CASE work[c].pc \in WithCopy
    <3>1. work[c] \in Goroutine /\ work[c].id \in Ids /\ work[c].acc \in Account
             /\ work[c].run = "none"
      BY <2>1, InHand
    <3> QED
      BY <3>1, ThenProper DEF Proper
  <2>2. CASE pc \in {"retry", "select", "release", "done"}
    <3>1. Then(c, pc, work[c].acc) = Starting(pc, NoAccount, NoAccount)
      BY <2>2 DEF Then
    <3>2. pc \in EmptyHanded \ {"removeHome"}
      BY <2>2 DEF EmptyHanded
    <3> QED
      BY <3>1, <3>2, EmptyHandedProper
  <2> QED
    BY <2>1, <2>2
<1> QED
  BY <1>1, InHand, StepInvariant DEF Goto

\* Moving on with the outcome of a renewal.
LEMMA TakeInvariant ==
  ASSUME CredentialInvariant, NEW c \in Callers,
         NEW pc \in EmptyHanded \union WithCopy \union {"return"},
         work[c].pc \in WithCopy, work[c].pc \notin RunsAt,
         NEW o, o.acc \in Account, o.issued \in Nat, Take(c, o, pc),
         home' \in [Ids -> CredentialsFile]
  PROVE  CredentialInvariant'
<1>1. work[c] \in Goroutine /\ work[c].id \in Ids /\ work[c].run = "none"
  BY InHand DEF Proper
<1>2. Proper(Then(c, pc, o.acc)) /\ Then(c, pc, o.acc).run = "none"
  BY <1>1, ThenProper DEF Proper
<1>3. issued' \in [Ids -> Nat] /\ sweep' = sweep /\ PoolInvariant' /\ call' = call
  BY <1>1, InHand, PoolStays DEF Take, poolVars
<1> QED
  BY <1>2, <1>3, InHand, StepInvariant DEF Take

LEMMA RefusedCopy ==
  ASSUME NEW a \in Account, NEW why
  PROVE  Refused(a, why) \in Account /\ Refused(a, why).rt = a.rt /\ Refused(a, why).tok = a.tok
<1>1. "refresh_failed" \in AuthStatuses
  BY Zenon DEF AuthStatuses
<1>2. (IF why \in {"refused", "busy", "auth"} THEN "auth" ELSE "other") \in ErrorKinds
  BY DEF ErrorKinds
<1> QED
  BY <1>1, <1>2 DEF Refused, Account

-----------------------------------------------------------------------------
(* CLI.run *)

LEMMA WrittenHome ==
  ASSUME NEW c \in Callers, NEW a \in Account
  PROVE  Written(c, a) \in CredentialsFile /\ Broken(c) \in CredentialsFile
  BY DEF Written, Broken, Account, CredentialsFile

LEMMA CauseKinds ==
  ASSUME NEW c, NEW result
  PROVE  Cause(c, result) \in {"none", "foreign", "outage"}
BY Zenon DEF Cause

\* The end of a run leaves the caller with a record and at one of its places.
LEMMA FinishProper ==
  ASSUME CredentialInvariant, NEW c \in Callers, work[c].pc \in RunsAt,
         NEW a \in Account, NEW result \in {"ok", "auth", "other"}, Finish(c, result, a)
  PROVE  \E w : Proper(w) /\ w.run = "none" /\ work' = [work EXCEPT ![c] = w]
<1> DEFINE pc == work[c].pc
<1>1. After(pc, result, a) \in EmptyHanded \union WithCopy \union {"return"}
  BY DEF After, WithCopy
<1>2. PICK b \in Nat :
        work' = [work EXCEPT ![c] =
                    [Then(c, After(pc, result, a), Judged(pc, result, a, b)) EXCEPT
                        !.run = "none", !.cause = Cause(c, result)]]
  <2>1. \A b \in IF pc \in {"importList", "importStatus"} THEN Balances ELSE {a.credits} : b \in Nat
    BY BalancesAssumption DEF Account
  <2> QED
    BY <2>1, Zenon DEF Finish
<1>3. Judged(pc, result, a, b) \in Account
  <2>1. Refused(a, result) \in Account
    BY RefusedCopy
  <2>2. /\ [a EXCEPT !.credits = b] \in Account
        /\ [a EXCEPT !.credits = b, !.err = "none"] \in Account
        /\ result # "ok" => [a EXCEPT !.err = result] \in Account
    BY DEF Account, ErrorKinds
  <2>3. \/ Judged(pc, result, a, b) \in {a, Refused(a, result), [a EXCEPT !.credits = b],
                                          [a EXCEPT !.credits = b, !.err = "none"]}
        \/ result # "ok" /\ Judged(pc, result, a, b) = [a EXCEPT !.err = result]
    <3>1. CASE pc = "probeStatusAgain"
      BY <3>1 DEF Judged
    <3>2. CASE pc = "importList"
      BY <3>2 DEF Judged
    <3>3. CASE pc = "importStatus"
      BY <3>3 DEF Judged
    <3>4. CASE pc \notin {"probeStatusAgain", "importList", "importStatus"}
      BY <3>4 DEF Judged
    <3> QED
      BY <3>1, <3>2, <3>3, <3>4
  <2> QED
    BY <2>1, <2>2, <2>3
<1> DEFINE t == Then(c, After(pc, result, a), Judged(pc, result, a, b))
           f == Cause(c, result)
           w == [t EXCEPT !.run = "none", !.cause = f]
<1>4. work[c] \in Goroutine /\ work[c].id \in Ids
  BY InHand, RunPlaces DEF Proper
<1>5. /\ t \in Goroutine
      /\ t.pc \in WithCopy => t.id \in Ids /\ t.acc \in Account
      /\ t.pc = "removeHome" => t.id \in Ids
  BY <1>1, <1>3, <1>4, ThenProper
<1>6. f \in {"none", "foreign", "outage"}
  BY CauseKinds
<1> HIDE DEF t, f
<1>7. w \in Goroutine /\ w.pc = t.pc /\ w.id = t.id /\ w.acc = t.acc /\ w.run = "none"
  BY <1>5, <1>6 DEF Goroutine
<1>8. Proper(w)
  BY <1>5, <1>7 DEF Proper
<1> QED
  BY <1>2, <1>7, <1>8 DEF t, f

LEMMA AnswerKinds ==
  ASSUME NEW c, NEW result \in Answers(c)
  PROVE  result \in {"ok", "auth", "other"}
  BY DEF Answers

\* Each step of a run leaves the goroutine with a record where it is or goes on.
LEMMA RunInvariant ==
  ASSUME CredentialInvariant, NEW c \in Callers, Run(c)
  PROVE  CredentialInvariant'
<1> DEFINE id == work[c].id
           a == work[c].acc
<1>1. work[c].pc \in RunsAt /\ call[c] = NoCall
  BY InHand DEF Run, PrepareRun, CommandEnds, CommandRetries, RetryEnds
<1>2. work[c] \in Goroutine /\ id \in Ids /\ a \in Account /\ now \in Nat /\ issued[id] \in Nat
  BY <1>1, InHand, RunPlaces DEF Proper
<1>3. PoolInvariant' /\ sweep' = sweep /\ call' = call
  BY InHand, PoolStays DEF Run, PrepareRun, CommandEnds, CommandRetries, RetryEnds, poolVars
<1>4. ASSUME NEW b \in Account, NEW result \in {"ok", "auth", "other"}, Finish(c, result, b),
             issued' \in [Ids -> Nat],
             home' \in [Ids -> CredentialsFile]
      PROVE  CredentialInvariant'
  <2>1. PICK w : Proper(w) /\ w.run = "none" /\ work' = [work EXCEPT ![c] = w]
    BY <1>1, <1>4, FinishProper
  <2> QED
    BY <1>3, <1>4, <2>1, InHand, StepInvariant
<1>5. ASSUME NEW b \in Account, NEW run \in {"first", "again"},
             work' = [work EXCEPT ![c].run = run, ![c].acc = b],
             issued' \in [Ids -> Nat],
             home' \in [Ids -> CredentialsFile]
      PROVE  CredentialInvariant'
  <2> DEFINE w == [work[c] EXCEPT !.run = run, !.acc = b]
  <2>1. w \in Goroutine /\ w.pc = work[c].pc /\ w.id = id /\ w.acc = b
    BY <1>2 DEF Goroutine
  <2>2. Proper(w)
    BY <1>1, <1>2, <2>1, RunPlaces DEF Proper
  <2>3. work' = [work EXCEPT ![c] = w]
    BY <1>2, <1>5, InHand
  <2> HIDE DEF w
  <2> QED
    BY <1>1, <1>3, <1>5, <2>2, <2>3, InHand, StepInvariant
<1>6. CASE PrepareRun(c)
  <2>1. PICK o \in EnsureAuth(a, issued[id]) :
          /\ issued' = [issued EXCEPT ![id] = o.issued]
          /\ \/ /\ home' = [home EXCEPT ![id] = Written(c, o.acc)]
                /\ work' = [work EXCEPT ![c].run = "first", ![c].acc = o.acc]
             \/ /\ home' = [home EXCEPT ![id] = Broken(c)]
                /\ Finish(c, "other", o.acc)
    BY <1>6 DEF PrepareRun
  <2>2. o.acc \in Account /\ o.issued \in Nat
    BY <1>2, Ensurings
  <2>3. issued' \in [Ids -> Nat]
    BY <1>2, <2>1, <2>2, InHand
  <2>4. home' \in [Ids -> CredentialsFile]
    <3>1. home' = [home EXCEPT ![id] = Written(c, o.acc)] \/ home' = [home EXCEPT ![id] = Broken(c)]
      BY <2>1
    <3>2. Written(c, o.acc) \in CredentialsFile /\ Broken(c) \in CredentialsFile
      BY <2>2, WrittenHome
    <3>3. home \in [Ids -> CredentialsFile]
      BY InHand
    <3> QED
      BY <1>2, <3>1, <3>2, <3>3
  <2> QED
    BY <1>4, <1>5, <2>1, <2>2, <2>3, <2>4
<1>7. CASE CommandEnds(c) \/ RetryEnds(c)
  <2>1. PICK result \in Answers(c) : Finish(c, result, a)
    BY <1>7 DEF CommandEnds, RetryEnds
  <2>2. UNCHANGED <<issued, home>>
    BY <1>7 DEF CommandEnds, RetryEnds
  <2> QED
    BY <1>2, <1>4, <2>1, <2>2, InHand, AnswerKinds
<1>8. CASE CommandRetries(c)
  <2>1. PICK o \in RefreshAccount(a, issued[id]) :
          /\ issued' = [issued EXCEPT ![id] = o.issued]
          /\ IF o.res = "ok"
             THEN /\ home' = [home EXCEPT ![id] = Written(c, o.acc)]
                  /\ work' = [work EXCEPT ![c].run = "again", ![c].acc = o.acc]
             ELSE /\ Finish(c, "auth", o.acc)
                  /\ UNCHANGED home
    BY <1>8 DEF CommandRetries
  <2>2. o.acc \in Account /\ o.issued \in Nat
    BY <1>2, Renewals
  <2>3. issued' \in [Ids -> Nat]
    BY <1>2, <2>1, <2>2, InHand
  <2>4. home' \in [Ids -> CredentialsFile]
    <3>1. home' = [home EXCEPT ![id] = Written(c, o.acc)] \/ home' = home
      BY <2>1
    <3>2. Written(c, o.acc) \in CredentialsFile /\ Broken(c) \in CredentialsFile
      BY <2>2, WrittenHome
    <3>3. home \in [Ids -> CredentialsFile]
      BY InHand
    <3> QED
      BY <1>2, <3>1, <3>2, <3>3
  <2> QED
    BY <1>4, <1>5, <2>1, <2>2, <2>3, <2>4
<1> QED
  BY <1>6, <1>7, <1>8 DEF Run

-----------------------------------------------------------------------------
(* The goroutines' steps *)

\* A call to a method of the pool is the caller's own.
LEMMA CallsOfOthers ==
  ASSUME PoolInvariant, NEW c \in Callers, NEW id, NEW op, NEW changed,
         Read(c, op, id, changed) \/ Delete(c, id) \/ Write(c) \/ UNCHANGED poolVars
  PROVE  \A d \in Callers \ {c} : call'[d] = call[d]
  BY DEF PoolInvariant, PoolTypeOK, Read, Delete, Write, poolVars

LEMMA SaveTokensInvariant ==
  ASSUME CredentialInvariant, NEW c \in Callers, NEW from \in WithCopy \ RunsAt,
         NEW to \in EmptyHanded \union WithCopy \union {"return"},
         SaveTokens(c, from, to)
  PROVE  CredentialInvariant'
<1> DEFINE a == work[c].acc
           ts == [tok |-> a.tok, rt |-> a.rt, exp |-> a.exp]
<1>1. work[c].pc = from /\ work[c].id \in Ids /\ a \in Account /\ PoolInvariant
  BY InHand DEF SaveTokens, At
<1>2. ts \in [tok : Nat, rt : Nat, exp : Nat]
  BY <1>1 DEF Account
<1>3. Goto(c, to) /\ (UNCHANGED poolVars \/ UpdateTokens(c, work[c].id, ts))
  BY DEF SaveTokens, IfStored
<1> HIDE DEF ts
<1>4. PoolInvariant'
  BY <1>1, <1>2, <1>3, MethodInvariant, PoolStays
<1>5. \A d \in Callers \ {c} : call'[d] = call[d]
  BY <1>1, <1>3, CallsOfOthers DEF UpdateTokens
<1> QED
  BY <1>1, <1>3, <1>4, <1>5, GotoInvariant

LEMMA SaveCreditsInvariant ==
  ASSUME CredentialInvariant, NEW c \in Callers, NEW from \in WithCopy \ RunsAt,
         NEW to \in EmptyHanded \union WithCopy \union {"return"},
         SaveCredits(c, from, to)
  PROVE  CredentialInvariant'
<1>1. /\ work[c].pc = from /\ work[c].id \in Ids /\ work[c].acc \in Account
      /\ work[c] \in Goroutine /\ work[c].run = "none" /\ PoolInvariant
  BY InHand DEF SaveCredits, At, Proper
<1>2. PICK b \in Nat :
        /\ UNCHANGED poolVars \/ UpdateCredits(c, work[c].id, b)
        /\ work' = [work EXCEPT ![c] = Then(c, to, [work[c].acc EXCEPT !.credits = b])]
        /\ UNCHANGED <<issued, sweep, home>>
  BY BalancesAssumption DEF SaveCredits, IfStored
<1>3. [work[c].acc EXCEPT !.credits = b] \in Account
  BY <1>1 DEF Account
<1>4. PoolInvariant'
  BY <1>1, <1>2, MethodInvariant, PoolStays
<1>5. \A d \in Callers \ {c} : call'[d] = call[d]
  BY <1>1, <1>2, CallsOfOthers DEF UpdateCredits
<1> DEFINE w == Then(c, to, [work[c].acc EXCEPT !.credits = b])
<1>6. Proper(w) /\ w.run = "none"
  BY <1>1, <1>3, ThenProper DEF Proper
<1> HIDE DEF w
<1>7. work' = [work EXCEPT ![c] = w]
  BY <1>2 DEF w
<1> QED
  BY <1>2, <1>4, <1>5, <1>6, <1>7, InHand, StepInvariant

\* EnsureAuth also writes the home.
LEMMA HomeEnsuredType ==
  ASSUME NEW c \in Callers, NEW id \in Ids, NEW o, o.acc \in Account,
         home \in [Ids -> CredentialsFile], HomeEnsured(c, id, o)
  PROVE  home' \in [Ids -> CredentialsFile]
<1>1. Written(c, o.acc) \in CredentialsFile /\ Broken(c) \in CredentialsFile
  BY WrittenHome
<1>2. \/ home' = home
      \/ home' = [home EXCEPT ![id] = Written(c, o.acc)]
      \/ home' = [home EXCEPT ![id] = Broken(c)]
  BY Zenon DEF HomeEnsured
<1> QED
  BY <1>1, <1>2

\* The outcomes of a renewal are records of three fields.
LEMMA OutcomeFields ==
  ASSUME NEW a, NEW n, NEW o \in EnsureAuth(a, n) \union RefreshAccount(a, n)
  PROVE  o \in [acc : {o.acc}, issued : {o.issued}, res : {o.res}]
<1>1. \A r \in RefreshAccount(a, n) : r \in [acc : {r.acc}, issued : {r.issued}, res : {r.res}]
  BY DEF RefreshAccount
<1> QED
  BY <1>1 DEF EnsureAuth

\* A goroutine's step that renews its copy, or tries to, and goes on with it or with
\* what the probe makes of it.
LEMMA RenewalInvariant ==
  ASSUME CredentialInvariant, NEW c \in Callers,
         work[c].pc \in WithCopy, work[c].pc \notin RunsAt,
         NEW o \in EnsureAuth(work[c].acc, issued[work[c].id])
                     \union RefreshAccount(work[c].acc, issued[work[c].id]),
         NEW pc \in EmptyHanded \union WithCopy \union {"return"},
         NEW p, p = o \/ \E why : p = [o EXCEPT !.acc = Refused(o.acc, why)],
         Take(c, p, pc),
         HomeEnsured(c, work[c].id, o) \/ UNCHANGED home
  PROVE  CredentialInvariant'
<1>1. work[c].id \in Ids /\ work[c].acc \in Account /\ now \in Nat /\ issued[work[c].id] \in Nat
         /\ home \in [Ids -> CredentialsFile]
  BY InHand
<1>2. o.acc \in Account /\ o.issued \in Nat
  BY <1>1, Ensurings, Renewals
<1>3. home' \in [Ids -> CredentialsFile]
  BY <1>1, <1>2, HomeEnsuredType
<1>4. p.acc \in Account /\ p.issued \in Nat
  <2>1. ASSUME NEW why PROVE [o EXCEPT !.acc = Refused(o.acc, why)].acc = Refused(o.acc, why)
                          /\ [o EXCEPT !.acc = Refused(o.acc, why)].issued = o.issued
    BY OutcomeFields
  <2>2. CASE p = o
    BY <1>2, <2>2
  <2>3. ASSUME NEW why, p = [o EXCEPT !.acc = Refused(o.acc, why)]
        PROVE  p.acc \in Account /\ p.issued \in Nat
    <3>1. p.acc = Refused(o.acc, why) /\ p.issued = o.issued
      BY Zenon, <2>1, <2>3
    <3> QED
      BY <1>2, <3>1, RefusedCopy
  <2> QED
    BY Zenon, <2>2, <2>3
<1> QED
  BY <1>3, <1>4, TakeInvariant

LEMMA PrepareAccountInvariant ==
  ASSUME CredentialInvariant, NEW c \in Callers, PrepareAccount(c)
  PROVE  CredentialInvariant'
<1>1. CASE Authenticate(c)
  <2>1. "auth" \in WithCopy \ RunsAt /\ "authTokens" \in WithCopy /\ "status" \in WithCopy
    BY DEF WithCopy, RunsAt
  <2>2. PICK o \in EnsureAuth(work[c].acc, issued[work[c].id]) :
          /\ Take(c, o, IF o.res = "ok" THEN "authTokens" ELSE "status")
          /\ HomeEnsured(c, work[c].id, o)
    BY <1>1 DEF Authenticate
  <2> QED
    BY <1>1, <2>1, <2>2, RenewalInvariant DEF Authenticate, At
<1>2. CASE StatusRefresh(c)
  <2>1. "statusRefresh" \in WithCopy \ RunsAt /\ "statusTokens" \in WithCopy
    BY DEF WithCopy, RunsAt
  <2>2. PICK o \in RefreshAccount(work[c].acc, issued[work[c].id]) :
          Take(c, o, IF o.res = "ok" THEN "statusTokens" ELSE "return")
    BY <1>2 DEF StatusRefresh
  <2> QED
    BY <1>2, <2>1, <2>2, RenewalInvariant DEF StatusRefresh, At
<1>3. CASE \/ SaveTokens(c, "authTokens", "status")
           \/ SaveTokens(c, "statusTokens", "statusAgain")
           \/ SaveCredits(c, "credits", "return")
  <2>1. /\ {"authTokens", "statusTokens", "credits"} \subseteq WithCopy \ RunsAt
        /\ {"status", "statusAgain"} \subseteq WithCopy
    BY DEF WithCopy, RunsAt
  <2> QED
    BY <1>3, <2>1, SaveTokensInvariant, SaveCreditsInvariant
<1> QED
  BY <1>1, <1>2, <1>3 DEF PrepareAccount

\* Starting with a copy of an account, or stopping, while the pool is left alone.
LEMMA StartInvariant ==
  ASSUME CredentialInvariant, NEW c \in Callers, NEW w, Proper(w), w.run = "none",
         work' = [work EXCEPT ![c] = w], UNCHANGED poolVars,
         issued' \in [Ids -> Nat],
         sweep' \in [Refreshers -> [Ids -> Account \union {NoAccount}]],
         home' \in [Ids -> CredentialsFile]
  PROVE  CredentialInvariant'
<1>1. PoolInvariant' /\ \A d \in Callers \ {c} : call'[d] = call[d]
  BY InHand, PoolStays DEF poolVars
<1> QED
  BY <1>1, StepInvariant

LEMMA KeeperInvariant ==
  ASSUME CredentialInvariant, NEW c \in Callers, KeeperStep(c)
  PROVE  CredentialInvariant'
<1>1. ASSUME NEW id \in Ids, StartKeeper(c, id) PROVE CredentialInvariant'
  <2>1. disk[id] \in Account /\ "auth" \in WithCopy
    BY <1>1 DEF StartKeeper, CredentialInvariant, CredentialTypeOK, PoolTypeOK, WithCopy
  <2>2. Proper(Starting("auth", id, disk[id])) /\ Starting("auth", id, disk[id]).run = "none"
    BY <2>1, StartingProper
  <2> QED
    BY <1>1, <2>2, InHand, StartInvariant DEF StartKeeper
<1> QED
  BY <1>1, PrepareAccountInvariant, RunInvariant DEF KeeperStep

LEMMA RefresherInvariant ==
  ASSUME CredentialInvariant, NEW c \in Refreshers, RefresherStep(c)
  PROVE  CredentialInvariant'
<1>1. c \in Callers
  BY CredentialsAssumption
<1>2. CASE StartSweep(c)
  <2>1. work[c] \in Goroutine /\ work[c].pc = "idle" /\ work[c].run = "none"
    BY <1>1, <1>2, InHand DEF StartSweep, At, Proper, RunsAt
  <2> DEFINE w == [work[c] EXCEPT !.pc = "sweep"]
  <2>2. w \in Goroutine /\ w.pc = "sweep" /\ w.run = "none"
    BY <2>1 DEF Goroutine, EmptyHanded
  <2>3. Proper(w)
    BY <2>2 DEF Proper, WithCopy
  <2>4. work' = [work EXCEPT ![c] = w]
    BY <1>1, <1>2, InHand DEF StartSweep
  <2>5. sweep' \in [Refreshers -> [Ids -> Account \union {NoAccount}]]
    BY <1>2, InHand, <1>1 DEF StartSweep, CredentialInvariant, CredentialTypeOK, PoolTypeOK
  <2> HIDE DEF w
  <2> QED
    BY <1>1, <1>2, <2>2, <2>3, <2>4, <2>5, InHand, StartInvariant DEF StartSweep
<1>3. ASSUME NEW id \in Ids, SweepAccount(c, id) PROVE CredentialInvariant'
  <2> DEFINE a == sweep[c][id]
  <2>1. a \in Account /\ issued[id] \in Nat /\ now \in Nat /\ home \in [Ids -> CredentialsFile]
           /\ work \in [Callers -> Goroutine] /\ Proper(work[c]) /\ work[c].pc = "sweep"
    BY <1>1, <1>3, InHand DEF SweepAccount, Present, At
  <2>2. sweep' \in [Refreshers -> [Ids -> Account \union {NoAccount}]]
    BY <1>1, <1>3, InHand DEF SweepAccount
  <2>3. UNCHANGED poolVars
    BY <1>3 DEF SweepAccount
  <2>4. CASE a.disabled \/ a.rt = 0
    <3>1. work' = [work EXCEPT ![c] = work[c]] /\ UNCHANGED <<issued, home>>
      BY <1>3, <2>1, <2>4 DEF SweepAccount
    <3>2. work[c].run = "none"
      BY <2>1 DEF Proper, RunsAt
    <3> QED
      BY <1>1, <2>1, <2>2, <2>3, <3>1, <3>2, InHand, StartInvariant
  <2>5. CASE ~(a.disabled \/ a.rt = 0)
    <3>1. PICK o \in EnsureAuth(a, issued[id]) :
            /\ issued' = [issued EXCEPT ![id] = o.issued]
            /\ HomeEnsured(c, id, o)
            /\ work' = [work EXCEPT ![c] = IF o.res = "ok" THEN Starting("sweepTokens", id, o.acc)
                                           ELSE Starting("sweep", NoAccount, NoAccount)]
      BY <1>3, <2>5 DEF SweepAccount
    <3>2. o.acc \in Account /\ o.issued \in Nat
      BY <2>1, Ensurings
    <3>3. home' \in [Ids -> CredentialsFile] /\ issued' \in [Ids -> Nat]
      BY <1>1, <2>1, <3>1, <3>2, InHand, HomeEnsuredType
    <3>4. /\ Proper(Starting("sweepTokens", id, o.acc))
          /\ Starting("sweepTokens", id, o.acc).run = "none"
      BY <3>2, StartingProper DEF WithCopy
    <3>5. /\ Proper(Starting("sweep", NoAccount, NoAccount))
          /\ Starting("sweep", NoAccount, NoAccount).run = "none"
      BY EmptyHandedProper DEF EmptyHanded
    <3> QED
      BY <1>1, <2>2, <2>3, <3>1, <3>3, <3>4, <3>5, StartInvariant
  <2> QED
    BY <2>4, <2>5
<1>4. CASE SaveTokens(c, "sweepTokens", "sweep")
  <2>1. "sweepTokens" \in WithCopy \ RunsAt /\ "sweep" \in EmptyHanded
    BY DEF WithCopy, RunsAt, EmptyHanded
  <2> QED
    BY <1>1, <1>4, <2>1, SaveTokensInvariant
<1>5. CASE EndSweep(c)
  BY <1>1, <1>5, InHand, IdleProper, StartInvariant DEF EndSweep
<1> QED
  BY <1>2, <1>3, <1>4, <1>5 DEF RefresherStep

\* The probe's and the imports' Save writes a whole copy.
LEMMA SaveCopyInvariant ==
  ASSUME CredentialInvariant, NEW c \in Callers, NEW from \in WithCopy \ RunsAt,
         SaveCopy(c, from)
  PROVE  CredentialInvariant'
<1>1. work[c].pc = from /\ work[c].id \in Ids /\ work[c].acc \in Account /\ PoolInvariant
  BY InHand DEF SaveCopy, At
<1>2. PoolInvariant' /\ call' = call
  BY <1>1, FileInvariant DEF SaveCopy, Save
<1>3. "done" \in EmptyHanded
  BY DEF EmptyHanded
<1> QED
  BY <1>1, <1>2, <1>3, GotoInvariant DEF SaveCopy

LEMMA ProberInvariant ==
  ASSUME CredentialInvariant, NEW c \in Callers, ProberStep(c)
  PROVE  CredentialInvariant'
<1>1. ASSUME NEW id \in Ids, StartProbe(c, id) PROVE CredentialInvariant'
  <2>1. disk[id] \in Account /\ "probe" \in WithCopy
    BY <1>1 DEF StartProbe, CredentialInvariant, CredentialTypeOK, PoolTypeOK, WithCopy
  <2>2. Proper(Starting("probe", id, disk[id])) /\ Starting("probe", id, disk[id]).run = "none"
    BY <2>1, StartingProper
  <2> QED
    BY <1>1, <2>2, InHand, StartInvariant DEF StartProbe
<1>2. CASE ProbeAuth(c)
  <2>1. /\ "probe" \in WithCopy \ RunsAt
        /\ {"probeTokens", "probeStatus", "probeSave", "done"} \subseteq EmptyHanded \union WithCopy
    BY DEF WithCopy, RunsAt, EmptyHanded
  <2>2. PICK o \in EnsureAuth(work[c].acc, issued[work[c].id]) :
          /\ \/ \E pc \in {"probeTokens", "probeStatus", "done"} : Take(c, o, pc)
             \/ Take(c, [o EXCEPT !.acc = Refused(o.acc, o.res)], "probeSave")
          /\ HomeEnsured(c, work[c].id, o)
    BY <1>2, Zenon DEF ProbeAuth
  <2> QED
    BY <1>2, <2>1, <2>2, RenewalInvariant DEF ProbeAuth, At
<1>3. CASE ProbeRefresh(c)
  <2>1. /\ "probeRefresh" \in WithCopy \ RunsAt
        /\ {"probeTokensAgain", "probeSave"} \subseteq WithCopy
    BY DEF WithCopy, RunsAt
  <2>2. PICK o \in RefreshAccount(work[c].acc, issued[work[c].id]) :
          \/ Take(c, o, "probeTokensAgain")
          \/ Take(c, [o EXCEPT !.acc = Refused(o.acc, o.res)], "probeSave")
    BY <1>3, Zenon DEF ProbeRefresh
  <2> QED
    BY <1>3, <2>1, <2>2, RenewalInvariant DEF ProbeRefresh, At
<1>4. CASE ProbeValid(c)
  <2>1. work[c].pc = "probeValid" /\ "probeValid" \in WithCopy \ RunsAt /\ "done" \in EmptyHanded
    BY <1>4 DEF ProbeValid, At, WithCopy, RunsAt, EmptyHanded
  <2>2. work[c].id \in Ids /\ work[c].acc.credits \in Nat /\ PoolInvariant
    BY <2>1, InHand DEF Account
  <2>3. UNCHANGED poolVars \/ ProbeSucceeds(c, work[c].id, work[c].acc.credits)
    BY <1>4 DEF ProbeValid, IfStored
  <2>4. PoolInvariant'
    BY <2>2, <2>3, MethodInvariant, PoolStays
  <2>5. \A d \in Callers \ {c} : call'[d] = call[d]
    BY <2>2, <2>3, CallsOfOthers DEF ProbeSucceeds
  <2> QED
    BY <1>4, <2>1, <2>4, <2>5, GotoInvariant DEF ProbeValid
<1>5. CASE \/ SaveTokens(c, "probeTokens", "probeStatus")
           \/ SaveTokens(c, "probeTokensAgain", "probeStatusAgain")
           \/ SaveCopy(c, "probeSave")
           \/ SaveCredits(c, "probeCredits", "probeValid")
  <2>1. /\ {"probeTokens", "probeTokensAgain", "probeSave", "probeCredits"} \subseteq WithCopy \ RunsAt
        /\ {"probeStatus", "probeStatusAgain", "probeValid"} \subseteq WithCopy
    BY DEF WithCopy, RunsAt
  <2> QED
    BY <1>5, <2>1, SaveTokensInvariant, SaveCreditsInvariant, SaveCopyInvariant
<1> QED
  BY <1>1, <1>2, <1>3, <1>4, <1>5, RunInvariant DEF ProberStep

\* What an import starts with is a record with the refresh token that came.
LEMMA ImportedLogins ==
  ASSUME NEW a \in Pasted \union FromUserCLI
  PROVE  a \in Account /\ \E r \in StoredAccounts : a.rt = r.rt
<1>1. "" \in AuthStatuses /\ "valid" \in AuthStatuses
  BY Zenon DEF AuthStatuses
<1>2. ASSUME NEW p \in Pasted PROVE p \in Account /\ \E r \in StoredAccounts : p.rt = r.rt
  <2>1. PICK r \in StoredAccounts :
          p = [r EXCEPT !.credits = 0, !.disabled = FALSE, !.until = 0, !.err = "none",
                        !.auth = "valid"]
    BY DEF Pasted
  <2>2. r \in Account
    BY StoredAssumption
  <2> QED
    BY <1>1, <2>1, <2>2 DEF Account, ErrorKinds
<1>3. CASE a \in FromUserCLI
  <2> DEFINE empty == ""
  <2>1. PICK p \in Pasted : a = [p EXCEPT !.auth = empty]
    BY <1>3, Zenon DEF FromUserCLI
  <2>2. empty \in AuthStatuses
    BY <1>1
  <2> HIDE DEF empty
  <2>3. a \in Account /\ a.rt = p.rt
    BY <1>2, <2>1, <2>2 DEF Account
  <2> QED
    BY <1>2, <2>3
<1> QED
  BY <1>2, <1>3

LEMMA ImporterInvariant ==
  ASSUME CredentialInvariant, NEW c \in Callers, ImporterStep(c)
  PROVE  CredentialInvariant'
<1>0. {"import", "importList", "importStatus", "importSelect"} \subseteq WithCopy
  BY DEF WithCopy
<1>1. ASSUME NEW id \in Ids, StartImport(c, id) PROVE CredentialInvariant'
  <2>1. PICK a \in Pasted : work' = [work EXCEPT ![c] = Starting("import", id, a)]
    BY <1>1 DEF StartImport
  <2>2. Proper(Starting("import", id, a)) /\ Starting("import", id, a).run = "none"
    BY <1>0, ImportedLogins, StartingProper
  <2> QED
    BY <1>1, <2>1, <2>2, InHand, StartInvariant DEF StartImport
<1>2. ASSUME NEW id \in Ids, StartImportCLI(c, id) PROVE CredentialInvariant'
  <2>1. PICK a \in FromUserCLI, pc \in {"importList", "importStatus"} :
          /\ work' = [work EXCEPT ![c] = Starting(pc, id, a)]
          /\ CopyCLIHome(c, id, a)
    BY <1>2 DEF StartImportCLI
  <2>2. a \in Account
    BY ImportedLogins
  <2>3. Proper(Starting(pc, id, a)) /\ Starting(pc, id, a).run = "none"
    BY <1>0, <2>2, StartingProper
  <2>4. home' \in [Ids -> CredentialsFile]
    <3>1. Written(c, a) \in CredentialsFile /\ home \in [Ids -> CredentialsFile]
      BY <2>2, InHand, WrittenHome
    <3> QED
      BY <2>1, <3>1 DEF CopyCLIHome
  <2> QED
    BY <1>2, <2>1, <2>3, <2>4, InHand, StartInvariant DEF StartImportCLI
<1>3. CASE ImportAuth(c)
  <2>1. "import" \notin RunsAt
    BY DEF RunsAt
  <2>2. PICK o \in EnsureAuth(work[c].acc, issued[work[c].id]), pc \in {"importList", "importSelect"} :
          Take(c, o, pc) /\ HomeEnsured(c, work[c].id, o)
    BY <1>3 DEF ImportAuth
  <2> QED
    BY <1>0, <1>3, <2>1, <2>2, RenewalInvariant DEF ImportAuth, At
<1>4. CASE SaveCopy(c, "importSave")
  <2>1. "importSave" \in WithCopy \ RunsAt
    BY DEF WithCopy, RunsAt
  <2> QED
    BY <1>4, <2>1, SaveCopyInvariant
<1> QED
  BY <1>1, <1>2, <1>3, <1>4, RunInvariant DEF ImporterStep

LEMMA ConsoleInvariant ==
  ASSUME CredentialInvariant, NEW c \in Callers, ConsoleStep(c)
  PROVE  CredentialInvariant'
<1>1. CASE Switch(c)
  <2>1. work[c].pc = "idle" /\ "idle" \notin RunsAt /\ PoolInvariant /\ "done" \in EmptyHanded
    BY <1>1, InHand DEF Switch, At, RunsAt, EmptyHanded
  <2>2. PICK id \in Ids : Delete(c, id) \/ \E d \in BOOLEAN : SetDisabled(c, id, d)
    BY <1>1 DEF Switch
  <2>3. PoolInvariant'
    BY <2>1, <2>2, DeleteInvariant, MethodInvariant
  <2>4. \A d \in Callers \ {c} : call'[d] = call[d]
    BY <2>1, <2>2, CallsOfOthers DEF SetDisabled
  <2> QED
    BY <1>1, <2>1, <2>3, <2>4, GotoInvariant DEF Switch
<1>2. CASE DeleteAccount(c)
  <2>1. Write(c) /\ call[c] \in PendingWrite /\ UNCHANGED <<issued, sweep, home>>
    BY <1>2, InHand DEF DeleteAccount, PoolInvariant, PoolTypeOK
  <2>2. PoolInvariant' /\ call'[c] = NoCall /\ \A d \in Callers \ {c} : call'[d] = call[d]
    BY <2>1, InHand, FileInvariant, CallsOfOthers DEF Write, PoolInvariant, PoolTypeOK
  <2> DEFINE w == [Idle EXCEPT !.pc = "removeHome", !.id = call[c].id, !.acc = NoAccount]
  <2>3. Proper(w) /\ w.run = "none"
    <3>1. call[c].id \in Ids
      BY <2>1 DEF PendingWrite
    <3>2. w \in Goroutine /\ w.pc = "removeHome" /\ w.id \in Ids /\ w.run = "none"
      BY <3>1 DEF Idle, Goroutine, EmptyHanded
    <3> QED
      BY <3>2 DEF Proper, WithCopy
  <2>4. work' = work \/ work' = [work EXCEPT ![c] = w]
    BY <1>2 DEF DeleteAccount, Starting
  <2>5. CASE work' = work
    <3>1. work' = [work EXCEPT ![c] = work[c]] /\ Proper(work[c])
      BY <2>5, InHand
    <3> QED
      BY <2>1, <2>2, <3>1, InHand, StepInvariant
  <2>6. CASE work' = [work EXCEPT ![c] = w]
    BY <2>1, <2>2, <2>3, <2>6, InHand, StepInvariant
  <2> QED
    BY <2>4, <2>5, <2>6
<1>3. CASE RemoveHome(c)
  <2>1. work[c].id \in Ids /\ home \in [Ids -> CredentialsFile]
    BY <1>3, InHand DEF RemoveHome, At, Proper
  <2>2. Broken(c) \in CredentialsFile
    BY DEF Broken, CredentialsFile
  <2>3. home' \in [Ids -> CredentialsFile]
    BY <1>3, <2>1, <2>2 DEF RemoveHome
  <2> QED
    BY <1>3, <2>3, InHand, IdleProper, StartInvariant DEF RemoveHome
<1> QED
  BY <1>1, <1>2, <1>3 DEF ConsoleStep

\* Writes, and the clock, leave the goroutines where they are.
LEMMA PoolStepInvariant ==
  ASSUME CredentialInvariant, PoolInvariant', UNCHANGED credentialVars,
         \A c \in Callers : call[c] = NoCall => call'[c] = NoCall
  PROVE  CredentialInvariant'
<1>1. CredentialTypeOK'
  BY DEF CredentialInvariant, CredentialTypeOK, PoolInvariant, credentialVars
<1>2. ASSUME NEW c \in Callers
      PROVE  Proper(work'[c]) /\ (work'[c].run # "none" => call'[c] = NoCall)
  BY DEF CredentialInvariant, credentialVars
<1> QED
  BY <1>1, <1>2 DEF CredentialInvariant, Proper

LEMMA RestartServerInvariant ==
  ASSUME CredentialInvariant, RestartServer
  PROVE  CredentialInvariant'
<1>1. PoolInvariant' /\ call' = [c \in Callers |-> NoCall]
  BY InHand, RestartInvariant DEF RestartServer, Restart, CredentialInvariant
<1>2. \A c \in Callers : work'[c] \in {Idle, Done}
  BY DEF RestartServer
<1>3. Idle \in Goroutine /\ Done \in Goroutine
  BY IdleProper DEF Proper
<1>4. work' \in [Callers -> Goroutine]
  BY <1>3 DEF RestartServer
<1>5. Broken(NoAccount) \in CredentialsFile
  BY DEF Broken, CredentialsFile
<1>6. home' \in [Ids -> CredentialsFile]
  BY <1>5 DEF RestartServer, CredentialInvariant, CredentialTypeOK
<1>7. CredentialTypeOK'
  BY <1>1, <1>4, <1>6 DEF RestartServer, CredentialInvariant, CredentialTypeOK, PoolInvariant
<1>8. ASSUME NEW c \in Callers
      PROVE  Proper(work'[c]) /\ (work'[c].run # "none" => call'[c] = NoCall)
  BY <1>1, <1>2, IdleProper
<1> QED
  BY <1>1, <1>7, <1>8 DEF CredentialInvariant, Proper

LEMMA CredentialNextInvariant ==
  CredentialInvariant /\ [CredentialNext]_<<poolVars, credentialVars>> => CredentialInvariant'
<1> SUFFICES ASSUME CredentialInvariant, [CredentialNext]_<<poolVars, credentialVars>>
             PROVE  CredentialInvariant'
  OBVIOUS
<1>1. Keepers \union Probers \union Importers \union Consoles \subseteq Callers
  BY CredentialsAssumption
<1>2. CASE PoolStep
  <2>1. PoolInvariant' /\ \A c \in Callers : call[c] = NoCall => call'[c] = NoCall
    BY <1>2, InHand, FileInvariant
       DEF PoolStep, Write, Tick, CredentialInvariant, PoolInvariant, PoolTypeOK
  <2> QED
    BY <1>2, <2>1, PoolStepInvariant DEF PoolStep
<1>3. CASE UNCHANGED <<poolVars, credentialVars>>
  BY <1>3, InHand, PoolStays, PoolStepInvariant DEF poolVars, CredentialInvariant
<1> QED
  BY <1>1, <1>2, <1>3, RefresherInvariant, KeeperInvariant, ProberInvariant, ImporterInvariant,
     ConsoleInvariant, RestartServerInvariant DEF CredentialNext

LEMMA CredentialInitInvariant == CredentialInit => CredentialInvariant
<1> SUFFICES ASSUME CredentialInit PROVE CredentialInvariant
  OBVIOUS
<1>1. PoolInvariant
  BY InitInvariant DEF CredentialInit
<1>2. Broken(NoAccount) \in CredentialsFile /\ Idle \in Goroutine
  BY IdleProper DEF Broken, CredentialsFile, Proper
<1>3. CredentialTypeOK
  BY <1>1, <1>2 DEF CredentialInit, CredentialTypeOK, PoolInvariant
<1> QED
  BY <1>1, <1>3, IdleProper DEF CredentialInvariant, CredentialInit

\* Whoever renews, probes, imports, switches or deletes accounts, and whatever fails: the
\* pool's slots stay accounted for, and every goroutine works on an account record of
\* its own.
THEOREM CredentialInvariantHolds == CredentialSpec => []CredentialInvariant
  BY CredentialInitInvariant, CredentialNextInvariant, PTL DEF CredentialSpec

-----------------------------------------------------------------------------
(* Who owns the newest tokens *)

\* Generation 1 stands for the tokens that are on file, or come with an import, before
\* the server has renewed any: nothing newer is known at the start.
FreshLogins == \A a \in StoredAccounts : a.rt <= 1

\* The refresh tokens that goroutine c can come to hold in a step: those it has, those
\* on disk, those of an import, and one that Clerk issues to it in this step.
Knows(c, id, n) ==
  \/ n \in {0, 1}
  \/ \E a \in Copies(c, id) : a.rt = n
  \/ disk[id] # NoAccount /\ disk[id].rt = n

Learns(c, id, n) == Knows(c, id, n) \/ (n = issued'[id] /\ issued'[id] = issued[id] + 1)

\* Clerk issues tokens only to who has the newest ones.
Issues(c, id) ==
  \/ issued'[id] = issued[id]
  \/ /\ issued'[id] = issued[id] + 1 /\ issued[id] < MaxIssued
     /\ \E a \in Copies(c, id) : a.rt = issued[id]

Alone(c) ==
  \A d \in Callers \ {c} :
    work'[d] = work[d] /\ call'[d] = call[d] /\ (d \in Refreshers => sweep'[d] = sweep[d])

LEMMA CopyTypes ==
  ASSUME CredentialInvariant, NEW d \in Callers, NEW id \in Ids
  PROVE  /\ \A a \in Copies(d, id) : a \in Account /\ a.rt \in Nat
         /\ disk[id] # NoAccount => disk[id] \in Account /\ disk[id].rt \in Nat
<1>1. work[d].acc \in Account \union {NoAccount}
  BY InHand DEF Goroutine
<1>2. call[d] # NoCall => call[d].write \in Account \union {NoAccount}
  BY DEF CredentialInvariant, CredentialTypeOK, PoolTypeOK, PendingWrite
<1>3. d \in Refreshers => sweep[d][id] \in Account \union {NoAccount}
  BY InHand
<1>4. disk[id] \in Account \union {NoAccount}
  BY DEF CredentialInvariant, CredentialTypeOK, PoolTypeOK
<1>5. \A a \in Account : a.rt \in Nat
  BY DEF Account
<1>6. \A a \in Copies(d, id) : a \in Account
  BY <1>1, <1>2, <1>3 DEF Copies
<1> QED
  BY <1>4, <1>5, <1>6

LEMMA CopiesOfOthers ==
  ASSUME NEW c, Alone(c), NEW d \in Callers \ {c}, NEW id
  PROVE  Copies(d, id)' = Copies(d, id)
  BY DEF Alone, Copies

LEMMA TokensStep ==
  ASSUME CredentialInvariant, CredentialInvariant', TokensAreOwned, NEW c \in Callers,
         Alone(c),
         \A id \in Ids : Issues(c, id),
         \A id \in Ids : disk'[id] # NoAccount => Knows(c, id, disk'[id].rt),
         \A id \in Ids : \A a \in Copies(c, id)' : Learns(c, id, a.rt),
         RenewedInHand(c)', RenewedInCall(c)'
  PROVE  TokensAreOwned'
<1>1. ASSUME NEW id \in Ids
      PROVE  issued[id] \in 1 .. MaxIssued /\ issued'[id] \in 1 .. MaxIssued /\ issued[id] <= issued'[id]
               /\ issued[id] \in Nat /\ issued'[id] \in Nat
  BY CredentialsAssumption DEF TokensAreOwned, TokensAreIssued, Issues
<1>2. ASSUME NEW id \in Ids, NEW n, Knows(c, id, n) PROVE n \in Nat /\ n <= issued[id]
  <2>1. CASE n \in {0, 1}
    BY <1>1, <2>1
  <2>2. CASE \E a \in Copies(c, id) : a.rt = n
    BY <2>2, CopyTypes DEF TokensAreOwned, TokensAreIssued
  <2>3. CASE disk[id] # NoAccount /\ disk[id].rt = n
    BY <2>3, CopyTypes DEF TokensAreOwned, TokensAreIssued
  <2> QED
    BY <1>2, <2>1, <2>2, <2>3 DEF Knows
<1>3. ASSUME NEW id \in Ids, NEW n, Learns(c, id, n) PROVE n \in Nat /\ n <= issued'[id]
  BY <1>1, <1>2, <1>3 DEF Learns
<1>4. TokensAreIssued'
  <2>1. ASSUME NEW id \in Ids, disk'[id] # NoAccount PROVE disk'[id].rt <= issued'[id]
    BY <1>3, <2>1 DEF Learns
  <2>2. ASSUME NEW id \in Ids, NEW d \in Callers, NEW a \in Copies(d, id)'
        PROVE  a.rt <= issued'[id]
    <3>1. CASE d = c
      BY <1>3, <2>2, <3>1
    <3>2. CASE d # c
      <4>1. a \in Copies(d, id)
        BY <2>2, <3>2, CopiesOfOthers
      <4>2. a.rt \in Nat /\ a.rt <= issued[id]
        BY <4>1, CopyTypes DEF TokensAreOwned, TokensAreIssued
      <4> QED
        BY <1>1, <4>2
    <3> QED
      BY <3>1, <3>2
  <2> QED
    BY <1>1, <2>1, <2>2 DEF TokensAreIssued
<1>5. ASSUME NEW d \in Callers \ {c}, NEW id \in Ids, NEW n \in Nat, n > 1, n <= issued[id],
             NewerThanOthers(d, id, n)
      PROVE  NewerThanOthers(d, id, n)' /\ issued'[id] = issued[id]
  <2>1. ASSUME NEW m, Knows(c, id, m) PROVE m \in Nat /\ m < n
    <3>1. CASE m \in {0, 1}
      BY <1>5, <3>1
    <3>2. CASE \E a \in Copies(c, id) : a.rt = m
      BY <1>5, <3>2, CopyTypes DEF NewerThanOthers
    <3>3. CASE disk[id] # NoAccount /\ disk[id].rt = m
      BY <1>5, <3>3, CopyTypes DEF NewerThanOthers
    <3> QED
      BY <2>1, <3>1, <3>2, <3>3 DEF Knows
  <2>2. issued'[id] = issued[id]
    <3>1. ASSUME NEW a \in Copies(c, id), a.rt = issued[id] PROVE FALSE
      <4>1. Knows(c, id, issued[id])
        BY <3>1 DEF Knows
      <4> QED
        BY <1>1, <1>5, <2>1, <4>1
    <3> QED
      BY <3>1 DEF Issues
  <2>3. ASSUME NEW m, Learns(c, id, m) PROVE m < n
    BY <1>1, <2>1, <2>2, <2>3 DEF Learns
  <2>4. disk'[id] # NoAccount => disk'[id].rt < n
    BY <2>1
  <2>5. ASSUME NEW e \in Callers \ {d}, NEW a \in Copies(e, id)' PROVE a.rt < n
    <3>1. CASE e = c
      BY <2>3, <2>5, <3>1
    <3>2. CASE e # c
      BY <1>5, <2>5, <3>2, CopiesOfOthers DEF NewerThanOthers
    <3> QED
      BY <3>1, <3>2
  <2> QED
    BY <2>2, <2>4, <2>5 DEF NewerThanOthers
<1>6. ASSUME NEW d \in Callers \ {c} PROVE RenewedInHand(d)'
  <2>1. work'[d] = work[d] /\ call'[d] = call[d] /\ RenewedInHand(d)
    BY <1>6 DEF Alone, TokensAreOwned
  <2>2. SavesAt \subseteq WithCopy /\ ImportsAt \subseteq WithCopy
    BY DEF SavesAt, ImportsAt, WithCopy
  <2>3. CASE work[d].pc \in SavesAt \union ImportsAt
    <3>1. PICK id \in Ids, n \in Nat :
            id = work[d].id /\ n = work[d].acc.rt /\ work[d].acc \in Copies(d, id)
      BY <2>2, <2>3, InHand, NoneAssumption DEF Account, Copies
    <3>2. n <= issued[id]
      BY <3>1 DEF TokensAreOwned, TokensAreIssued
    <3>3. (n > 1 /\ NewerThanOthers(d, id, n))
             => (NewerThanOthers(d, id, n)' /\ issued'[id] = issued[id])
      BY <1>5, <3>1, <3>2
    <3> QED
      BY <2>1, <3>1, <3>3 DEF RenewedInHand
  <2> QED
    BY <2>1, <2>3 DEF RenewedInHand
<1>7. ASSUME NEW d \in Callers \ {c} PROVE RenewedInCall(d)'
  <2>1. call'[d] = call[d] /\ RenewedInCall(d)
    BY <1>7 DEF Alone, TokensAreOwned
  <2>2. CASE call[d] # NoCall /\ call[d].op = "UpdateTokens" /\ call[d].write.rt > 1
    <3>1. PICK id \in Ids : id = call[d].id
      BY <2>2 DEF CredentialInvariant, CredentialTypeOK, PoolTypeOK, PendingWrite
    <3>2. PICK n : n = call[d].write.rt
      OBVIOUS
    <3>3. n > 1 /\ n = issued[id] /\ NewerThanOthers(d, id, n)
      BY <2>1, <2>2, <3>1, <3>2 DEF RenewedInCall
    <3>4. NewerThanOthers(d, id, n)' /\ issued'[id] = issued[id]
      BY <1>1, <1>5, <3>3
    <3> QED
      BY <2>1, <3>1, <3>2, <3>3, <3>4 DEF RenewedInCall
  <2> QED
    BY <2>1, <2>2 DEF RenewedInCall
<1> QED
  BY <1>4, <1>6, <1>7 DEF TokensAreOwned

LEMMA NewerStays ==
  ASSUME NEW c \in Callers, Alone(c), disk' = disk, NEW id \in Ids, NEW n, NewerThanOthers(c, id, n)
  PROVE  NewerThanOthers(c, id, n)'
  BY CopiesOfOthers DEF NewerThanOthers

LEMMA NewerByRenewal ==
  ASSUME CredentialInvariant, TokensAreIssued, NEW c \in Callers, NEW id \in Ids
  PROVE  NewerThanOthers(c, id, issued[id] + 1) /\ issued[id] \in Nat /\ issued[id] + 1 > 1
<1>1. issued[id] \in Nat /\ issued[id] + 1 > 1
  BY CredentialsAssumption DEF TokensAreIssued
<1>2. \A m \in Nat : m <= issued[id] => m < issued[id] + 1
  BY <1>1
<1> QED
  BY <1>1, <1>2, CopyTypes DEF NewerThanOthers, TokensAreIssued

\* Where Then leads, and with which copy.
LEMMA ThenCopy ==
  ASSUME NEW c \in Callers, work[c] \in Goroutine, NEW pc, NEW a
  PROVE  LET t == Then(c, pc, a) IN
         /\ \/ /\ t.id = NoAccount /\ t.acc = NoAccount
               /\ t.pc \in {"retry", "select", "release", "done"}
            \/ t.id = work[c].id /\ t.acc = a /\ t.pc = pc
            \/ t.id = work[c].id /\ t.acc = a /\ t.pc \in {"create", "record"}
         /\ t.run \in {"none", work[c].run}
         /\ t.pc \notin {"retry", "select", "release", "done"} => t.cause = work[c].cause
<1> DEFINE ret == work[c].ret
           to == IF pc = "return" THEN ret ELSE pc
           kept == [work[c] EXCEPT !.pc = to, !.acc = a,
                                   !.ret = IF pc = "return" THEN NextReturn(ret) ELSE ret]
<1>1. CASE to \in {"retry", "select", "release", "done"}
  <2>1. Then(c, pc, a) = Starting(to, NoAccount, NoAccount)
    BY <1>1, Zenon DEF Then
  <2> QED
    BY <1>1, <2>1 DEF Starting, Idle
<1>2. CASE to \notin {"retry", "select", "release", "done"}
  <2>1. Then(c, pc, a) = kept
    BY <1>2, Zenon DEF Then
  <2>2. kept.id = work[c].id /\ kept.acc = a /\ kept.pc = to /\ kept.run = work[c].run
           /\ kept.cause = work[c].cause
    BY DEF Goroutine
  <2>3. to = pc \/ to \in {"create", "record"}
    BY <1>2 DEF Goroutine
  <2> QED
    BY <2>1, <2>2, <2>3
<1> QED
  BY <1>1, <1>2

\* A step by goroutine c in which Clerk may renew the copy it has in hand.
Renewing(c) ==
  LET id == work[c].id  n == issued[id] IN
  /\ Alone(c) /\ UNCHANGED <<disk, call, sweep>>
  /\ work'[c].id \in {id, NoAccount}
  /\ \/ /\ issued' = issued
        /\ work'[c].acc # NoAccount => work'[c].acc.rt = work[c].acc.rt
     \/ /\ issued' = [issued EXCEPT ![id] = n + 1] /\ n < MaxIssued /\ work[c].acc.rt = n
        /\ work'[c].acc # NoAccount => work'[c].acc.rt \in {n, n + 1}
  /\ work'[c].pc \in SavesAt => issued'[id] = n + 1 /\ work'[c].acc.rt = n + 1
  /\ work'[c].pc \in ImportsAt => work[c].pc \in ImportsAt

LEMMA RenewingTokens ==
  ASSUME CredentialInvariant, CredentialInvariant', TokensAreOwned, NEW c \in Callers,
         call[c] = NoCall, work[c].pc \in WithCopy, Renewing(c)
  PROVE  TokensAreOwned'
<1>1. PICK id \in Ids : id = work[c].id
  BY InHand
<1>2. PICK n \in Nat : n = issued[id]
  BY InHand
<1>3. /\ Alone(c) /\ UNCHANGED <<disk, call, sweep>>
      /\ work'[c].id \in {id, NoAccount}
      /\ \/ /\ issued' = issued
            /\ work'[c].acc # NoAccount => work'[c].acc.rt = work[c].acc.rt
         \/ /\ issued' = [issued EXCEPT ![id] = n + 1] /\ n < MaxIssued /\ work[c].acc.rt = n
            /\ work'[c].acc # NoAccount => work'[c].acc.rt \in {n, n + 1}
      /\ work'[c].pc \in SavesAt => issued'[id] = n + 1 /\ work'[c].acc.rt = n + 1
      /\ work'[c].pc \in ImportsAt => work[c].pc \in ImportsAt
  BY <1>1, <1>2 DEF Renewing
<1>4. work[c].acc \in Account /\ work[c].acc \in Copies(c, id)
  BY <1>1, InHand, NoneAssumption DEF Copies
<1>5. \A k \in Ids : Issues(c, k)
  <2>1. CASE issued' = issued
    BY <2>1 DEF Issues
  <2>2. CASE issued' = [issued EXCEPT ![id] = n + 1] /\ n < MaxIssued /\ work[c].acc.rt = n
    <3>1. \A k \in Ids : issued'[k] = IF k = id THEN n + 1 ELSE issued[k]
      BY <2>2, InHand
    <3> QED
      BY <1>2, <1>4, <2>2, <3>1 DEF Issues
  <2> QED
    BY <1>3, <2>1, <2>2
<1>6. \A k \in Ids : disk'[k] # NoAccount => Knows(c, k, disk'[k].rt)
  BY <1>3 DEF Knows
<1>7. ASSUME NEW k \in Ids, NEW a \in Copies(c, k)' PROVE Learns(c, k, a.rt)
  <2>1. CASE a \in Copies(c, k)
    BY <2>1 DEF Learns, Knows
  <2>2. CASE a \notin Copies(c, k)
    <3>1. work'[c].id = k /\ a = work'[c].acc /\ a # NoAccount
      BY <1>3, <1>7, <2>2 DEF Copies
    <3>2. k = id
      BY <1>3, <3>1, NoneAssumption
    <3>3. CASE a.rt = work[c].acc.rt
      BY <1>4, <3>2, <3>3 DEF Learns, Knows
    <3>4. CASE issued'[id] = n + 1 /\ a.rt = n + 1
      BY <1>2, <3>2, <3>4 DEF Learns
    <3>5. issued' = [issued EXCEPT ![id] = n + 1] => issued'[id] = n + 1
      BY InHand
    <3> QED
      BY <1>3, <3>1, <3>3, <3>4, <3>5
  <2> QED
    BY <2>1, <2>2
<1>8. RenewedInCall(c)'
  BY <1>3 DEF RenewedInCall
<1>9. RenewedInHand(c)'
  <2>1. NewerThanOthers(c, id, n + 1) /\ n + 1 > 1
    BY <1>2, NewerByRenewal DEF TokensAreOwned
  <2>2. NewerThanOthers(c, id, n + 1)'
    BY <1>3, <2>1, NewerStays
  <2>3. CASE work'[c].pc \in SavesAt
    <3>1. work'[c].id = id
      BY <1>3, <2>3, NoneAssumption DEF CredentialInvariant, Proper, SavesAt, WithCopy
    <3>2. work'[c].pc \notin ImportsAt
      BY <2>3 DEF SavesAt, ImportsAt
    <3> QED
      BY <1>3, <2>1, <2>2, <2>3, <3>1, <3>2 DEF RenewedInHand
  <2>4. CASE work'[c].pc \in ImportsAt
    <3>1. work'[c].id = id /\ work'[c].acc # NoAccount
      BY <1>3, <2>4, NoneAssumption DEF CredentialInvariant, Proper, ImportsAt, WithCopy
    <3>2. work'[c].pc \notin SavesAt
      BY <2>4 DEF SavesAt, ImportsAt
    <3>3. PICK m \in Nat : m = work[c].acc.rt
      BY <1>4 DEF Account
    <3>4. m > 1 => NewerThanOthers(c, id, m)
      BY <1>1, <1>3, <2>4, <3>3 DEF TokensAreOwned, RenewedInHand
    <3>5. m > 1 => NewerThanOthers(c, id, m)'
      BY <1>3, <3>4, NewerStays
    <3>6. work'[c].acc.rt \in {m, n + 1}
      BY <1>3, <3>1, <3>3
    <3> QED
      BY <1>3, <2>2, <3>1, <3>2, <3>5, <3>6 DEF RenewedInHand
  <2> QED
    BY <2>3, <2>4 DEF RenewedInHand
<1> QED
  BY <1>3, <1>5, <1>6, <1>7, <1>8, <1>9, TokensStep

\* The goroutine goes on with what Clerk gave it.
LEMMA TakeRenews ==
  ASSUME CredentialInvariant, NEW c \in Callers,
         work[c].pc \in WithCopy,
         NEW o \in EnsureAuth(work[c].acc, issued[work[c].id])
                     \union RefreshAccount(work[c].acc, issued[work[c].id]),
         NEW pc, pc \in SavesAt => o.res = "ok",
         pc \in ImportsAt => work[c].pc \in ImportsAt,
         NEW p, p = o \/ \E why : p = [o EXCEPT !.acc = Refused(o.acc, why)],
         Take(c, p, pc)
  PROVE  Renewing(c)
<1>1. PICK id \in Ids, n \in Nat : id = work[c].id /\ n = issued[id]
  BY InHand
<1>2. work[c].acc \in Account /\ now \in Nat /\ work[c] \in Goroutine
         /\ work \in [Callers -> Goroutine] /\ issued \in [Ids -> Nat]
  BY InHand
<1>3. /\ o.acc \in Account
      /\ o.issued \in {n, n + 1}
      /\ o.res = "ok" => o.issued = n + 1 /\ o.acc.rt = n + 1
      /\ o.acc = work[c].acc \/ (o.issued = n + 1 /\ o.acc.rt = n + 1)
      /\ o.issued = n + 1 => work[c].acc.rt = n /\ n < MaxIssued
  BY <1>1, <1>2, Ensurings, Renewals
<1>4. p.issued = o.issued /\ p.acc.rt = o.acc.rt
  <2>1. ASSUME NEW why PROVE [o EXCEPT !.acc = Refused(o.acc, why)].acc = Refused(o.acc, why)
                          /\ [o EXCEPT !.acc = Refused(o.acc, why)].issued = o.issued
    BY OutcomeFields
  <2>2. ASSUME NEW why, p = [o EXCEPT !.acc = Refused(o.acc, why)]
        PROVE  p.issued = o.issued /\ p.acc.rt = o.acc.rt
    <3>1. p.acc = Refused(o.acc, why) /\ p.issued = o.issued
      BY <2>1, <2>2
    <3>2. Refused(o.acc, why).rt = o.acc.rt
      BY <1>3, RefusedCopy
    <3> QED
      BY <3>1, <3>2
  <2> QED
    BY <2>2
<1> DEFINE t == Then(c, pc, p.acc)
<1>5. /\ issued' = [issued EXCEPT ![id] = p.issued]
      /\ work' = [work EXCEPT ![c] = t]
      /\ UNCHANGED <<disk, call, sweep>>
  BY <1>1 DEF Take, poolVars
<1>6. \/ /\ t.id = NoAccount /\ t.acc = NoAccount
         /\ t.pc \in {"retry", "select", "release", "done"}
      \/ t.id = id /\ t.acc = p.acc /\ t.pc = pc
      \/ t.id = id /\ t.acc = p.acc /\ t.pc \in {"create", "record"}
  BY <1>1, <1>2, ThenCopy
<1> HIDE DEF t
<1>7. work'[c] = t /\ Alone(c)
  BY <1>2, <1>5 DEF Alone
<1>8. (t.pc \in SavesAt => pc \in SavesAt /\ t.acc = p.acc)
         /\ (t.pc \in ImportsAt => pc \in ImportsAt)
  BY <1>6 DEF SavesAt, ImportsAt
<1>9. CASE p.issued = n + 1
  <2>1. issued'[id] = n + 1
    BY <1>2, <1>5, <1>9
  <2>2. work[c].acc.rt = n /\ n < MaxIssued /\ p.acc.rt \in {n, n + 1}
    BY <1>3, <1>4, <1>9
  <2> QED
    BY <1>1, <1>3, <1>4, <1>5, <1>6, <1>7, <1>8, <1>9, <2>1, <2>2 DEF Renewing
<1>10. CASE p.issued = n /\ n # n + 1
  <2>1. issued' = issued
    BY <1>1, <1>2, <1>5, <1>10
  <2>2. p.acc.rt = work[c].acc.rt /\ o.res # "ok"
    BY <1>3, <1>4, <1>10
  <2> QED
    BY <1>1, <1>5, <1>6, <1>7, <1>8, <2>1, <2>2 DEF Renewing
<1> QED
  BY <1>3, <1>4, <1>9, <1>10

\* A run's end keeps the copy's tokens and leads to no place where tokens are saved; only
\* a probe's runs lead to where it renews again or saves its copy, with their cause.
LEMMA FinishCopy ==
  ASSUME CredentialInvariant, NEW c \in Callers, work[c].pc \in RunsAt,
         NEW a \in Account, NEW result \in {"ok", "auth", "other"}, Finish(c, result, a)
  PROVE  /\ \A d \in Callers \ {c} : work'[d] = work[d]
         /\ work'[c].run = "none"
         /\ work'[c].id \in {work[c].id, NoAccount}
         /\ work'[c].acc # NoAccount => work'[c].acc.rt = a.rt
         /\ work'[c].pc \notin SavesAt
         /\ work'[c].pc \in ImportsAt => work[c].pc \in ImportsAt
         /\ work'[c].cause = Cause(c, result)
         /\ work'[c].pc = "probeRefresh"
               => /\ work[c].pc = "probeStatus" /\ result = "auth"
                  /\ work'[c].acc = a /\ work'[c].id = work[c].id
         /\ work'[c].pc = "probeSave"
               => /\ work[c].pc = "probeStatusAgain" /\ result # "ok"
                  /\ work'[c].acc = Refused(a, result) /\ work'[c].id = work[c].id
<1> DEFINE pc == work[c].pc
           to == After(pc, result, a)
<1>1. PICK b \in Nat :
        work' = [work EXCEPT ![c] =
                    [Then(c, After(pc, result, a), Judged(pc, result, a, b)) EXCEPT
                        !.run = "none", !.cause = Cause(c, result)]]
  <2>1. \A b \in IF pc \in {"importList", "importStatus"} THEN Balances ELSE {a.credits} : b \in Nat
    BY BalancesAssumption DEF Account
  <2> QED
    BY <2>1, Zenon DEF Finish
<1>2. work[c] \in Goroutine /\ work[c].id \in Ids /\ work \in [Callers -> Goroutine]
  BY InHand, RunPlaces
<1>3. /\ to \in (WithCopy \ SavesAt) \union {"return"}
      /\ to \in ImportsAt => pc \in ImportsAt
      /\ to = "probeRefresh" => pc = "probeStatus" /\ result = "auth"
      /\ to = "probeSave" => pc = "probeStatusAgain" /\ result # "ok"
  BY DEF After, WithCopy, SavesAt, ImportsAt
<1> DEFINE j == Judged(pc, result, a, b)
<1>4. /\ j \in Account /\ j.rt = a.rt
      /\ pc = "probeStatusAgain" /\ result # "ok" => j = Refused(a, result)
      /\ pc = "probeStatus" => j = a
  <2>1. Refused(a, result) \in Account /\ Refused(a, result).rt = a.rt
    BY RefusedCopy
  <2>2. CASE pc = "probeStatusAgain"
    BY <2>1, <2>2 DEF Judged
  <2>3. CASE pc = "importList"
    BY <2>3 DEF Judged, Account
  <2>4. CASE pc = "importStatus"
    BY <2>4 DEF Judged, Account, ErrorKinds
  <2>5. CASE pc \notin {"probeStatusAgain", "importList", "importStatus"}
    BY <2>5 DEF Judged
  <2> QED
    BY <2>2, <2>3, <2>4, <2>5
<1> DEFINE t == Then(c, to, j)
           f == Cause(c, result)
           w == [t EXCEPT !.run = "none", !.cause = f]
<1>5. t \in Goroutine
  BY <1>2, <1>3, <1>4, ThenProper
<1>6. \/ t.id = NoAccount /\ t.acc = NoAccount /\ t.pc \in {"retry", "select", "release", "done"}
      \/ t.id = work[c].id /\ t.acc = j /\ t.pc = to
      \/ t.id = work[c].id /\ t.acc = j /\ t.pc \in {"create", "record"}
  BY <1>2, ThenCopy
<1>7. f = Cause(c, result)
  OBVIOUS
<1> HIDE DEF t, j, to, f
<1>8. /\ w.pc = t.pc /\ w.id = t.id /\ w.acc = t.acc /\ w.run = "none" /\ w.cause = f
  BY <1>5 DEF Goroutine
<1>9. work' = [work EXCEPT ![c] = w]
  BY <1>1 DEF t, j, to, f
<1> HIDE DEF w
<1>10. work'[c] = w /\ \A d \in Callers \ {c} : work'[d] = work[d]
  BY <1>2, <1>9
<1>11. {"retry", "select", "release", "done", "create", "record"}
          \intersect (SavesAt \union ImportsAt \union {"probeSave", "probeRefresh"}) = {}
  BY DEF SavesAt, ImportsAt
<1>12. "return" \notin SavesAt \union ImportsAt \union {"probeSave", "probeRefresh"}
  BY DEF SavesAt, ImportsAt
<1> QED
  BY <1>3, <1>4, <1>6, <1>7, <1>8, <1>10, <1>11, <1>12

LEMMA RunRenews ==
  ASSUME CredentialInvariant, NEW c \in Callers, Run(c)
  PROVE  Renewing(c) /\ call[c] = NoCall /\ work[c].pc \in WithCopy
<1> DEFINE a == work[c].acc
<1>1. work[c].pc \in RunsAt /\ call[c] = NoCall
  BY InHand DEF Run, PrepareRun, CommandEnds, CommandRetries, RetryEnds
<1>2. PICK id \in Ids, n \in Nat : id = work[c].id /\ n = issued[id]
  BY <1>1, InHand, RunPlaces
<1>3. /\ work[c] \in Goroutine /\ a \in Account /\ now \in Nat /\ id # NoAccount
      /\ work \in [Callers -> Goroutine] /\ issued \in [Ids -> Nat]
  BY <1>1, InHand, RunPlaces, NoneAssumption
<1>4. UNCHANGED <<disk, call, sweep>>
  BY DEF Run, PrepareRun, CommandEnds, CommandRetries, RetryEnds, poolVars
<1>5. work[c].pc \notin SavesAt
  BY <1>1 DEF RunsAt, SavesAt
\* The run goes on or ends, with a copy that Clerk renewed or did not.
<1>6. ASSUME NEW o, o.acc \in Account, o.issued \in {n, n + 1},
             o.acc.rt = a.rt \/ (o.issued = n + 1 /\ o.acc.rt = n + 1),
             o.issued = n + 1 => a.rt = n /\ n < MaxIssued,
             issued' = [issued EXCEPT ![id] = o.issued],
             \/ \E run : work' = [work EXCEPT ![c].run = run, ![c].acc = o.acc]
             \/ \E result \in {"ok", "auth", "other"} : Finish(c, result, o.acc)
      PROVE  Renewing(c)
  <2>1. /\ \A d \in Callers \ {c} : work'[d] = work[d]
        /\ work'[c].id \in {id, NoAccount}
        /\ work'[c].acc # NoAccount => work'[c].acc.rt = o.acc.rt
        /\ work'[c].pc \notin SavesAt
        /\ work'[c].pc \in ImportsAt => work[c].pc \in ImportsAt
    <3>1. CASE \E run : work' = [work EXCEPT ![c].run = run, ![c].acc = o.acc]
      <4>1. PICK run : work' = [work EXCEPT ![c].run = run, ![c].acc = o.acc]
        BY <3>1
      <4>2. work'[c] = [work[c] EXCEPT !.run = run, !.acc = o.acc]
               /\ \A d \in Callers \ {c} : work'[d] = work[d]
        BY <1>3, <4>1
      <4>3. work'[c].id = id /\ work'[c].acc = o.acc /\ work'[c].pc = work[c].pc
        BY <1>2, <1>3, <4>2 DEF Goroutine
      <4> QED
        BY <1>5, <4>2, <4>3
    <3>2. CASE \E result \in {"ok", "auth", "other"} : Finish(c, result, o.acc)
      BY <1>1, <1>2, <1>6, <3>2, FinishCopy
    <3> QED
      BY <1>6, <3>1, <3>2
  <2>2. Alone(c)
    BY <1>4, <2>1 DEF Alone
  <2>3. issued'[id] = o.issued /\ (o.issued = n => issued' = issued)
    BY <1>2, <1>3, <1>6
  <2>4. CASE o.issued = n /\ n # n + 1
    BY <1>2, <1>4, <1>6, <2>1, <2>2, <2>3, <2>4 DEF Renewing
  <2>5. CASE o.issued = n + 1
    BY <1>2, <1>4, <1>6, <2>1, <2>2, <2>3, <2>5 DEF Renewing
  <2> QED
    BY <1>6, <2>4, <2>5
<1>7. CASE PrepareRun(c)
  <2>1. PICK o \in EnsureAuth(a, n) :
          /\ issued' = [issued EXCEPT ![id] = o.issued]
          /\ \/ work' = [work EXCEPT ![c].run = "first", ![c].acc = o.acc]
             \/ Finish(c, "other", o.acc)
    BY <1>2, <1>7 DEF PrepareRun
  <2>2. /\ o.acc \in Account /\ o.issued \in {n, n + 1}
        /\ o.acc.rt = a.rt \/ (o.issued = n + 1 /\ o.acc.rt = n + 1)
        /\ o.issued = n + 1 => a.rt = n /\ n < MaxIssued
    BY <1>3, Ensurings
  <2>3. \/ \E run : work' = [work EXCEPT ![c].run = run, ![c].acc = o.acc]
        \/ \E result \in {"ok", "auth", "other"} : Finish(c, result, o.acc)
    BY <2>1
  <2> QED
    BY <1>1, <1>6, <2>1, <2>2, <2>3, RunPlaces
<1>8. CASE CommandRetries(c)
  <2>1. PICK o \in RefreshAccount(a, n) :
          /\ issued' = [issued EXCEPT ![id] = o.issued]
          /\ \/ work' = [work EXCEPT ![c].run = "again", ![c].acc = o.acc]
             \/ Finish(c, "auth", o.acc)
    BY <1>2, <1>8 DEF CommandRetries
  <2>2. /\ o.acc \in Account /\ o.issued \in {n, n + 1}
        /\ o.acc.rt = a.rt \/ (o.issued = n + 1 /\ o.acc.rt = n + 1)
        /\ o.issued = n + 1 => a.rt = n /\ n < MaxIssued
    BY <1>3, Renewals
  <2>3. \/ \E run : work' = [work EXCEPT ![c].run = run, ![c].acc = o.acc]
        \/ \E result \in {"ok", "auth", "other"} : Finish(c, result, o.acc)
    BY <2>1
  <2> QED
    BY <1>1, <1>6, <2>1, <2>2, <2>3, RunPlaces
<1>9. CASE CommandEnds(c) \/ RetryEnds(c)
  <2>1. PICK result \in Answers(c) : Finish(c, result, a)
    BY <1>9 DEF CommandEnds, RetryEnds
  <2> DEFINE o == [acc |-> a, issued |-> n]
  <2>2. issued' = [issued EXCEPT ![id] = o.issued]
    BY <1>2, <1>3, <1>9 DEF CommandEnds, RetryEnds
  <2>3. o.acc = a /\ o.issued = n /\ o.acc.rt = a.rt
    OBVIOUS
  <2>4. Finish(c, result, o.acc) /\ result \in {"ok", "auth", "other"}
    BY <2>1, <2>3, AnswerKinds
  <2>5. n # n + 1
    OBVIOUS
  <2> HIDE DEF o
  <2>6. \E result2 \in {"ok", "auth", "other"} : Finish(c, result2, o.acc)
    BY <2>4
  <2> QED
    BY <1>1, <1>3, <1>6, <2>2, <2>3, <2>5, <2>6, RunPlaces
<1> QED
  BY <1>1, <1>7, <1>8, <1>9, RunPlaces DEF Run

\* Steps in which nothing is renewed and nothing written.
LEMMA QuietTokens ==
  ASSUME CredentialInvariant, CredentialInvariant', TokensAreOwned, NEW c \in Callers,
         Alone(c), disk' = disk, issued' = issued,
         \A id \in Ids : \A a \in Copies(c, id)' : Knows(c, id, a.rt),
         RenewedInHand(c)', RenewedInCall(c)'
  PROVE  TokensAreOwned'
<1>1. \A id \in Ids : Issues(c, id)
  BY DEF Issues
<1>2. \A id \in Ids : disk'[id] # NoAccount => Knows(c, id, disk'[id].rt)
  BY DEF Knows
<1>3. \A id \in Ids : \A a \in Copies(c, id)' : Learns(c, id, a.rt)
  BY DEF Learns
<1> QED
  BY <1>1, <1>2, <1>3, TokensStep

LEMMA CallFields ==
  ASSUME PoolInvariant, NEW c \in Callers, NEW id \in Ids, NEW op, NEW changed,
         Read(c, op, id, changed)
  PROVE  /\ disk[id] \in Account
         /\ call'[c].op = op /\ call'[c].id = id /\ call'[c].write = changed
         /\ UNCHANGED disk /\ call[c] = NoCall
  BY DEF PoolInvariant, PoolTypeOK, Read

\* Steps that start a call of another method than UpdateTokens, or none, and take the
\* goroutine, with its copy or without, to a place where nothing is unsaved.
LEMMA MethodTokens ==
  ASSUME CredentialInvariant, CredentialInvariant', TokensAreOwned, NEW c \in Callers,
         \A d \in Callers \ {c} : work'[d] = work[d] /\ call'[d] = call[d],
         disk' = disk, issued' = issued, sweep' = sweep,
         work'[c].pc \notin SavesAt \union ImportsAt,
         work'[c].acc # NoAccount
             => work'[c].id = work[c].id /\ \E a \in {work[c].acc} : a # NoAccount /\ work'[c].acc.rt = a.rt,
         \/ call'[c] = call[c] /\ call[c] = NoCall
         \/ /\ call'[c].op # "UpdateTokens"
            /\ call'[c].write # NoAccount
                  => disk[call'[c].id] # NoAccount /\ call'[c].write.rt = disk[call'[c].id].rt
  PROVE  TokensAreOwned'
<1>1. Alone(c)
  BY DEF Alone
<1>2. RenewedInHand(c)' /\ RenewedInCall(c)'
  BY DEF RenewedInHand, RenewedInCall
<1>3. ASSUME NEW id \in Ids, NEW a \in Copies(c, id)' PROVE Knows(c, id, a.rt)
  <2>1. a # NoAccount
    BY <1>3 DEF Copies
  <2>2. CASE work'[c].id = id /\ a = work'[c].acc
    <3>1. work[c].acc \in Copies(c, id) /\ a.rt = work[c].acc.rt
      BY <2>1, <2>2 DEF Copies
    <3> QED
      BY <3>1 DEF Knows
  <2>3. CASE call'[c] # NoCall /\ call'[c].id = id /\ a = call'[c].write
    BY <2>1, <2>3 DEF Knows
  <2>4. CASE c \in Refreshers /\ a = sweep'[c][id]
    <3>1. a \in Copies(c, id)
      BY <2>1, <2>4 DEF Copies
    <3> QED
      BY <3>1 DEF Knows
  <2> QED
    BY <1>3, <2>2, <2>3, <2>4 DEF Copies
<1> QED
  BY <1>1, <1>2, <1>3, QuietTokens

\* The tokens that a goroutine has renewed go from its hands to its call.
LEMMA SaveTokensOwned ==
  ASSUME CredentialInvariant, CredentialInvariant', TokensAreOwned, NEW c \in Callers,
         NEW from \in SavesAt, NEW to, to \notin SavesAt \union ImportsAt,
         SaveTokens(c, from, to)
  PROVE  TokensAreOwned'
<1>1. work[c].pc = from /\ work[c].pc \in WithCopy /\ call[c] = NoCall
  BY DEF SaveTokens, At, SavesAt, WithCopy
<1>2. PICK id \in Ids, n \in Nat : id = work[c].id /\ n = work[c].acc.rt
  BY <1>1, InHand DEF Account
<1>3. n > 1 /\ n = issued[id] /\ NewerThanOthers(c, id, n)
  BY <1>1, <1>2 DEF TokensAreOwned, RenewedInHand
<1>4. /\ work[c] \in Goroutine /\ work \in [Callers -> Goroutine] /\ PoolInvariant
      /\ work[c].acc \in Account /\ work[c].acc # NoAccount
  BY <1>1, InHand, NoneAssumption
<1> DEFINE a == work[c].acc
           ts == [tok |-> a.tok, rt |-> a.rt, exp |-> a.exp]
<1>5. Goto(c, to) /\ (UNCHANGED poolVars \/ UpdateTokens(c, id, ts))
  BY <1>2 DEF SaveTokens, IfStored
<1>6. ts.rt = n
  BY <1>2
<1> HIDE DEF ts
<1>7. /\ \A d \in Callers \ {c} : call'[d] = call[d]
      /\ disk' = disk
  BY <1>4, <1>5, CallsOfOthers DEF UpdateTokens, Read, poolVars
<1>8. /\ work'[c] = Then(c, to, a)
      /\ \A d \in Callers \ {c} : work'[d] = work[d]
      /\ issued' = issued /\ sweep' = sweep
  BY <1>4, <1>5 DEF Goto
<1>9. Alone(c)
  BY <1>7, <1>8 DEF Alone
<1>10. \/ call'[c] = NoCall
       \/ call'[c].id = id /\ call'[c].write.rt = n /\ call'[c].op = "UpdateTokens"
  <2>1. CASE UNCHANGED poolVars
    BY <1>1, <2>1 DEF poolVars
  <2>2. CASE UpdateTokens(c, id, ts)
    <3>1. disk[id] \in Account /\ call'[c].id = id /\ call'[c].write = WithTokens(disk[id], ts)
             /\ call'[c].op = "UpdateTokens"
      BY <1>4, <2>2, CallFields DEF UpdateTokens
    <3>2. WithTokens(disk[id], ts).rt = n
      BY <1>3, <1>6, <3>1 DEF WithTokens, Account
    <3> QED
      BY <3>1, <3>2
  <2> QED
    BY <1>5, <2>1, <2>2
<1>11. /\ work'[c].pc \notin SavesAt \union ImportsAt
       /\ (work'[c].id = id /\ work'[c].acc = a) \/ work'[c].acc = NoAccount
  <2>1. {"retry", "select", "release", "done", "create", "record"} \intersect (SavesAt \union ImportsAt) = {}
    BY DEF SavesAt, ImportsAt
  <2> QED
    BY <1>2, <1>4, <1>8, <2>1, ThenCopy
<1>12. RenewedInHand(c)'
  BY <1>11 DEF RenewedInHand
<1>13. RenewedInCall(c)'
  <2>1. NewerThanOthers(c, id, n)'
    BY <1>3, <1>7, <1>9, NewerStays
  <2> QED
    BY <1>3, <1>8, <1>10, <2>1 DEF RenewedInCall
<1>14. ASSUME NEW k \in Ids, NEW b \in Copies(c, k)' PROVE Knows(c, k, b.rt)
  <2>1. b # NoAccount
    BY <1>14 DEF Copies
  <2>2. Knows(c, id, n)
    <3>1. a \in Copies(c, id) /\ a.rt = n
      BY <1>2, <1>4 DEF Copies
    <3> QED
      BY <3>1 DEF Knows
  <2>3. CASE work'[c].id = k /\ b = work'[c].acc
    BY <1>2, <1>11, <2>1, <2>2, <2>3
  <2>4. CASE call'[c] # NoCall /\ call'[c].id = k /\ b = call'[c].write
    BY <1>10, <2>2, <2>4
  <2>5. CASE c \in Refreshers /\ b = sweep'[c][k]
    <3>1. b \in Copies(c, k)
      BY <1>8, <2>1, <2>5 DEF Copies
    <3> QED
      BY <3>1 DEF Knows
  <2> QED
    BY <1>14, <2>3, <2>4, <2>5 DEF Copies
<1> QED
  BY <1>7, <1>8, <1>9, <1>12, <1>13, <1>14, QuietTokens

\* Steps that give a goroutine a copy from disk, or of an import, or none.
LEMMA StartTokens ==
  ASSUME CredentialInvariant, CredentialInvariant', TokensAreOwned, NEW c \in Callers,
         call[c] = NoCall, UNCHANGED <<poolVars, issued, sweep>>,
         NEW w, work' = [work EXCEPT ![c] = w],
         w.pc \notin SavesAt,
         w.acc # NoAccount => Knows(c, w.id, w.acc.rt),
         w.pc \in ImportsAt => ~(w.acc.rt > 1)
  PROVE  TokensAreOwned'
<1>1. /\ work'[c] = w /\ \A d \in Callers \ {c} : work'[d] = work[d]
      /\ UNCHANGED <<disk, call, issued, sweep>>
  BY InHand DEF poolVars
<1>2. Alone(c)
  BY <1>1 DEF Alone
<1>3. RenewedInHand(c)' /\ RenewedInCall(c)'
  BY <1>1 DEF RenewedInHand, RenewedInCall
<1>4. ASSUME NEW id \in Ids, NEW a \in Copies(c, id)' PROVE Knows(c, id, a.rt)
  <2>1. a # NoAccount
    BY <1>4 DEF Copies
  <2>2. CASE w.id = id /\ a = w.acc
    BY <2>1, <2>2
  <2>3. CASE c \in Refreshers /\ a = sweep[c][id]
    <3>1. a \in Copies(c, id)
      BY <2>1, <2>3 DEF Copies
    <3> QED
      BY <3>1 DEF Knows
  <2> QED
    BY <1>1, <1>4, <2>2, <2>3 DEF Copies
<1> QED
  BY <1>1, <1>2, <1>3, <1>4, QuietTokens

\* Fields of the states that Starting gives.
LEMMA StartingFields ==
  ASSUME NEW pc, NEW id, NEW a
  PROVE  /\ Starting(pc, id, a).pc = pc /\ Starting(pc, id, a).id = id
         /\ Starting(pc, id, a).acc = a
         /\ Idle.pc = "idle" /\ Idle.acc = NoAccount /\ Done.pc = "done" /\ Done.acc = NoAccount
  BY DEF Starting, Idle, Done

LEMMA StartsTokens ==
  ASSUME CredentialInvariant, CredentialInvariant', TokensAreOwned, FreshLogins,
         NEW c \in Callers,
         \/ \E id \in Ids : \/ StartKeeper(c, id) \/ StartProbe(c, id)
                            \/ StartImport(c, id) \/ StartImportCLI(c, id)
         \/ EndSweep(c) \/ RemoveHome(c)
  PROVE  TokensAreOwned'
<1>1. {"auth", "probe", "idle", "done"} \intersect (SavesAt \union ImportsAt) = {}
         /\ {"import", "importList", "importStatus"} \intersect SavesAt = {}
  BY DEF SavesAt, ImportsAt
<1>2. ASSUME NEW id \in Ids, NEW pc \in {"auth", "probe"}, At(c, "idle"), disk[id] # NoAccount,
             work' = [work EXCEPT ![c] = Starting(pc, id, disk[id])],
             UNCHANGED <<poolVars, issued, sweep>>
      PROVE  TokensAreOwned'
  <2>1. Knows(c, id, disk[id].rt)
    BY <1>2 DEF Knows
  <2>2. PICK w : w = Starting(pc, id, disk[id])
    OBVIOUS
  <2>3. w.pc = pc /\ w.id = id /\ w.acc = disk[id]
    BY <2>2, StartingFields
  <2>4. work' = [work EXCEPT ![c] = w] /\ w.pc \notin SavesAt \union ImportsAt
    BY <1>1, <1>2, <2>2, <2>3
  <2> QED
    BY <1>2, <2>1, <2>3, <2>4, StartTokens DEF At
<1>3. ASSUME NEW id \in Ids, NEW pc \in {"import", "importList", "importStatus"}, At(c, "idle"),
             NEW a \in Pasted \union FromUserCLI,
             work' = [work EXCEPT ![c] = Starting(pc, id, a)],
             UNCHANGED <<poolVars, issued, sweep>>
      PROVE  TokensAreOwned'
  <2>1. a.rt \in Nat /\ a.rt <= 1
    BY ImportedLogins DEF FreshLogins, Account
  <2>2. Knows(c, id, a.rt) /\ ~(a.rt > 1)
    BY <2>1 DEF Knows
  <2>3. PICK w : w = Starting(pc, id, a)
    OBVIOUS
  <2>4. w.pc = pc /\ w.id = id /\ w.acc = a
    BY <2>3, StartingFields
  <2>5. work' = [work EXCEPT ![c] = w] /\ w.pc \notin SavesAt
    BY <1>1, <1>3, <2>3, <2>4
  <2> QED
    BY <1>3, <2>2, <2>4, <2>5, StartTokens DEF At
<1>4. CASE EndSweep(c) \/ RemoveHome(c)
  BY <1>1, <1>4, StartingFields, StartTokens DEF EndSweep, RemoveHome, At
<1> QED
  BY <1>2, <1>3, <1>4 DEF StartKeeper, StartProbe, StartImport, StartImportCLI

LEMMA SweepTokens ==
  ASSUME CredentialInvariant, CredentialInvariant', TokensAreOwned, NEW c \in Refreshers,
         StartSweep(c) \/ \E id \in Ids : SweepAccount(c, id)
  PROVE  TokensAreOwned'
<1>1. c \in Callers /\ call[c] = NoCall /\ UNCHANGED <<disk, call>>
  BY CredentialsAssumption DEF StartSweep, SweepAccount, At, poolVars
<1>2. RenewedInCall(c)'
  BY <1>1 DEF RenewedInCall
<1>3. {"sweep", "idle"} \intersect (SavesAt \union ImportsAt) = {} /\ "sweepTokens" \notin ImportsAt
  BY DEF SavesAt, ImportsAt
<1>4. CASE StartSweep(c)
  <2>1. /\ \A d \in Callers \ {c} : work'[d] = work[d]
        /\ \A d \in Refreshers \ {c} : sweep'[d] = sweep[d]
        /\ sweep'[c] = disk
        /\ work'[c].pc = "sweep" /\ work'[c].id = work[c].id /\ work'[c].acc = work[c].acc
    BY <1>1, <1>4, InHand DEF StartSweep, Goroutine
  <2>2. Alone(c)
    BY <1>1, <2>1 DEF Alone
  <2>3. RenewedInHand(c)'
    BY <1>3, <2>1 DEF RenewedInHand
  <2>4. ASSUME NEW id \in Ids, NEW a \in Copies(c, id)' PROVE Knows(c, id, a.rt)
    <3>1. CASE a \in Copies(c, id)
      BY <3>1 DEF Knows
    <3>2. CASE a = disk[id] /\ disk[id] # NoAccount
      BY <3>2 DEF Knows
    <3> QED
      BY <1>1, <2>1, <2>4, <3>1, <3>2 DEF Copies
  <2> QED
    BY <1>1, <1>2, <1>4, <2>2, <2>3, <2>4, QuietTokens DEF StartSweep
<1>5. ASSUME NEW id \in Ids, SweepAccount(c, id) PROVE TokensAreOwned'
  <2>1. PICK a, n : a = sweep[c][id] /\ n = issued[id] /\ n \in Nat
    BY <1>1, InHand
  <2>2. a \in Account /\ a \in Copies(c, id) /\ now \in Nat /\ Knows(c, id, a.rt)
    <3>1. a \in Account
      BY <1>1, <1>5, <2>1, InHand DEF SweepAccount, Present
    <3>2. a \in Copies(c, id)
      BY <2>1, <3>1, NoneAssumption DEF Copies
    <3> QED
      BY <1>1, <3>1, <3>2, InHand DEF Knows
  <2>3. sweep' = [sweep EXCEPT ![c][id] = NoAccount]
    BY <1>5 DEF SweepAccount
  <2>4. \A k \in Ids : sweep'[c][k] = sweep[c][k] \/ sweep'[c][k] = NoAccount
    BY <1>1, <2>3, InHand
  <2>5. \A d \in Refreshers \ {c} : sweep'[d] = sweep[d]
    BY <1>1, <2>3, InHand
  \* What it holds after the step, if its copy in hand is the old one, none, or one whose
  \* refresh token it has just learned.
  <2>6. ASSUME \/ work'[c] = work[c]
               \/ work'[c].acc = NoAccount
               \/ work'[c].id = id /\ Learns(c, id, work'[c].acc.rt),
               NEW k \in Ids, NEW b \in Copies(c, k)'
        PROVE  Learns(c, k, b.rt)
    <3>1. CASE b \in Copies(c, k)
      BY <3>1 DEF Learns, Knows
    <3>2. CASE b \notin Copies(c, k)
      BY <1>1, <2>4, <2>6, <3>2 DEF Copies
    <3> QED
      BY <3>1, <3>2
  <2>7. CASE UNCHANGED <<issued, work, home>>
    <3>1. Alone(c)
      BY <1>1, <2>5, <2>7 DEF Alone
    <3>2. \A k \in Ids : \A b \in Copies(c, k)' : Knows(c, k, b.rt)
      BY <1>1, <2>4, <2>7 DEF Copies, Knows
    <3>3. RenewedInHand(c)'
      BY <1>3, <1>5, <2>7 DEF SweepAccount, At, RenewedInHand
    <3> QED
      BY <1>1, <1>2, <2>7, <3>1, <3>2, <3>3, QuietTokens
  <2>8. ASSUME NEW o \in EnsureAuth(a, n),
               issued' = [issued EXCEPT ![id] = o.issued],
               work' = [work EXCEPT ![c] = IF o.res = "ok" THEN Starting("sweepTokens", id, o.acc)
                                           ELSE Starting("sweep", NoAccount, NoAccount)]
        PROVE  TokensAreOwned'
    <3>1. /\ o.issued \in {n, n + 1}
          /\ o.res = "ok" => o.issued = n + 1 /\ o.acc.rt = n + 1
          /\ o.issued = n + 1 => a.rt = n /\ n < MaxIssued
      BY <2>1, <2>2, Ensurings
    <3>2. \A k \in Ids : issued'[k] = IF k = id THEN o.issued ELSE issued[k]
      BY <1>1, <2>8, InHand
    <3>3. /\ \A d \in Callers \ {c} : work'[d] = work[d]
          /\ IF o.res = "ok"
             THEN work'[c].pc = "sweepTokens" /\ work'[c].id = id /\ work'[c].acc = o.acc
             ELSE work'[c].pc = "sweep" /\ work'[c].acc = NoAccount
      BY <1>1, <2>8, InHand, StartingFields
    <3>4. Alone(c)
      BY <1>1, <2>5, <3>3 DEF Alone
    <3>5. \A k \in Ids : Issues(c, k)
      BY <2>1, <2>2, <3>1, <3>2 DEF Issues
    <3>6. NewerThanOthers(c, id, n + 1) /\ n + 1 > 1
      BY <1>1, <2>1, NewerByRenewal DEF TokensAreOwned
    <3>7. NewerThanOthers(c, id, n + 1)'
      BY <1>1, <3>4, <3>6, NewerStays
    <3>8. RenewedInHand(c)'
      <4>1. CASE o.res = "ok"
        BY <1>1, <1>3, <3>1, <3>2, <3>3, <3>6, <3>7, <4>1 DEF RenewedInHand
      <4>2. CASE o.res # "ok"
        BY <1>3, <3>3, <4>2 DEF RenewedInHand
      <4> QED
        BY <4>1, <4>2
    <3>9. o.res = "ok" => Learns(c, id, o.acc.rt)
      BY <2>1, <3>1, <3>2 DEF Learns
    <3>10. \A k \in Ids : \A b \in Copies(c, k)' : Learns(c, k, b.rt)
      BY <2>6, <3>3, <3>9
    <3>11. \A k \in Ids : disk'[k] # NoAccount => Knows(c, k, disk'[k].rt)
      BY <1>1 DEF Knows
    <3> QED
      BY <1>1, <1>2, <3>4, <3>5, <3>8, <3>10, <3>11, TokensStep
  <2> QED
    BY <1>5, <2>1, <2>7, <2>8 DEF SweepAccount
<1> QED
  BY <1>4, <1>5

\* Saving a whole copy, the probe's or an import's, puts on disk what is in hand already.
LEMMA SaveCopyTokens ==
  ASSUME CredentialInvariant, CredentialInvariant', TokensAreOwned, NEW c \in Callers,
         NEW from \in WithCopy, SaveCopy(c, from)
  PROVE  TokensAreOwned'
<1>1. PICK id \in Ids, a \in Account :
        id = work[c].id /\ a = work[c].acc /\ a \in Copies(c, id) /\ call[c] = NoCall
  BY InHand, NoneAssumption DEF SaveCopy, At, Copies
<1>2. /\ disk' = [disk EXCEPT ![id] = a] /\ UNCHANGED <<call, issued, sweep>>
      /\ work' = [work EXCEPT ![c] = Starting("done", NoAccount, NoAccount)]
  BY <1>1 DEF SaveCopy, Save, Goto, Then
<1>3. /\ work'[c].pc = "done" /\ work'[c].acc = NoAccount
      /\ \A d \in Callers \ {c} : work'[d] = work[d]
  BY <1>2, InHand, StartingFields
<1>4. Alone(c)
  BY <1>2, <1>3 DEF Alone
<1>5. \A k \in Ids : Issues(c, k)
  BY <1>2 DEF Issues
<1>6. ASSUME NEW k \in Ids, disk'[k] # NoAccount PROVE Knows(c, k, disk'[k].rt)
  <2>1. disk'[k] = IF k = id THEN a ELSE disk[k]
    BY <1>2 DEF CredentialInvariant, CredentialTypeOK, PoolTypeOK
  <2> QED
    BY <1>1, <1>6, <2>1 DEF Knows
<1>7. ASSUME NEW k \in Ids, NEW b \in Copies(c, k)' PROVE Learns(c, k, b.rt)
  <2>1. b \in Copies(c, k)
    BY <1>2, <1>3, <1>7 DEF Copies
  <2> QED
    BY <2>1 DEF Learns, Knows
<1>8. RenewedInHand(c)' /\ RenewedInCall(c)'
  <2>1. "done" \notin SavesAt \union ImportsAt
    BY DEF SavesAt, ImportsAt
  <2> QED
    BY <1>1, <1>2, <1>3, <2>1 DEF RenewedInHand, RenewedInCall
<1> QED
  BY <1>4, <1>5, <1>6, <1>7, <1>8, TokensStep

\* The file that a call writes holds tokens that the goroutine had, or nothing.
LEMMA WriteTokens ==
  ASSUME CredentialInvariant, CredentialInvariant', TokensAreOwned, NEW c \in Callers,
         Write(c), UNCHANGED <<issued, sweep>>,
         \A d \in Callers \ {c} : work'[d] = work[d],
         work'[c] = work[c] \/ (work'[c].acc = NoAccount /\ work'[c].pc = "removeHome")
  PROVE  TokensAreOwned'
<1>1. /\ call[c] # NoCall /\ call[c].id \in Ids
      /\ disk' = [disk EXCEPT ![call[c].id] = call[c].write]
      /\ call'[c] = NoCall /\ \A d \in Callers \ {c} : call'[d] = call[d]
  BY DEF Write, CredentialInvariant, CredentialTypeOK, PoolTypeOK, PendingWrite
<1>2. PICK id, a : id = call[c].id /\ a = call[c].write
  OBVIOUS
<1>3. a # NoAccount => a \in Copies(c, id)
  BY <1>1, <1>2 DEF Copies
<1>4. Alone(c)
  BY <1>1 DEF Alone
<1>5. \A k \in Ids : Issues(c, k)
  BY DEF Issues
<1>6. ASSUME NEW k \in Ids, disk'[k] # NoAccount PROVE Knows(c, k, disk'[k].rt)
  <2>1. disk'[k] = IF k = id THEN a ELSE disk[k]
    BY <1>1, <1>2 DEF CredentialInvariant, CredentialTypeOK, PoolTypeOK
  <2> QED
    BY <1>3, <1>6, <2>1 DEF Knows
<1>7. ASSUME NEW k \in Ids, NEW b \in Copies(c, k)' PROVE Learns(c, k, b.rt)
  <2>1. b \in Copies(c, k)
    BY <1>1, <1>7 DEF Copies
  <2> QED
    BY <2>1 DEF Learns, Knows
<1>8. RenewedInHand(c)' /\ RenewedInCall(c)'
  <2>1. "removeHome" \notin SavesAt \union ImportsAt
    BY DEF SavesAt, ImportsAt
  \* Nobody writes a file while it has renewed tokens in hand.
  <2>2. work[c].pc \notin SavesAt \union ImportsAt
    BY <1>1 DEF TokensAreOwned, RenewedInHand
  <2> QED
    BY <1>1, <2>1, <2>2 DEF RenewedInHand, RenewedInCall
<1> QED
  BY <1>4, <1>5, <1>6, <1>7, <1>8, TokensStep

\* After a restart the goroutines hold nothing, and the disk holds what it held.
LEMMA RestartTokens ==
  ASSUME CredentialInvariant, TokensAreOwned, RestartServer
  PROVE  TokensAreOwned'
<1>1. /\ \A c \in Callers : work'[c].acc = NoAccount /\ work'[c].pc \in {"idle", "done"}
      /\ \A c \in Callers : call'[c] = NoCall
      /\ \A c \in Refreshers : \A id \in Ids : sweep'[c][id] = NoAccount
      /\ issued' = issued
  BY StartingFields DEF RestartServer, Restart
<1>2. \A id \in Ids : disk'[id] = disk[id] \/ disk'[id] = NoAccount
  <2>1. CASE disk' = disk
    BY <2>1
  <2>2. CASE \E c \in Callers : call[c] # NoCall /\ disk' = [disk EXCEPT ![call[c].id] = NoAccount]
    BY <2>2 DEF CredentialInvariant, CredentialTypeOK, PoolTypeOK
  <2> QED
    BY <2>1, <2>2 DEF RestartServer, Restart
<1>3. \A d \in Callers : \A id \in Ids : Copies(d, id)' = {}
  BY <1>1 DEF Copies
<1>4. TokensAreIssued'
  BY <1>1, <1>2, <1>3 DEF TokensAreOwned, TokensAreIssued
<1>5. {"idle", "done"} \intersect (SavesAt \union ImportsAt) = {}
  BY DEF SavesAt, ImportsAt
<1>6. \A c \in Callers : RenewedInHand(c)' /\ RenewedInCall(c)'
  BY <1>1, <1>5 DEF RenewedInHand, RenewedInCall
<1> QED
  BY <1>4, <1>6 DEF TokensAreOwned

\* The methods other than UpdateTokens write back the tokens they read.
LEMMA KeepsTokens ==
  ASSUME CredentialInvariant, NEW c \in Callers, NEW id \in Ids,
         \/ \E b : UpdateCredits(c, id, b) \/ ProbeSucceeds(c, id, b)
         \/ \E d : SetDisabled(c, id, d)
         \/ Delete(c, id)
  PROVE  /\ disk' = disk /\ call[c] = NoCall /\ \A d \in Callers \ {c} : call'[d] = call[d]
         /\ call'[c].op # "UpdateTokens"
         /\ call'[c].write # NoAccount
               => disk[call'[c].id] # NoAccount /\ call'[c].write.rt = disk[call'[c].id].rt
<1>1. PoolInvariant
  BY InHand
<1>2. CASE Delete(c, id)
  BY <1>1, <1>2, CallsOfOthers DEF Delete, PoolInvariant, PoolTypeOK
<1>3. ASSUME NEW op \in {"UpdateCredits", "Probe", "SetDisabled"}, NEW a, Read(c, op, id, a),
             disk[id] \in Account => a.rt = disk[id].rt
      PROVE  /\ disk' = disk /\ call[c] = NoCall /\ \A d \in Callers \ {c} : call'[d] = call[d]
             /\ call'[c].op # "UpdateTokens"
             /\ disk[call'[c].id] # NoAccount /\ call'[c].write.rt = disk[call'[c].id].rt
  <2>1. /\ disk[id] \in Account /\ disk' = disk /\ call[c] = NoCall
        /\ call'[c].op = op /\ call'[c].id = id /\ call'[c].write = a
    BY <1>1, <1>3, CallFields
  <2>2. disk[id] # NoAccount
    BY <2>1, NoneAssumption
  <2> QED
    BY <1>1, <1>3, <2>1, <2>2, CallsOfOthers
<1>4. ASSUME NEW b, UpdateCredits(c, id, b) \/ ProbeSucceeds(c, id, b)
      PROVE  \E op \in {"UpdateCredits", "Probe"} : \E a :
               Read(c, op, id, a) /\ (disk[id] \in Account => a.rt = disk[id].rt)
  <2> DEFINE a == WithCredits(disk[id], b)
             p == [a EXCEPT !.auth = "valid"]
  <2>1. disk[id] \in Account => a.rt = disk[id].rt /\ p.rt = disk[id].rt
    BY DEF WithCredits, Account
  <2>2. Read(c, "UpdateCredits", id, a) \/ Read(c, "Probe", id, p)
    BY <1>4 DEF UpdateCredits, ProbeSucceeds
  <2> HIDE DEF a, p
  <2> QED
    BY <2>1, <2>2
<1>5. ASSUME NEW d, SetDisabled(c, id, d)
      PROVE  \E a : Read(c, "SetDisabled", id, a) /\ (disk[id] \in Account => a.rt = disk[id].rt)
  <2>1. disk[id] \in Account => WithDisabled(disk[id], d).rt = disk[id].rt
    BY DEF WithDisabled, Account
  <2> QED
    BY <1>5, <2>1 DEF SetDisabled
<1> QED
  BY <1>2, <1>3, <1>4, <1>5

LEMMA SaveCreditsTokens ==
  ASSUME CredentialInvariant, CredentialInvariant', TokensAreOwned, NEW c \in Callers,
         NEW from \in WithCopy, NEW to, to \notin SavesAt \union ImportsAt,
         SaveCredits(c, from, to)
  PROVE  TokensAreOwned'
<1>1. PICK id \in Ids, a \in Account : id = work[c].id /\ a = work[c].acc
  BY InHand DEF SaveCredits, At
<1>2. PICK b : /\ UNCHANGED poolVars \/ UpdateCredits(c, id, b)
               /\ work' = [work EXCEPT ![c] = Then(c, to, [a EXCEPT !.credits = b])]
               /\ UNCHANGED <<issued, sweep>>
  BY <1>1 DEF SaveCredits, IfStored
<1>3. PICK e : e = [a EXCEPT !.credits = b]
  OBVIOUS
<1>4. e.rt = a.rt /\ a # NoAccount
  BY <1>1, <1>3, NoneAssumption DEF Account
<1>5. /\ work'[c] = Then(c, to, e) /\ \A d \in Callers \ {c} : work'[d] = work[d]
      /\ work[c] \in Goroutine
  BY <1>2, <1>3, InHand
<1>6. {"retry", "select", "release", "done", "create", "record"} \intersect (SavesAt \union ImportsAt) = {}
  BY DEF SavesAt, ImportsAt
<1>7. /\ work'[c].pc \notin SavesAt \union ImportsAt
      /\ work'[c].acc # NoAccount => work'[c].id = id /\ work'[c].acc.rt = a.rt
  BY <1>1, <1>4, <1>5, <1>6, ThenCopy
<1>8. CASE UNCHANGED poolVars
  <2>1. call[c] = NoCall /\ call' = call /\ disk' = disk
    BY <1>8 DEF SaveCredits, At, poolVars
  <2> QED
    BY <1>1, <1>2, <1>4, <1>5, <1>7, <2>1, MethodTokens
<1>9. CASE UpdateCredits(c, id, b)
  BY <1>1, <1>2, <1>4, <1>5, <1>7, <1>9, KeepsTokens, MethodTokens
<1> QED
  BY <1>2, <1>8, <1>9

\* A step that goes on without the copy, or with it, while another method than
\* UpdateTokens is called.
LEMMA ProbeValidTokens ==
  ASSUME CredentialInvariant, CredentialInvariant', TokensAreOwned, NEW c \in Callers,
         ProbeValid(c) \/ Switch(c)
  PROVE  TokensAreOwned'
<1>1. /\ work' = [work EXCEPT ![c] = Starting("done", NoAccount, NoAccount)]
      /\ issued' = issued /\ sweep' = sweep
  BY DEF ProbeValid, Switch, Goto, Then
<1>2. /\ work'[c].pc = "done" /\ work'[c].acc = NoAccount
      /\ \A d \in Callers \ {c} : work'[d] = work[d]
      /\ "done" \notin SavesAt \union ImportsAt
  BY <1>1, InHand, StartingFields DEF SavesAt, ImportsAt
<1>3. CASE ProbeValid(c) /\ UNCHANGED poolVars
  <2>1. call[c] = NoCall /\ call' = call /\ disk' = disk
    BY <1>3 DEF ProbeValid, At, poolVars
  <2> QED
    BY <1>1, <1>2, <2>1, MethodTokens
<1>4. ASSUME NEW id \in Ids,
             \/ \E b : ProbeSucceeds(c, id, b)
             \/ \E d : SetDisabled(c, id, d)
             \/ Delete(c, id)
      PROVE  TokensAreOwned'
  BY <1>1, <1>2, <1>4, KeepsTokens, MethodTokens
<1>5. ProbeValid(c) => work[c].id \in Ids
  BY InHand DEF ProbeValid, At, WithCopy
<1> QED
  BY <1>3, <1>4, <1>5 DEF ProbeValid, Switch, IfStored

\* The renewals outside CLI.run.
LEMMA RenewsTokens ==
  ASSUME CredentialInvariant, CredentialInvariant', TokensAreOwned, NEW c \in Callers,
         Authenticate(c) \/ StatusRefresh(c) \/ ProbeAuth(c) \/ ProbeRefresh(c) \/ ImportAuth(c)
  PROVE  TokensAreOwned'
<1>1. /\ {"auth", "statusRefresh", "probe", "probeRefresh", "import"} \subseteq WithCopy
      /\ {"status", "return", "probeStatus", "probeSave", "done"} \intersect (SavesAt \union ImportsAt) = {}
      /\ {"authTokens", "statusTokens", "probeTokens", "probeTokensAgain"} \intersect ImportsAt = {}
      /\ {"import", "importList", "importSelect"} \intersect SavesAt = {} /\ "import" \in ImportsAt
  BY DEF WithCopy, SavesAt, ImportsAt
<1>2. ASSUME NEW o \in EnsureAuth(work[c].acc, issued[work[c].id])
                         \union RefreshAccount(work[c].acc, issued[work[c].id]),
             NEW pc, NEW p, p = o \/ \E why : p = [o EXCEPT !.acc = Refused(o.acc, why)],
             Take(c, p, pc),
             \/ /\ o.res = "ok"
                /\ pc \in {"authTokens", "statusTokens", "probeTokens", "probeTokensAgain"}
             \/ pc \in {"status", "return", "probeStatus", "probeSave", "done"}
             \/ work[c].pc = "import" /\ pc \in {"importList", "importSelect"},
             work[c].pc \in {"auth", "statusRefresh", "probe", "probeRefresh", "import"},
             call[c] = NoCall
      PROVE  TokensAreOwned'
  <2>1. /\ pc \in SavesAt => o.res = "ok"
        /\ pc \in ImportsAt => work[c].pc \in ImportsAt
    BY <1>1, <1>2
  <2>2. Renewing(c)
    BY <1>1, <1>2, <2>1, TakeRenews
  <2> QED
    BY <1>1, <1>2, <2>2, RenewingTokens
<1>3. CASE Authenticate(c)
  <2>1. PICK o \in EnsureAuth(work[c].acc, issued[work[c].id]) :
          Take(c, o, IF o.res = "ok" THEN "authTokens" ELSE "status")
    BY <1>3 DEF Authenticate
  <2> QED
    BY <1>2, <1>3, <2>1 DEF Authenticate, At
<1>4. CASE StatusRefresh(c)
  <2>1. PICK o \in RefreshAccount(work[c].acc, issued[work[c].id]) :
          Take(c, o, IF o.res = "ok" THEN "statusTokens" ELSE "return")
    BY <1>4 DEF StatusRefresh
  <2> QED
    BY <1>2, <1>4, <2>1 DEF StatusRefresh, At
<1>5. CASE ProbeAuth(c)
  <2>1. PICK o \in EnsureAuth(work[c].acc, issued[work[c].id]) :
          \/ o.res = "ok" /\ Take(c, o, "probeTokens")
          \/ \E pc \in {"probeStatus", "done"} : Take(c, o, pc)
          \/ Take(c, [o EXCEPT !.acc = Refused(o.acc, o.res)], "probeSave")
    BY <1>5, Zenon DEF ProbeAuth
  <2> QED
    BY <1>2, <1>5, <2>1 DEF ProbeAuth, At
<1>6. CASE ProbeRefresh(c)
  <2>1. PICK o \in RefreshAccount(work[c].acc, issued[work[c].id]) :
          \/ o.res = "ok" /\ Take(c, o, "probeTokensAgain")
          \/ Take(c, [o EXCEPT !.acc = Refused(o.acc, o.res)], "probeSave")
    BY <1>6, Zenon DEF ProbeRefresh
  <2> QED
    BY <1>2, <1>6, <2>1 DEF ProbeRefresh, At
<1>7. CASE ImportAuth(c)
  <2>1. PICK o \in EnsureAuth(work[c].acc, issued[work[c].id]), pc \in {"importList", "importSelect"} :
          Take(c, o, pc)
    BY <1>7 DEF ImportAuth
  <2> QED
    BY <1>2, <1>7, <2>1 DEF ImportAuth, At
<1> QED
  BY <1>3, <1>4, <1>5, <1>6, <1>7

LEMMA CredentialNextTokens ==
  ASSUME FreshLogins, CredentialInvariant, CredentialInvariant', TokensAreOwned,
         [CredentialNext]_<<poolVars, credentialVars>>
  PROVE  TokensAreOwned'
<1>1. Refreshers \union Keepers \union Probers \union Importers \union Consoles \subseteq Callers
  BY CredentialsAssumption
<1>2. /\ {"authTokens", "statusTokens", "sweepTokens", "probeTokens", "probeTokensAgain"} \subseteq SavesAt
      /\ {"status", "statusAgain", "sweep", "probeStatus", "probeStatusAgain", "return", "probeValid"}
           \intersect (SavesAt \union ImportsAt) = {}
      /\ {"credits", "probeCredits", "probeSave", "importSave"} \subseteq WithCopy
  BY DEF SavesAt, ImportsAt, WithCopy
<1>3. ASSUME NEW c \in Callers, Run(c) PROVE TokensAreOwned'
  BY <1>3, RunRenews, RenewingTokens
<1>4. ASSUME NEW c \in Callers, KeeperStep(c) PROVE TokensAreOwned'
  BY <1>2, <1>3, <1>4, StartsTokens, RenewsTokens, SaveTokensOwned, SaveCreditsTokens
     DEF KeeperStep, PrepareAccount
<1>5. ASSUME NEW c \in Refreshers, RefresherStep(c) PROVE TokensAreOwned'
  BY <1>1, <1>2, <1>5, StartsTokens, SweepTokens, SaveTokensOwned DEF RefresherStep
<1>6. ASSUME NEW c \in Callers, ProberStep(c) PROVE TokensAreOwned'
  BY <1>2, <1>3, <1>6, StartsTokens, RenewsTokens, SaveTokensOwned, SaveCreditsTokens,
     SaveCopyTokens, ProbeValidTokens DEF ProberStep
<1>7. ASSUME NEW c \in Callers, ImporterStep(c) PROVE TokensAreOwned'
  BY <1>2, <1>3, <1>7, StartsTokens, RenewsTokens, SaveCopyTokens DEF ImporterStep
<1>8. ASSUME NEW c \in Callers, ConsoleStep(c) PROVE TokensAreOwned'
  <2>1. CASE DeleteAccount(c)
    <3>1. work' = work \/ work' = [work EXCEPT ![c] = Starting("removeHome", call[c].id, NoAccount)]
      BY <2>1 DEF DeleteAccount
    <3>2. /\ \A d \in Callers \ {c} : work'[d] = work[d]
          /\ work'[c] = work[c] \/ (work'[c].acc = NoAccount /\ work'[c].pc = "removeHome")
      BY <1>8, <3>1, InHand, StartingFields
    <3> QED
      BY <1>8, <2>1, <3>2, WriteTokens DEF DeleteAccount
  <2> QED
    BY <1>8, <2>1, StartsTokens, ProbeValidTokens DEF ConsoleStep
<1>9. CASE PoolStep
  <2>1. CASE Tick
    BY <1>9, <2>1 DEF PoolStep, Tick, credentialVars, TokensAreOwned, TokensAreIssued,
       RenewedInHand, RenewedInCall, NewerThanOthers, Copies
  <2> QED
    BY <1>9, <2>1, WriteTokens DEF PoolStep, credentialVars
<1>10. CASE UNCHANGED <<poolVars, credentialVars>>
  BY <1>10 DEF poolVars, credentialVars, TokensAreOwned, TokensAreIssued,
     RenewedInHand, RenewedInCall, NewerThanOthers, Copies
<1> QED
  BY <1>1, <1>4, <1>5, <1>6, <1>7, <1>8, <1>9, <1>10, RestartTokens DEF CredentialNext

LEMMA CredentialInitTokens ==
  ASSUME FreshLogins, CredentialInit
  PROVE  TokensAreOwned
<1>1. /\ \A c \in Callers : work[c].acc = NoAccount /\ work[c].pc = "idle" /\ call[c] = NoCall
      /\ \A c \in Refreshers : \A id \in Ids : sweep[c][id] = NoAccount
      /\ \A id \in Ids : issued[id] = 1
  BY StartingFields DEF CredentialInit, PoolInit
<1>2. \A id \in Ids : disk[id] # NoAccount => disk[id].rt <= 1
  BY DEF CredentialInit, PoolInit, FreshLogins
<1>3. TokensAreIssued
  <2>1. \A id \in Ids : issued[id] \in 1 .. MaxIssued
    BY <1>1, CredentialsAssumption
  <2>2. \A d \in Callers : \A id \in Ids : Copies(d, id) = {}
    BY <1>1 DEF Copies
  <2> QED
    BY <1>1, <1>2, <2>1, <2>2 DEF TokensAreIssued
<1>4. "idle" \notin SavesAt \union ImportsAt
  BY DEF SavesAt, ImportsAt
<1> QED
  BY <1>1, <1>3, <1>4 DEF TokensAreOwned, RenewedInHand, RenewedInCall

\* What ownership says of saved tokens: the import that has renewed its tokens holds the
\* newest of the login, and an UpdateTokens that is under way writes them.
LEMMA OwnedTokensAreFresh ==
  ASSUME CredentialInvariant, TokensAreOwned
  PROVE  TokenWritesAreFresh
<1> SUFFICES ASSUME NEW c \in Callers
             PROVE  /\ (call[c] # NoCall /\ call[c].op = "UpdateTokens")
                          => call[c].write.rt = issued[call[c].id]
                    /\ (work[c].pc = "importSave" /\ work[c].acc.rt > 1)
                          => \A n \in RefreshTokensOf(work[c].id) : n <= work[c].acc.rt
  BY DEF TokenWritesAreFresh
<1>1. (call[c] # NoCall /\ call[c].op = "UpdateTokens") => call[c].write.rt = issued[call[c].id]
  BY DEF TokensAreOwned, RenewedInCall
<1>2. ASSUME work[c].pc = "importSave", work[c].acc.rt > 1, NEW m \in RefreshTokensOf(work[c].id)
      PROVE  m <= work[c].acc.rt
  <2>1. PICK id \in Ids, n \in Nat : id = work[c].id /\ n = work[c].acc.rt
    BY <1>2, InHand DEF WithCopy, Account
  <2>2. NewerThanOthers(c, id, n)
    BY <1>2, <2>1 DEF TokensAreOwned, RenewedInHand, ImportsAt
  <2>3. CASE disk[id] # NoAccount /\ m = disk[id].rt
    BY <2>1, <2>2, <2>3, CopyTypes DEF NewerThanOthers
  <2>4. ASSUME NEW d \in Callers, work[d].id = id, work[d].acc # NoAccount, m = work[d].acc.rt
        PROVE  m <= n
    <3>1. work[d].acc \in Copies(d, id)
      BY <2>4 DEF Copies
    <3>2. CASE d = c
      BY <2>1, <2>4, <3>2
    <3>3. CASE d # c
      BY <2>1, <2>2, <2>4, <3>1, <3>3, CopyTypes DEF NewerThanOthers
    <3> QED
      BY <3>2, <3>3
  <2> QED
    BY <1>2, <2>1, <2>3, <2>4 DEF RefreshTokensOf
<1> QED
  BY <1>1, <1>2

\* However many goroutines renew, probe, import and delete an account, the tokens that a
\* pending UpdateTokens writes are the newest that Clerk issued, and an import that has
\* renewed what it was given saves the newest that anybody holds.
THEOREM TokenWritesAreAlwaysFresh ==
  ASSUME FreshLogins
  PROVE  CredentialSpec => []TokenWritesAreFresh
<1> DEFINE Inv == CredentialInvariant /\ TokensAreOwned
<1>1. CredentialInit => Inv
  BY CredentialInitInvariant, CredentialInitTokens
<1>2. Inv /\ [CredentialNext]_<<poolVars, credentialVars>> => Inv'
  BY CredentialNextInvariant, CredentialNextTokens
<1>3. Inv => TokenWritesAreFresh
  BY OwnedTokensAreFresh
<1> QED
  BY <1>1, <1>2, <1>3, PTL DEF CredentialSpec

-----------------------------------------------------------------------------
(* Whom a probe condemns *)

\* The places where a copy is judged, or about to be on a command's word.
JudgesAt == {"probeRefresh", "probeSave"}

\* Clerk issues more, time passes, and other goroutines write files of their own.
OthersGoOn(c) ==
  /\ \A id \in Ids : issued'[id] \in {issued[id], issued[id] + 1}
  /\ now' \in {now, now + 1}
  /\ \A id \in Ids : home'[id] = home[id] \/ home'[id].by = c

\* None of that takes from what is known of a copy.
LEMMA JudgedStays ==
  ASSUME CredentialInvariant, TokensAreOwned, TokensAreOwned', NEW c, OthersGoOn(c),
         NEW d \in Callers, d # c, work'[d] = work[d], FindsItsCopy(d), HasCause(d)
  PROVE  FindsItsCopy(d)' /\ HasCause(d)'
<1>1. FindsItsCopy(d)'
  <2>1. CASE work[d].run # "none"
    <3>1. PICK id \in Ids : id = work[d].id
      BY <2>1, InHand, RunPlaces
    <3>2. home'[id].by = d => home'[id] = home[id]
      BY <3>1 DEF OthersGoOn
    <3>3. Written(d, work[d].acc)' = Written(d, work[d].acc)
      BY DEF Written
    <3> QED
      BY <3>1, <3>2, <3>3 DEF FindsItsCopy
  <2>2. CASE work[d].run = "none"
    BY <2>2 DEF FindsItsCopy
  <2> QED
    BY <2>1, <2>2
<1>2. HasCause(d)'
  <2>1. CASE work[d].pc \in {"probeRefresh", "probeSave"}
    <3>1. PICK id \in Ids, a \in Account : id = work[d].id /\ a = work[d].acc /\ a \in Copies(d, id)
      BY <2>1, InHand, NoneAssumption DEF WithCopy, Copies
    <3>2. now \in Nat /\ a.rt \in Nat
      BY <3>1, InHand DEF Account
    <3>3. issued[id] \in Nat /\ issued'[id] \in Nat /\ a.rt <= issued[id] /\ issued'[id] <= MaxIssued
             /\ MaxIssued \in Nat
             /\ issued'[id] \in {issued[id], issued[id] + 1}
      BY <3>1, InHand, CredentialsAssumption DEF TokensAreOwned, TokensAreIssued, OthersGoOn
    <3>4. \/ a.rt = 0 \/ a.rt # issued[id] \/ issued[id] = MaxIssued
          \/ TokenExpired(a, now)
          \/ work[d].cause = "foreign"
          \/ work[d].cause = "outage" /\ CommandsFail
      BY <2>1, <3>1 DEF HasCause
    <3>5. TokenExpired(a, now) => TokenExpired(a, now')
      <4>1. now' \in {now, now + 1}
        BY DEF OthersGoOn
      <4> QED
        BY <3>1, <3>2, <4>1, HealthAssumption DEF TokenExpired, Account
    <3>6. \/ a.rt = 0 \/ a.rt # issued'[id] \/ issued'[id] = MaxIssued
          \/ TokenExpired(a, now')
          \/ work[d].cause = "foreign"
          \/ work[d].cause = "outage" /\ CommandsFail
      BY <3>2, <3>3, <3>4, <3>5
    <3> QED
      BY <3>1, <3>6 DEF HasCause
  <2>2. CASE work[d].pc \notin {"probeRefresh", "probeSave"}
    BY <2>2 DEF HasCause
  <2> QED
    BY <2>1, <2>2
<1> QED
  BY <1>1, <1>2

LEMMA JudgedStep ==
  ASSUME CredentialInvariant, TokensAreOwned, TokensAreOwned', CopiesAreJudged,
         NEW c \in Callers, OthersGoOn(c), \A d \in Callers \ {c} : work'[d] = work[d],
         FindsItsCopy(c)', HasCause(c)'
  PROVE  CopiesAreJudged'
<1>1. ASSUME NEW d \in Callers PROVE FindsItsCopy(d)' /\ HasCause(d)'
  <2>1. CASE d = c
    BY <2>1
  <2>2. CASE d # c
    BY <2>2, JudgedStays DEF CopiesAreJudged
  <2> QED
    BY <2>1, <2>2
<1> QED
  BY <1>1 DEF CopiesAreJudged

\* A step that runs nothing and judges nothing.
LEMMA UnjudgedStep ==
  ASSUME CredentialInvariant, TokensAreOwned, TokensAreOwned', CopiesAreJudged,
         NEW c \in Callers, OthersGoOn(c), \A d \in Callers \ {c} : work'[d] = work[d],
         work'[c].run = "none", work'[c].pc \notin JudgesAt
  PROVE  CopiesAreJudged'
<1>1. FindsItsCopy(c)' /\ HasCause(c)'
  BY DEF FindsItsCopy, HasCause, JudgesAt
<1> QED
  BY <1>1, JudgedStep

LEMMA HomeEnsuredBy ==
  ASSUME NEW c \in Callers, NEW id \in Ids, NEW o, home \in [Ids -> CredentialsFile],
         HomeEnsured(c, id, o)
  PROVE  \A k \in Ids : home'[k] = home[k] \/ home'[k].by = c
<1>1. Written(c, o.acc).by = c /\ Broken(c).by = c
  BY DEF Written, Broken
<1>2. \/ home' = home
      \/ home' = [home EXCEPT ![id] = Written(c, o.acc)]
      \/ home' = [home EXCEPT ![id] = Broken(c)]
  BY Zenon DEF HomeEnsured
<1> QED
  BY <1>1, <1>2

\* Who is not running a command does not run one where Then leads.
LEMMA ThenUnjudged ==
  ASSUME NEW c \in Callers, work[c] \in Goroutine, work[c].run = "none",
         NEW pc, pc \notin JudgesAt, NEW a
  PROVE  Then(c, pc, a).run = "none" /\ Then(c, pc, a).pc \notin JudgesAt
<1>1. {"retry", "select", "release", "done", "create", "record"} \intersect JudgesAt = {}
  BY DEF JudgesAt
<1> QED
  BY <1>1, ThenCopy

LEMMA ResumeUnjudged ==
  ASSUME CredentialInvariant, TokensAreOwned, TokensAreOwned', CopiesAreJudged,
         NEW c \in Callers, work[c].run = "none", NEW pc, pc \notin JudgesAt, NEW a,
         work' = [work EXCEPT ![c] = Then(c, pc, a)], OthersGoOn(c)
  PROVE  CopiesAreJudged'
<1> DEFINE t == Then(c, pc, a)
<1>1. t.run = "none" /\ t.pc \notin JudgesAt
  BY InHand, ThenUnjudged
<1>2. work' = [work EXCEPT ![c] = t]
  OBVIOUS
<1> HIDE DEF t
<1>3. work'[c] = t /\ \A d \in Callers \ {c} : work'[d] = work[d]
  BY <1>2, InHand
<1> QED
  BY <1>1, <1>3, UnjudgedStep

\* A goroutine that is not inside CLI.run takes the outcome of a renewal.
LEMMA TakeGoesOn ==
  ASSUME CredentialInvariant, NEW c \in Callers,
         work[c].pc \in WithCopy \ RunsAt,
         NEW o \in EnsureAuth(work[c].acc, issued[work[c].id])
                     \union RefreshAccount(work[c].acc, issued[work[c].id]),
         NEW pc,
         NEW p, p.issued = o.issued, Take(c, p, pc),
         HomeEnsured(c, work[c].id, o) \/ UNCHANGED home
  PROVE  /\ work[c].run = "none" /\ work' = [work EXCEPT ![c] = Then(c, pc, p.acc)]
         /\ OthersGoOn(c)
         /\ issued'[work[c].id] = o.issued
<1>1. PICK id \in Ids, n \in Nat : id = work[c].id /\ n = issued[id]
  BY InHand
<1>2. /\ work[c].acc \in Account /\ now \in Nat /\ issued \in [Ids -> Nat]
      /\ home \in [Ids -> CredentialsFile] /\ work[c].run = "none"
  BY InHand
<1>3. o.issued \in {n, n + 1}
  BY <1>1, <1>2, Ensurings, Renewals
<1>5. /\ issued' = [issued EXCEPT ![id] = o.issued]
      /\ work' = [work EXCEPT ![c] = Then(c, pc, p.acc)]
      /\ now' = now
  BY <1>1 DEF Take, poolVars
<1>6. \A k \in Ids : issued'[k] \in {issued[k], issued[k] + 1}
  BY <1>1, <1>2, <1>3, <1>5
<1>7. \A k \in Ids : home'[k] = home[k] \/ home'[k].by = c
  BY <1>1, <1>2, HomeEnsuredBy
<1>8. OthersGoOn(c)
  BY <1>5, <1>6, <1>7 DEF OthersGoOn
<1> QED
  BY <1>1, <1>2, <1>5, <1>8

LEMMA RefusedExpired ==
  ASSUME NEW a \in Account, NEW why
  PROVE  TokenExpired(Refused(a, why), now) <=> TokenExpired(a, now)
BY DEF Refused, TokenExpired, Account

\* A probe that cannot renew has a cause to condemn its copy: Clerk's refusal is one, and
\* it goes on to condemn a copy that had run out, or that it had a cause to renew again.
LEMMA RefusalJudged ==
  ASSUME CredentialInvariant, TokensAreOwned, CopiesAreJudged, NEW c \in Callers,
         work[c].pc \in WithCopy \ RunsAt,
         NEW o \in EnsureAuth(work[c].acc, issued[work[c].id])
                     \union RefreshAccount(work[c].acc, issued[work[c].id]),
         \/ o.res = "refused"
         \/ TokenExpired(o.acc, now)
         \/ work[c].pc = "probeRefresh" /\ o.acc = work[c].acc,
         Take(c, [o EXCEPT !.acc = Refused(o.acc, o.res)], "probeSave"),
         HomeEnsured(c, work[c].id, o) \/ UNCHANGED home
  PROVE  FindsItsCopy(c)' /\ HasCause(c)'
<1>1. PICK id \in Ids, n \in Nat, a \in Account :
        id = work[c].id /\ n = issued[id] /\ a = work[c].acc
  BY InHand
<1>2. now \in Nat /\ work[c] \in Goroutine /\ work \in [Callers -> Goroutine] /\ n <= MaxIssued
         /\ MaxIssued \in Nat /\ a.rt \in Nat
  BY <1>1, InHand, CredentialsAssumption DEF TokensAreOwned, TokensAreIssued, Account
<1>3. PICK p : p = [o EXCEPT !.acc = Refused(o.acc, o.res)]
  OBVIOUS
<1>4. p.acc = Refused(o.acc, o.res) /\ p.issued = o.issued
  BY <1>3, OutcomeFields
<1>5. /\ work[c].run = "none" /\ work' = [work EXCEPT ![c] = Then(c, "probeSave", p.acc)]
      /\ issued'[id] = o.issued
  <2>1. Take(c, p, "probeSave")
    BY <1>3
  <2> QED
    BY <1>1, <1>4, <2>1, TakeGoesOn
<1> DEFINE t == Then(c, "probeSave", p.acc)
<1>6. work'[c] = t
  BY <1>2, <1>5
<1>7. /\ t.run = "none" /\ t.pc # "probeRefresh"
      /\ t.pc = "probeSave" => t.id = id /\ t.acc = p.acc /\ t.cause = work[c].cause
  BY <1>1, <1>2, <1>5, ThenCopy
<1> HIDE DEF t
<1>8. FindsItsCopy(c)'
  BY <1>6, <1>7 DEF FindsItsCopy
<1>9. /\ o.acc \in Account /\ o.issued \in {n, n + 1}
      /\ o.issued = n + 1 => a.rt = n /\ n # 0 /\ n < MaxIssued
      /\ o.res = "refused"
            => o.acc = a /\ o.issued = n /\ ~(a.rt # 0 /\ a.rt = n /\ n < MaxIssued)
  BY <1>1, <1>2, Ensurings, Renewals
<1>10. p.acc.rt = o.acc.rt /\ (TokenExpired(p.acc, now) <=> TokenExpired(o.acc, now))
  BY <1>4, <1>9, RefusedCopy, RefusedExpired
<1>11. now' = now
  BY <1>3 DEF Take, poolVars
<1>12. CASE t.pc = "probeSave"
  <2>1. CASE o.res = "refused"
    <3>1. /\ p.acc.rt = 0 \/ p.acc.rt # n \/ n = MaxIssued
          /\ issued'[id] = n
      BY <1>2, <1>5, <1>9, <1>10, <2>1
    <3> QED
      BY <1>6, <1>7, <1>8, <1>12, <3>1 DEF HasCause
  <2>2. CASE TokenExpired(o.acc, now)
    BY <1>6, <1>7, <1>8, <1>10, <1>11, <1>12, <2>2 DEF HasCause
  <2>3. CASE work[c].pc = "probeRefresh" /\ o.acc = work[c].acc
    <3>1. \/ a.rt = 0 \/ a.rt # n \/ n = MaxIssued
          \/ TokenExpired(a, now)
          \/ work[c].cause = "foreign"
          \/ work[c].cause = "outage" /\ CommandsFail
      BY <1>1, <2>3 DEF CopiesAreJudged, HasCause
    <3>2. \/ p.acc.rt = 0 \/ p.acc.rt # issued'[id] \/ issued'[id] = MaxIssued
          \/ TokenExpired(p.acc, now)
          \/ t.cause = "foreign"
          \/ t.cause = "outage" /\ CommandsFail
      BY <1>1, <1>2, <1>5, <1>7, <1>9, <1>10, <1>12, <2>3, <3>1
    <3> QED
      BY <1>6, <1>7, <1>8, <1>11, <1>12, <3>2 DEF HasCause
  <2> QED
    BY <2>1, <2>2, <2>3
<1>13. CASE t.pc # "probeSave"
  BY <1>6, <1>7, <1>8, <1>13 DEF HasCause
<1> QED
  BY <1>12, <1>13

\* A command's answer has a cause: the copy's access token has run out, or the command may
\* have found what another goroutine wrote, or something else than the login failed.
LEMMA AnswerJudged ==
  ASSUME CredentialInvariant, CopiesAreJudged, NEW c \in Callers, work[c].run # "none",
         NEW result \in Answers(c), Finish(c, result, work[c].acc), now' = now
  PROVE  FindsItsCopy(c)' /\ HasCause(c)'
<1>1. PICK id \in Ids, a \in Account : id = work[c].id /\ a = work[c].acc
  BY InHand, RunPlaces
<1>2. /\ result \in {"ok", "auth", "other"} /\ work[c].pc \in RunsAt
      /\ a.exp \in Nat /\ a.tok \in Nat /\ now \in Nat
  BY <1>1, InHand, AnswerKinds DEF Account
<1>3. /\ work'[c].run = "none"
      /\ work'[c].cause = Cause(c, result)
      /\ work'[c].pc = "probeRefresh"
            => work[c].pc = "probeStatus" /\ result = "auth" /\ work'[c].acc = a
      /\ work'[c].pc = "probeSave"
            => /\ work[c].pc = "probeStatusAgain" /\ result # "ok"
               /\ work'[c].acc = Refused(a, result)
  BY <1>1, <1>2, FinishCopy
<1>4. FindsItsCopy(c)'
  BY <1>3 DEF FindsItsCopy
<1>5. CASE work'[c].pc \in {"probeRefresh", "probeSave"}
  <2>1. CASE Foreign(c)
    <3>1. work'[c].cause = "foreign"
      BY <1>2, <1>3, <1>5, <2>1 DEF Cause
    <3> QED
      BY <1>4, <3>1 DEF HasCause
  <2>2. CASE ~Foreign(c)
    <3>1. home[id].tok = a.tok /\ home[id].exp = a.exp
      <4>1. home[id] = Written(c, a)
        BY <1>1, <2>2 DEF CopiesAreJudged, FindsItsCopy, Foreign
      <4> QED
        BY <4>1 DEF Written
    <3>2. TokenExpired(work'[c].acc, now) <=> TokenExpired(a, now)
      BY <1>1, <1>3, <1>5, RefusedExpired
    <3>3. CASE result = "auth"
      <4>1. a.tok = 0 \/ ~(a.exp = 0 \/ now < a.exp)
        BY <1>1, <2>2, <3>1, <3>3 DEF Answers, Foreign
      <4>2. TokenExpired(a, now)
        BY <1>2, <4>1, HealthAssumption DEF TokenExpired
      <4> QED
        BY <1>4, <3>2, <4>2 DEF HasCause
    <3>4. CASE result = "other"
      <4>1. work'[c].cause = "outage"
        BY <1>3, <1>5, <2>2, <3>4 DEF Cause
      <4>2. CommandsFail \/ a.tok = 0
        BY <1>1, <2>2, <3>1, <3>4 DEF Answers, Foreign
      <4>3. a.tok = 0 => TokenExpired(a, now)
        BY DEF TokenExpired
      <4> QED
        BY <1>4, <3>2, <4>1, <4>2, <4>3 DEF HasCause
    <3> QED
      BY <1>2, <1>3, <1>5, <3>3, <3>4
  <2> QED
    BY <2>1, <2>2
<1>6. CASE work'[c].pc \notin {"probeRefresh", "probeSave"}
  BY <1>4, <1>6 DEF HasCause
<1> QED
  BY <1>5, <1>6

\* A run that goes on has just written the goroutine's copy into the home.
LEMMA RunGoesOn ==
  ASSUME CredentialInvariant, NEW c \in Callers, work[c].pc \in RunsAt,
         NEW run, NEW a \in Account,
         work' = [work EXCEPT ![c].run = run, ![c].acc = a],
         home' = [home EXCEPT ![work[c].id] = Written(c, a)]
  PROVE  FindsItsCopy(c)' /\ HasCause(c)'
<1>1. /\ work[c] \in Goroutine /\ work[c].id \in Ids /\ work \in [Callers -> Goroutine]
      /\ home \in [Ids -> CredentialsFile]
  BY InHand, RunPlaces
<1>2. work'[c] = [work[c] EXCEPT !.run = run, !.acc = a]
  BY <1>1
<1>3. work'[c].pc = work[c].pc /\ work'[c].id = work[c].id /\ work'[c].acc = a
  BY <1>1, <1>2 DEF Goroutine
<1>4. home'[work'[c].id] = Written(c, work'[c].acc)
  BY <1>1, <1>3
<1>5. Written(c, work[c].acc)' = Written(c, work'[c].acc)
  BY DEF Written
<1>6. {"probeRefresh", "probeSave"} \intersect RunsAt = {}
  BY DEF RunsAt
<1> QED
  BY <1>3, <1>4, <1>5, <1>6 DEF FindsItsCopy, HasCause

LEMMA RunJudged ==
  ASSUME CredentialInvariant, TokensAreOwned, TokensAreOwned', CopiesAreJudged,
         NEW c \in Callers, Run(c)
  PROVE  CopiesAreJudged'
<1>1. work[c].pc \in RunsAt /\ call[c] = NoCall /\ now' = now
  BY InHand DEF Run, PrepareRun, CommandEnds, CommandRetries, RetryEnds, poolVars
<1>2. PICK id \in Ids, n \in Nat, a \in Account :
        id = work[c].id /\ n = issued[id] /\ a = work[c].acc
  BY <1>1, InHand, RunPlaces
<1>3. /\ work[c] \in Goroutine /\ now \in Nat /\ work \in [Callers -> Goroutine]
      /\ issued \in [Ids -> Nat] /\ home \in [Ids -> CredentialsFile]
  BY InHand
\* Whatever the step, it leaves the others alone, and its own copy judged.
<1>4. ASSUME NEW m, m \in {n, n + 1}, issued' = [issued EXCEPT ![id] = m] \/ issued' = issued,
             \/ home' = home
             \/ \E file : home' = [home EXCEPT ![id] = file] /\ file.by = c,
             \A d \in Callers \ {c} : work'[d] = work[d],
             FindsItsCopy(c)', HasCause(c)'
      PROVE  CopiesAreJudged'
  <2>1. \A k \in Ids : issued'[k] \in {issued[k], issued[k] + 1}
    BY <1>2, <1>3, <1>4
  <2>2. \A k \in Ids : home'[k] = home[k] \/ home'[k].by = c
    BY <1>3, <1>4
  <2>3. OthersGoOn(c)
    BY <1>1, <2>1, <2>2 DEF OthersGoOn
  <2> QED
    BY <1>4, <2>3, JudgedStep
<1>5. ASSUME NEW b, Written(c, b).by # c \/ Broken(c).by # c PROVE FALSE
  BY <1>5 DEF Written, Broken
<1>6. ASSUME NEW run, NEW b, work' = [work EXCEPT ![c].run = run, ![c].acc = b]
      PROVE  \A d \in Callers \ {c} : work'[d] = work[d]
  BY <1>3, <1>6
\* A run that ends because the file cannot be written ends for no fault of the login's.
<1>7. ASSUME NEW b \in Account, Finish(c, "other", b), work[c].run = "none", CommandsFail
      PROVE  FindsItsCopy(c)' /\ HasCause(c)'
  <2>1. /\ work'[c].run = "none"
        /\ work'[c].cause = Cause(c, "other")
        /\ work'[c].pc # "probeRefresh"
        /\ work'[c].pc = "probeSave" => work[c].pc = "probeStatusAgain"
    BY <1>1, <1>7, FinishCopy
  <2>2. work'[c].pc = "probeSave" => work'[c].cause = "outage"
    BY <1>7, <2>1 DEF Cause
  <2> QED
    BY <1>7, <2>1, <2>2 DEF FindsItsCopy, HasCause
<1>8. CASE PrepareRun(c)
  <2>1. PICK o \in EnsureAuth(a, n) :
          /\ issued' = [issued EXCEPT ![id] = o.issued]
          /\ \/ /\ home' = [home EXCEPT ![id] = Written(c, o.acc)]
                /\ work' = [work EXCEPT ![c].run = "first", ![c].acc = o.acc]
             \/ /\ CommandsFail /\ home' = [home EXCEPT ![id] = Broken(c)]
                /\ Finish(c, "other", o.acc)
    BY <1>2, <1>8 DEF PrepareRun
  <2>2. o.acc \in Account /\ o.issued \in {n, n + 1} /\ work[c].run = "none"
    BY <1>3, <1>8, Ensurings DEF PrepareRun
  <2>3. CASE /\ home' = [home EXCEPT ![id] = Written(c, o.acc)]
             /\ work' = [work EXCEPT ![c].run = "first", ![c].acc = o.acc]
    <3>1. FindsItsCopy(c)' /\ HasCause(c)'
      BY <1>1, <1>2, <2>2, <2>3, RunGoesOn
    <3> QED
      BY <1>4, <1>5, <1>6, <2>1, <2>2, <2>3, <3>1
  <2>4. CASE CommandsFail /\ home' = [home EXCEPT ![id] = Broken(c)] /\ Finish(c, "other", o.acc)
    BY <1>1, <1>4, <1>5, <1>7, <2>1, <2>2, <2>4, FinishCopy
  <2> QED
    BY <2>1, <2>3, <2>4
<1>9. CASE CommandRetries(c)
  <2>1. PICK o \in RefreshAccount(a, n) :
          /\ issued' = [issued EXCEPT ![id] = o.issued]
          /\ IF o.res = "ok"
             THEN /\ home' = [home EXCEPT ![id] = Written(c, o.acc)]
                  /\ work' = [work EXCEPT ![c].run = "again", ![c].acc = o.acc]
             ELSE Finish(c, "auth", o.acc) /\ UNCHANGED home
    BY <1>2, <1>9 DEF CommandRetries
  <2>2. o.acc \in Account /\ o.issued \in {n, n + 1}
           /\ (o.res # "ok" => o.acc = a)
    BY <1>3, Renewals
  <2>3. CASE o.res = "ok"
    <3>1. FindsItsCopy(c)' /\ HasCause(c)'
      BY <1>1, <1>2, <2>1, <2>2, <2>3, RunGoesOn
    <3> QED
      BY <1>4, <1>5, <1>6, <2>1, <2>2, <2>3, <3>1
  <2>4. CASE o.res # "ok"
    <3>1. Finish(c, "auth", a) /\ "auth" \in Answers(c) /\ work[c].run # "none"
      BY <1>9, <2>1, <2>2, <2>4 DEF CommandRetries
    <3>2. FindsItsCopy(c)' /\ HasCause(c)'
      BY <1>1, <1>2, <3>1, AnswerJudged
    <3> QED
      BY <1>1, <1>4, <2>1, <2>2, <2>4, <3>1, <3>2, FinishCopy
  <2> QED
    BY <2>3, <2>4
<1>10. CASE CommandEnds(c) \/ RetryEnds(c)
  <2>1. PICK result \in Answers(c) : Finish(c, result, a)
    BY <1>2, <1>10 DEF CommandEnds, RetryEnds
  <2>2. work[c].run # "none" /\ UNCHANGED <<issued, home>>
    BY <1>10 DEF CommandEnds, RetryEnds
  <2>3. FindsItsCopy(c)' /\ HasCause(c)'
    BY <1>1, <1>2, <2>1, <2>2, AnswerJudged
  <2>4. \A d \in Callers \ {c} : work'[d] = work[d]
    BY <1>1, <2>1, AnswerKinds, FinishCopy
  <2> QED
    BY <1>4, <2>2, <2>3, <2>4
<1> QED
  BY <1>8, <1>9, <1>10 DEF Run

\* The other steps: what is unjudged stays so, and saving tokens keeps the copy.
LEMMA SaveTokensJudged ==
  ASSUME CredentialInvariant, TokensAreOwned, TokensAreOwned', CopiesAreJudged,
         NEW c \in Callers, NEW from \in SavesAt, NEW to, to \notin {"probeRefresh", "probeSave"},
         SaveTokens(c, from, to)
  PROVE  CopiesAreJudged'
<1>1. work[c].run = "none"
  <2>1. from \notin RunsAt
    BY DEF SavesAt, RunsAt
  <2> QED
    BY <2>1, InHand DEF SaveTokens, At
<1>2. /\ work' = [work EXCEPT ![c] = Then(c, to, work[c].acc)]
      /\ UNCHANGED <<issued, home, now>>
  BY DEF SaveTokens, Goto, IfStored, UpdateTokens, Read, poolVars
<1>3. OthersGoOn(c) /\ to \notin JudgesAt
  BY <1>2 DEF OthersGoOn, JudgesAt
<1> QED
  BY <1>1, <1>2, <1>3, ResumeUnjudged

LEMMA RenewsJudged ==
  ASSUME CredentialInvariant, TokensAreOwned, TokensAreOwned', CopiesAreJudged,
         NEW c \in Callers,
         Authenticate(c) \/ StatusRefresh(c) \/ ProbeAuth(c) \/ ProbeRefresh(c) \/ ImportAuth(c)
  PROVE  CopiesAreJudged'
<1>1. /\ {"auth", "statusRefresh", "probe", "probeRefresh", "import"} \subseteq WithCopy \ RunsAt
      /\ {"authTokens", "status", "statusTokens", "return", "probeTokens", "probeStatus", "done",
          "probeTokensAgain", "importList", "importSelect"} \intersect JudgesAt = {}
  BY DEF WithCopy, RunsAt, JudgesAt
<1> DEFINE Outcomes == EnsureAuth(work[c].acc, issued[work[c].id])
                         \union RefreshAccount(work[c].acc, issued[work[c].id])
<1>2. ASSUME NEW o \in Outcomes, NEW pc, pc \notin JudgesAt, Take(c, o, pc),
             HomeEnsured(c, work[c].id, o) \/ UNCHANGED home,
             work[c].pc \in {"auth", "statusRefresh", "probe", "probeRefresh", "import"}
      PROVE  CopiesAreJudged'
  BY <1>1, <1>2, TakeGoesOn, ResumeUnjudged
<1>3. ASSUME NEW o \in Outcomes, Take(c, [o EXCEPT !.acc = Refused(o.acc, o.res)], "probeSave"),
             \/ o.res = "refused"
             \/ TokenExpired(o.acc, now)
             \/ work[c].pc = "probeRefresh" /\ o.acc = work[c].acc,
             HomeEnsured(c, work[c].id, o) \/ UNCHANGED home,
             work[c].pc \in {"auth", "statusRefresh", "probe", "probeRefresh", "import"}
      PROVE  CopiesAreJudged'
  <2>1. FindsItsCopy(c)' /\ HasCause(c)'
    BY <1>1, <1>3, RefusalJudged
  <2>2. PICK p : p = [o EXCEPT !.acc = Refused(o.acc, o.res)]
    OBVIOUS
  <2>3. p.issued = o.issued /\ Take(c, p, "probeSave")
    BY <1>3, <2>2, OutcomeFields
  <2>4. OthersGoOn(c) /\ \A d \in Callers \ {c} : work'[d] = work[d]
    BY <1>1, <1>3, <2>3, InHand, TakeGoesOn
  <2> QED
    BY <2>1, <2>4, JudgedStep
<1>4. ASSUME NEW o \in EnsureAuth(work[c].acc, issued[work[c].id])
                \union RefreshAccount(work[c].acc, issued[work[c].id])
      PROVE  o \in Outcomes
  BY <1>4
<1> HIDE DEF Outcomes
<1>5. CASE Authenticate(c)
  <2>1. PICK o \in EnsureAuth(work[c].acc, issued[work[c].id]) :
          /\ Take(c, o, IF o.res = "ok" THEN "authTokens" ELSE "status")
          /\ HomeEnsured(c, work[c].id, o)
    BY <1>5 DEF Authenticate
  <2> QED
    BY <1>1, <1>2, <1>4, <1>5, <2>1 DEF Authenticate, At
<1>6. CASE StatusRefresh(c)
  <2>1. PICK o \in RefreshAccount(work[c].acc, issued[work[c].id]) :
          Take(c, o, IF o.res = "ok" THEN "statusTokens" ELSE "return") /\ UNCHANGED home
    BY <1>6 DEF StatusRefresh
  <2> QED
    BY <1>1, <1>2, <1>4, <1>6, <2>1 DEF StatusRefresh, At
<1>7. CASE ProbeAuth(c)
  <2>1. PICK o \in EnsureAuth(work[c].acc, issued[work[c].id]) :
          /\ \/ \E pc \in {"probeTokens", "probeStatus", "done"} : Take(c, o, pc)
             \/ /\ Take(c, [o EXCEPT !.acc = Refused(o.acc, o.res)], "probeSave")
                /\ o.res = "refused" \/ TokenExpired(o.acc, now)
          /\ HomeEnsured(c, work[c].id, o)
    BY <1>7, Zenon DEF ProbeAuth
  <2> QED
    BY <1>1, <1>2, <1>3, <1>4, <1>7, <2>1 DEF ProbeAuth, At
<1>8. CASE ImportAuth(c)
  <2>1. PICK o \in EnsureAuth(work[c].acc, issued[work[c].id]), pc \in {"importList", "importSelect"} :
          Take(c, o, pc) /\ HomeEnsured(c, work[c].id, o)
    BY <1>8 DEF ImportAuth
  <2> QED
    BY <1>1, <1>2, <1>4, <1>8, <2>1 DEF ImportAuth, At
<1>9. CASE ProbeRefresh(c)
  <2>1. PICK o \in RefreshAccount(work[c].acc, issued[work[c].id]) :
          /\ IF o.res = "ok" THEN Take(c, o, "probeTokensAgain")
             ELSE Take(c, [o EXCEPT !.acc = Refused(o.acc, o.res)], "probeSave")
          /\ UNCHANGED home
    BY <1>9 DEF ProbeRefresh
  <2>2. work[c].pc = "probeRefresh"
    BY <1>9 DEF ProbeRefresh, At
  <2>3. CASE o.res = "ok"
    BY <1>1, <1>2, <1>4, <2>1, <2>2, <2>3
  <2>4. CASE o.res # "ok"
    <3>1. o.acc = work[c].acc
      <4>1. work[c].acc \in Account /\ issued[work[c].id] \in Nat /\ now \in Nat
        BY <1>1, <2>2, InHand
      <4> QED
        BY <2>4, <4>1, Renewals
    <3> QED
      BY <1>3, <1>4, <2>1, <2>2, <2>4, <3>1
  <2> QED
    BY <2>3, <2>4
<1> QED
  BY <1>5, <1>6, <1>7, <1>8, <1>9

\* Steps that save a balance or a copy, or end without one.
LEMMA SavesJudged ==
  ASSUME CredentialInvariant, TokensAreOwned, TokensAreOwned', CopiesAreJudged,
         NEW c \in Callers,
         \/ SaveCredits(c, "credits", "return") \/ SaveCredits(c, "probeCredits", "probeValid")
         \/ SaveCopy(c, "probeSave") \/ SaveCopy(c, "importSave")
         \/ ProbeValid(c) \/ Switch(c)
  PROVE  CopiesAreJudged'
<1>1. /\ {"return", "probeValid", "done"} \intersect JudgesAt = {}
      /\ {"credits", "probeCredits", "probeSave", "importSave", "probeValid", "idle"}
            \intersect RunsAt = {}
  BY DEF JudgesAt, RunsAt
<1>2. work[c].pc \in {"credits", "probeCredits", "probeSave", "importSave", "probeValid", "idle"}
  BY DEF SaveCredits, SaveCopy, ProbeValid, Switch, At
<1>3. work[c].run = "none"
  BY <1>1, <1>2, InHand
<1>4. \E pc \in {"return", "probeValid", "done"} : \E a : work' = [work EXCEPT ![c] = Then(c, pc, a)]
  BY DEF SaveCredits, SaveCopy, ProbeValid, Switch, Goto
<1>5. UNCHANGED <<issued, home, now>>
  BY DEF SaveCredits, SaveCopy, ProbeValid, Switch, Goto, IfStored, UpdateCredits, ProbeSucceeds,
     SetDisabled, Delete, Read, Save, poolVars
<1>6. OthersGoOn(c)
  BY <1>5 DEF OthersGoOn
<1> QED
  BY <1>1, <1>3, <1>4, <1>6, ResumeUnjudged

LEMMA StartsJudged ==
  ASSUME CredentialInvariant, TokensAreOwned, TokensAreOwned', CopiesAreJudged,
         NEW c \in Callers,
         \/ \E id \in Ids : \/ StartKeeper(c, id) \/ StartProbe(c, id)
                            \/ StartImport(c, id) \/ StartImportCLI(c, id)
         \/ EndSweep(c) \/ RemoveHome(c)
  PROVE  CopiesAreJudged'
<1>1. {"auth", "probe", "import", "importList", "importStatus", "idle", "done"} \intersect JudgesAt = {}
  BY DEF JudgesAt
<1>2. \/ \E pc \in {"auth", "probe", "import", "importList", "importStatus"} : \E id, a :
            work' = [work EXCEPT ![c] = Starting(pc, id, a)]
      \/ work' = [work EXCEPT ![c] = Idle]
      \/ work' = [work EXCEPT ![c] = Done]
  BY DEF StartKeeper, StartProbe, StartImport, StartImportCLI, EndSweep, RemoveHome
<1>3. /\ \A pc, id, a : Starting(pc, id, a).pc = pc /\ Starting(pc, id, a).run = "none"
      /\ Idle.pc = "idle" /\ Idle.run = "none" /\ Done.pc = "done" /\ Done.run = "none"
  BY DEF Starting, Idle, Done
<1>4. \E w : work' = [work EXCEPT ![c] = w] /\ w.run = "none" /\ w.pc \notin JudgesAt
  BY <1>1, <1>2, <1>3
<1>5. work'[c].run = "none" /\ work'[c].pc \notin JudgesAt /\ \A d \in Callers \ {c} : work'[d] = work[d]
  BY <1>4, InHand
<1>6. UNCHANGED <<issued, now>>
  BY DEF StartKeeper, StartProbe, StartImport, StartImportCLI, EndSweep, RemoveHome, poolVars
<1>7. \A k \in Ids : home'[k] = home[k] \/ home'[k].by = c
  <2>1. \/ UNCHANGED home
        \/ \E id, a : home' = [home EXCEPT ![id] = Written(c, a)]
        \/ \E id : home' = [home EXCEPT ![id] = Broken(c)]
    BY DEF StartKeeper, StartProbe, StartImport, StartImportCLI, EndSweep, RemoveHome, CopyCLIHome
  <2>2. \A a : Written(c, a).by = c /\ Broken(c).by = c
    BY DEF Written, Broken
  <2> QED
    BY <2>1, <2>2, InHand
<1>8. OthersGoOn(c)
  BY <1>6, <1>7 DEF OthersGoOn
<1> QED
  BY <1>5, <1>8, UnjudgedStep

LEMMA SweepJudged ==
  ASSUME CredentialInvariant, TokensAreOwned, TokensAreOwned', CopiesAreJudged,
         NEW c \in Refreshers, StartSweep(c) \/ \E id \in Ids : SweepAccount(c, id)
  PROVE  CopiesAreJudged'
<1>1. /\ c \in Callers /\ now' = now /\ now \in Nat /\ work[c] \in Goroutine
      /\ work[c].pc \in {"idle", "sweep"} /\ work \in [Callers -> Goroutine]
  BY CredentialsAssumption, InHand DEF StartSweep, SweepAccount, At, poolVars
<1>2. work[c].run = "none" /\ {"sweep", "sweepTokens"} \intersect JudgesAt = {}
  BY <1>1, InHand DEF RunsAt, JudgesAt
<1>3. CASE StartSweep(c)
  <2>1. /\ work'[c].pc = "sweep" /\ work'[c].run = "none"
        /\ \A d \in Callers \ {c} : work'[d] = work[d]
    BY <1>1, <1>2, <1>3 DEF StartSweep, Goroutine
  <2>2. OthersGoOn(c)
    BY <1>1, <1>3 DEF StartSweep, OthersGoOn
  <2> QED
    BY <1>1, <1>2, <2>1, <2>2, UnjudgedStep
<1>4. ASSUME NEW id \in Ids, SweepAccount(c, id) PROVE CopiesAreJudged'
  <2>1. PICK a, n : a = sweep[c][id] /\ n = issued[id] /\ n \in Nat
    BY <1>1, InHand
  <2>2. a \in Account /\ issued \in [Ids -> Nat] /\ home \in [Ids -> CredentialsFile]
    BY <1>1, <1>4, <2>1, InHand DEF SweepAccount, Present
  <2>3. CASE UNCHANGED <<issued, work, home>>
    <3>1. OthersGoOn(c)
      BY <1>1, <2>3 DEF OthersGoOn
    <3>2. work[c].pc = "sweep"
      BY <1>4 DEF SweepAccount, At
    <3> QED
      BY <1>1, <1>2, <2>3, <3>1, <3>2, UnjudgedStep
  <2>4. ASSUME NEW o \in EnsureAuth(a, n),
               issued' = [issued EXCEPT ![id] = o.issued], HomeEnsured(c, id, o),
               work' = [work EXCEPT ![c] = IF o.res = "ok" THEN Starting("sweepTokens", id, o.acc)
                                           ELSE Starting("sweep", NoAccount, NoAccount)]
        PROVE  CopiesAreJudged'
    <3>1. o.issued \in {n, n + 1}
      BY <1>1, <2>1, <2>2, Ensurings
    <3>2. \A k \in Ids : issued'[k] \in {issued[k], issued[k] + 1}
      BY <2>1, <2>2, <2>4, <3>1
    <3>3. \A k \in Ids : home'[k] = home[k] \/ home'[k].by = c
      BY <1>1, <2>2, <2>4, HomeEnsuredBy
    <3>4. OthersGoOn(c)
      BY <1>1, <3>2, <3>3 DEF OthersGoOn
    <3>5. \A pc, k, b : Starting(pc, k, b).pc = pc /\ Starting(pc, k, b).run = "none"
      BY DEF Starting, Idle
    <3>6. \E w : work' = [work EXCEPT ![c] = w] /\ w.run = "none" /\ w.pc \notin JudgesAt
      <4>1. PICK pc \in {"sweep", "sweepTokens"} :
              \E k, b : work' = [work EXCEPT ![c] = Starting(pc, k, b)]
        BY <2>4, Zenon
      <4>2. PICK w : \E k, b : w = Starting(pc, k, b) /\ work' = [work EXCEPT ![c] = w]
        BY <4>1
      <4>3. w.pc = pc /\ w.run = "none" /\ work' = [work EXCEPT ![c] = w]
        BY <3>5, <4>2
      <4> QED
        BY <1>2, <4>3
    <3>7. work'[c].run = "none" /\ work'[c].pc \notin JudgesAt
             /\ \A d \in Callers \ {c} : work'[d] = work[d]
      BY <1>1, <3>6
    <3> QED
      BY <1>1, <3>4, <3>7, UnjudgedStep
  <2> QED
    BY <1>4, <2>1, <2>3, <2>4 DEF SweepAccount
<1> QED
  BY <1>3, <1>4

\* Writes, the clock and a restart.
LEMMA PoolStepJudged ==
  ASSUME CredentialInvariant, CredentialInvariant', TokensAreOwned, TokensAreOwned',
         CopiesAreJudged,
         \/ PoolStep \/ RestartServer \/ UNCHANGED <<poolVars, credentialVars>>
         \/ \E c \in Callers : DeleteAccount(c)
  PROVE  CopiesAreJudged'
<1>1. CASE RestartServer
  <2>1. ASSUME NEW c \in Callers PROVE work'[c].run = "none" /\ work'[c].pc \notin JudgesAt
    BY <1>1 DEF RestartServer, Idle, Done, JudgesAt
  <2> QED
    BY <2>1 DEF CopiesAreJudged, FindsItsCopy, HasCause, JudgesAt
<1>2. CASE PoolStep \/ UNCHANGED <<poolVars, credentialVars>>
  <2>1. UNCHANGED <<issued, work, home>> /\ now' \in {now, now + 1}
    BY <1>2 DEF PoolStep, Write, Tick, poolVars, credentialVars
  <2>2. PICK c : c \notin Callers
    BY NoSetContainsEverything
  <2>3. OthersGoOn(c)
    BY <2>1 DEF OthersGoOn
  <2>4. ASSUME NEW d \in Callers PROVE FindsItsCopy(d)' /\ HasCause(d)'
    BY <2>1, <2>2, <2>3, JudgedStays DEF CopiesAreJudged
  <2> QED
    BY <2>4 DEF CopiesAreJudged
<1>3. ASSUME NEW c \in Callers, DeleteAccount(c) PROVE CopiesAreJudged'
  <2>1. UNCHANGED <<issued, home, now>>
    BY <1>3 DEF DeleteAccount, Write
  <2>2. OthersGoOn(c)
    BY <2>1 DEF OthersGoOn
  <2>3. CASE work' = work
    <3>1. \A d \in Callers : FindsItsCopy(d)' /\ HasCause(d)'
      BY <2>1, <2>3 DEF CopiesAreJudged, FindsItsCopy, HasCause, Written
    <3> QED
      BY <3>1 DEF CopiesAreJudged
  <2>4. CASE work' = [work EXCEPT ![c] = Starting("removeHome", call[c].id, NoAccount)]
    <3>1. \A pc, k, b : Starting(pc, k, b).pc = pc /\ Starting(pc, k, b).run = "none"
      BY DEF Starting, Idle
    <3>2. work'[c].run = "none" /\ work'[c].pc \notin JudgesAt
             /\ \A d \in Callers \ {c} : work'[d] = work[d]
      BY <1>3, <2>4, <3>1, InHand DEF JudgesAt
    <3> QED
      BY <1>3, <2>2, <3>2, UnjudgedStep
  <2> QED
    BY <1>3, <2>3, <2>4 DEF DeleteAccount
<1> QED
  BY <1>1, <1>2, <1>3

LEMMA CredentialNextJudged ==
  ASSUME CredentialInvariant, CredentialInvariant', TokensAreOwned, TokensAreOwned',
         CopiesAreJudged, [CredentialNext]_<<poolVars, credentialVars>>
  PROVE  CopiesAreJudged'
<1>1. Refreshers \union Keepers \union Probers \union Importers \union Consoles \subseteq Callers
  BY CredentialsAssumption
<1>2. {"authTokens", "statusTokens", "sweepTokens", "probeTokens", "probeTokensAgain"} \subseteq SavesAt
  BY DEF SavesAt
<1>3. ASSUME NEW c \in Callers, KeeperStep(c) PROVE CopiesAreJudged'
  BY <1>2, <1>3, StartsJudged, RenewsJudged, SaveTokensJudged, SavesJudged, RunJudged
     DEF KeeperStep, PrepareAccount
<1>4. ASSUME NEW c \in Refreshers, RefresherStep(c) PROVE CopiesAreJudged'
  BY <1>1, <1>2, <1>4, StartsJudged, SweepJudged, SaveTokensJudged DEF RefresherStep
<1>5. ASSUME NEW c \in Callers, ProberStep(c) PROVE CopiesAreJudged'
  BY <1>2, <1>5, StartsJudged, RenewsJudged, SaveTokensJudged, SavesJudged, RunJudged
     DEF ProberStep
<1>6. ASSUME NEW c \in Callers, ImporterStep(c) PROVE CopiesAreJudged'
  BY <1>6, StartsJudged, RenewsJudged, SavesJudged, RunJudged DEF ImporterStep
<1>7. ASSUME NEW c \in Callers, ConsoleStep(c) PROVE CopiesAreJudged'
  BY <1>7, StartsJudged, SavesJudged, PoolStepJudged DEF ConsoleStep
<1> QED
  BY <1>1, <1>3, <1>4, <1>5, <1>6, <1>7, PoolStepJudged DEF CredentialNext

\* Whoever else is at work, a probe saves a login as lost only if its refresh token is
\* dead or its access token has run out, or if its own command failed for another reason
\* or may have read what another goroutine put into the home.
THEOREM ProbesCondemnForCause ==
  ASSUME FreshLogins
  PROVE  CredentialSpec => []CondemnedForCause
<1> DEFINE Inv == CredentialInvariant /\ TokensAreOwned /\ CopiesAreJudged
<1>1. CredentialInit => Inv
  <2>1. CredentialInit => \A c \in Callers : work[c].pc = "idle" /\ work[c].run = "none"
    BY DEF CredentialInit, Idle
  <2>2. CredentialInit => CopiesAreJudged
    BY <2>1 DEF CopiesAreJudged, FindsItsCopy, HasCause
  <2> QED
    BY <2>2, CredentialInitInvariant, CredentialInitTokens
<1>2. Inv /\ [CredentialNext]_<<poolVars, credentialVars>> => Inv'
  BY CredentialNextInvariant, CredentialNextTokens, CredentialNextJudged
<1>3. Inv => CondemnedForCause
  BY CredentialsAssumption DEF CopiesAreJudged, CondemnedForCause
<1> QED
  BY <1>1, <1>2, <1>3, PTL DEF CredentialSpec

-----------------------------------------------------------------------------
(* Whether the newest tokens are saved *)

\* The background refresher alone, in a server that is not stopped: no poll, probe or
\* import renews a copy of its own, and no switch writes a record that it read before.
RefresherAlone == Keepers \union Probers \union Importers \union Consoles = {} /\ "Restart" \notin Calls

\* Clerk's answers arrive, and the credentials file can be written.
NothingFails == LosesAnswers = FALSE /\ CommandsFail = FALSE

\* The newest tokens of a stored login are on disk, or in the hands of the refresher that
\* is about to save them, or being written.
Saving(c, id) ==
  \/ work[c].pc = "sweepTokens" /\ work[c].id = id
  \/ call[c] # NoCall /\ call[c].id = id

NewestSavedOrInHand ==
  /\ \A c \in Callers : call[c] # NoCall => call[c].op = "UpdateTokens"
  /\ \A id \in Ids :
       (disk[id] # NoAccount /\ disk[id].rt # 0)
         => disk[id].rt = issued[id] \/ \E c \in Callers : Saving(c, id)

\* If nothing fails, Clerk issues tokens only to a copy that is handed on as renewed.
LEMMA RenewalsArrive ==
  ASSUME NothingFails, NEW a, NEW n, NEW o \in EnsureAuth(a, n)
  PROVE  o.res = "ok" \/ o.issued = n
<1>1. ASSUME NEW r \in RefreshAccount(a, n) PROVE r.res = "ok" \/ r.issued = n
  BY DEF RefreshAccount, NothingFails
<1>2. ~CommandsFail
  BY DEF NothingFails
<1>3. o \in RefreshAccount(a, n) \/ o = [acc |-> a, issued |-> n, res |-> "unchanged"]
  BY <1>2, Zenon DEF EnsureAuth
<1> QED
  BY <1>1, <1>3

\* A step of c that leaves disk and issued as they are, and c still saving what it saved.
LEMMA StillSaving ==
  ASSUME CredentialInvariant, NewestSavedOrInHand, NEW c \in Callers, UNCHANGED <<disk, issued>>,
         \A d \in Callers \ {c} : work'[d] = work[d] /\ call'[d] = call[d],
         \A id \in Ids : Saving(c, id) /\ disk[id] # NoAccount => Saving(c, id)',
         call'[c] # NoCall => call'[c].op = "UpdateTokens"
  PROVE  NewestSavedOrInHand'
<1>1. \A d \in Callers \ {c} : \A id \in Ids : Saving(d, id) => Saving(d, id)'
  BY DEF Saving
<1> QED
  BY <1>1 DEF NewestSavedOrInHand

LEMMA RefresherSaves ==
  ASSUME NothingFails, CredentialInvariant, NewestSavedOrInHand,
         NEW c \in Refreshers, RefresherStep(c)
  PROVE  NewestSavedOrInHand'
<1>1. c \in Callers /\ call[c] = NoCall
  BY CredentialsAssumption DEF RefresherStep, StartSweep, SweepAccount, SaveTokens, EndSweep, At
<1>2. CASE StartSweep(c) \/ EndSweep(c)
  <2>1. UNCHANGED <<disk, issued, call>> /\ work[c].pc # "sweepTokens"
    BY <1>2 DEF StartSweep, EndSweep, At, poolVars
  <2>2. \A d \in Callers \ {c} : work'[d] = work[d]
    BY <1>1, <1>2, InHand DEF StartSweep, EndSweep
  <2>3. \A id \in Ids : ~Saving(c, id)
    BY <1>1, <2>1 DEF Saving
  <2> QED
    BY <1>1, <2>1, <2>2, <2>3, StillSaving
<1>3. ASSUME NEW id \in Ids, SweepAccount(c, id) PROVE NewestSavedOrInHand'
  <2>1. UNCHANGED <<disk, call>> /\ work[c].pc # "sweepTokens"
    BY <1>3 DEF SweepAccount, At, poolVars
  <2>2. \A k \in Ids : ~Saving(c, k)
    BY <1>1, <2>1 DEF Saving
  <2>3. CASE UNCHANGED <<issued, work>>
    BY <1>1, <2>1, <2>2, <2>3, StillSaving
  <2>4. ASSUME NEW o \in EnsureAuth(sweep[c][id], issued[id]),
               issued' = [issued EXCEPT ![id] = o.issued],
               work' = [work EXCEPT ![c] = IF o.res = "ok" THEN Starting("sweepTokens", id, o.acc)
                                           ELSE Starting("sweep", NoAccount, NoAccount)]
        PROVE  NewestSavedOrInHand'
    <3>1. /\ \A d \in Callers \ {c} : work'[d] = work[d]
          /\ o.res = "ok" => work'[c].pc = "sweepTokens" /\ work'[c].id = id
      BY <1>1, <2>4, InHand, StartingFields
    <3>2. \A k \in Ids : issued'[k] = IF k = id THEN o.issued ELSE issued[k]
      BY <1>1, <2>4, InHand
    <3>3. CASE o.res = "ok"
      <4>1. Saving(c, id)'
        BY <3>1, <3>3 DEF Saving
      <4>2. \A d \in Callers : \A k \in Ids : Saving(d, k) => Saving(d, k)'
        BY <2>1, <2>2, <3>1 DEF Saving
      <4>3. \A k \in Ids \ {id} : issued'[k] = issued[k]
        BY <3>2
      <4> QED
        BY <1>1, <2>1, <4>1, <4>2, <4>3 DEF NewestSavedOrInHand
    <3>4. CASE o.res # "ok"
      <4>1. UNCHANGED issued
        BY <1>1, <2>4, <3>4, InHand, RenewalsArrive
      <4> QED
        BY <1>1, <2>1, <2>2, <3>1, <4>1, StillSaving
    <3> QED
      BY <3>3, <3>4
  <2> QED
    BY <1>3, <2>3, <2>4 DEF SweepAccount
<1>4. CASE SaveTokens(c, "sweepTokens", "sweep")
  <2>1. PICK id \in Ids, ts \in [tok : Nat, rt : Nat, exp : Nat] :
            /\ id = work[c].id
            /\ IfStored(id, UpdateTokens(c, id, ts))
            /\ UNCHANGED issued
            /\ \A d \in Callers \ {c} : work'[d] = work[d]
    <3>1. work[c].id \in Ids /\ work[c].acc \in Account
      BY <1>1, <1>4, InHand DEF SaveTokens, At, WithCopy
    <3>2. PICK id \in Ids, a \in Account : id = work[c].id /\ a = work[c].acc
      BY <3>1
    <3>3. PICK ts : ts = [tok |-> a.tok, rt |-> a.rt, exp |-> a.exp]
      OBVIOUS
    <3>4. ts \in [tok : Nat, rt : Nat, exp : Nat]
      BY <3>2, <3>3 DEF Account
    <3>5. IfStored(id, UpdateTokens(c, id, ts)) /\ UNCHANGED issued
      BY <1>4, <3>2, <3>3 DEF SaveTokens, Goto
    <3>6. \A d \in Callers \ {c} : work'[d] = work[d]
      BY <1>1, <1>4, InHand DEF SaveTokens, Goto
    <3> QED
      BY <3>2, <3>4, <3>5, <3>6
  <2>2. CASE disk[id] = NoAccount
    <3>1. UNCHANGED poolVars
      BY <2>1, <2>2 DEF IfStored
    <3>2. UNCHANGED <<disk, call>>
      BY <3>1 DEF poolVars
    <3>3. \A k \in Ids : Saving(c, k) /\ disk[k] # NoAccount => k # id
      BY <2>2
    <3>4. \A k \in Ids : k # id => ~Saving(c, k)
      BY <1>1, <2>1 DEF Saving
    <3> QED
      BY <1>1, <2>1, <3>2, <3>3, <3>4, StillSaving
  <2>3. CASE disk[id] # NoAccount
    <3>1. PICK w : w = WithTokens(disk[id], ts) /\ Read(c, "UpdateTokens", id, w)
      BY <2>1, <2>3 DEF IfStored, UpdateTokens
    <3>2. w \in Account
      BY <1>1, <2>3, <3>1, InHand, ChangedRecords
         DEF CredentialInvariant, CredentialTypeOK, PoolTypeOK
    <3>3. call' = [call EXCEPT ![c] = [op |-> "UpdateTokens", id |-> id, write |-> w]]
      BY <3>1 DEF Read
    <3>4. [op |-> "UpdateTokens", id |-> id, write |-> w] \in PendingWrite
      BY <3>2 DEF PendingWrite, Methods
    <3>5. NoCall \notin PendingWrite
      BY NoneAssumption DEF PendingWrite
    <3>6. PICK p \in PendingWrite : p = [op |-> "UpdateTokens", id |-> id, write |-> w]
      BY <3>4
    <3>7. call'[c] = p /\ p # NoCall /\ p.op = "UpdateTokens" /\ p.id = id
          /\ \A d \in Callers \ {c} : call'[d] = call[d]
      BY <1>1, <3>3, <3>5, <3>6
         DEF CredentialInvariant, CredentialTypeOK, PoolTypeOK
    <3>8. UNCHANGED disk
      BY <3>1 DEF Read
    <3>9. Saving(c, id)' /\ \A k \in Ids : k # id => ~Saving(c, k)
      BY <1>1, <2>1, <3>7 DEF Saving
    <3> QED
      BY <1>1, <2>1, <3>7, <3>8, <3>9, StillSaving
  <2> QED
    BY <2>2, <2>3
<1> QED
  BY <1>2, <1>3, <1>4 DEF RefresherStep

LEMMA WritingSaves ==
  ASSUME CredentialInvariant, TokensAreOwned, NewestSavedOrInHand, NEW c \in Callers,
         Write(c), UNCHANGED credentialVars
  PROVE  NewestSavedOrInHand'
<1>1. call[c] # NoCall /\ call[c].op = "UpdateTokens" /\ UNCHANGED <<work, issued>>
  BY DEF Write, NewestSavedOrInHand, credentialVars
<1>2. PICK id \in Ids : id = call[c].id
  BY <1>1 DEF CredentialInvariant, CredentialTypeOK, PoolTypeOK, PendingWrite
<1>3. /\ disk'[id] = call[c].write /\ \A k \in Ids \ {id} : disk'[k] = disk[k]
      /\ call'[c] = NoCall /\ \A d \in Callers \ {c} : call'[d] = call[d]
  BY <1>2 DEF Write, CredentialInvariant, CredentialTypeOK, PoolTypeOK
<1>4. disk'[id].rt = issued'[id]
  BY <1>1, <1>2, <1>3 DEF TokensAreOwned, RenewedInCall
<1>5. \A k \in Ids \ {id} : \A d \in Callers : Saving(d, k) => Saving(d, k)'
  BY <1>1, <1>2, <1>3 DEF Saving
<1> QED
  BY <1>1, <1>3, <1>4, <1>5 DEF NewestSavedOrInHand

\* Once everybody is done, the newest tokens that Clerk issued to a login are on disk, if
\* the refresher alone renews them and nothing fails.  Each hypothesis is needed.
THEOREM TheRefresherSavesTheNewest ==
  ASSUME FreshLogins, RefresherAlone, NothingFails
  PROVE  CredentialSpec => []NewestTokensSaved
<1> DEFINE Inv == CredentialInvariant /\ TokensAreOwned /\ NewestSavedOrInHand
<1>1. CredentialInit => Inv
  <2>1. ASSUME CredentialInit, NEW id \in Ids, disk[id] # NoAccount, disk[id].rt # 0
        PROVE  disk[id].rt = issued[id]
    <3>1. disk[id] \in StoredAccounts /\ issued[id] = 1
      BY <2>1 DEF CredentialInit, PoolInit
    <3>2. disk[id].rt \in Nat /\ disk[id].rt <= 1
      BY <3>1, StoredAssumption DEF FreshLogins, Account
    <3> QED
      BY <2>1, <3>1, <3>2
  <2>2. CredentialInit => \A c \in Callers : call[c] = NoCall
    BY DEF CredentialInit, PoolInit
  <2>3. CredentialInit => NewestSavedOrInHand
    BY <2>1, <2>2 DEF NewestSavedOrInHand
  <2> QED
    BY <2>3, CredentialInitInvariant, CredentialInitTokens
<1>2. Inv /\ [CredentialNext]_<<poolVars, credentialVars>> => Inv'
  <2> SUFFICES ASSUME Inv, [CredentialNext]_<<poolVars, credentialVars>>
               PROVE  Inv'
    OBVIOUS
  <2>1. CredentialInvariant' /\ TokensAreOwned'
    BY CredentialNextInvariant, CredentialNextTokens
  <2>2. CASE \E c \in Refreshers : RefresherStep(c)
    BY <2>1, <2>2, RefresherSaves
  <2>3. CASE \E c \in Callers : Write(c) /\ UNCHANGED credentialVars
    BY <2>1, <2>3, WritingSaves
  <2>4. CASE UNCHANGED <<disk, call, work, issued>>
    BY <2>1, <2>4 DEF NewestSavedOrInHand, Saving
  <2>5. Tick /\ UNCHANGED credentialVars => UNCHANGED <<disk, call, work, issued>>
    BY DEF Tick, credentialVars
  <2>6. UNCHANGED <<poolVars, credentialVars>> => UNCHANGED <<disk, call, work, issued>>
    BY DEF poolVars, credentialVars
  <2>7. PoolStep => (\E c \in Callers : Write(c) /\ UNCHANGED credentialVars)
                    \/ (Tick /\ UNCHANGED credentialVars)
    BY DEF PoolStep
  <2>8. ~RestartServer
    BY DEF RefresherAlone, RestartServer
  <2> QED
    BY <2>2, <2>3, <2>4, <2>5, <2>6, <2>7, <2>8 DEF RefresherAlone, CredentialNext
<1>3. Inv => NewestTokensSaved
  <2>1. AllIdle => \A c \in Callers : \A id \in Ids : ~Saving(c, id)
    BY DEF AllIdle, Saving
  <2> QED
    BY <2>1 DEF NewestTokensSaved, NewestSavedOrInHand
<1> QED
  BY <1>1, <1>2, <1>3, PTL DEF CredentialSpec
=============================================================================
