---------------------------- MODULE JobOutcomes ----------------------------
(* What the proxy keeps of its clients' jobs, with no word about the job     *)
(* table, the polls, the accounts or the credits: a client that knows of its *)
(* job hears of the one end the job has, or of an end the proxy has another  *)
(* reason to believe in, and what was said stays said, also after a crash.   *)

CONSTANT JobIds

VARIABLES
    outcome,    \* outcome[j]: the end that job j came to, "open" until then
    hints,      \* hints[j]: the ends of job j believed in for another reason: a result
                \* that shows early, a wait that failed
    client,     \* client[j]: whether the client knows of job j, still waits for the
                \* answer, or never gets the job's id
    told        \* told[j]: the ends of job j that the client was told

outcomeVars == <<outcome, hints, client, told>>

Ended(j) == outcome[j] # "open"

OutcomeInit ==
    /\ outcome = [j \in JobIds |-> "open"]
    /\ hints = [j \in JobIds |-> {}]
    /\ client = [j \in JobIds |-> "waits"]
    /\ told = [j \in JobIds |-> {}]

End(j) ==
    /\ ~Ended(j)
    /\ \E end \in {"completed", "failed"} : outcome' = [outcome EXCEPT ![j] = end]
    /\ UNCHANGED <<hints, client, told>>

ShowEarly(j) ==
    /\ hints' = [hints EXCEPT ![j] = @ \union {"completed"}]
    /\ UNCHANGED <<outcome, client, told>>

\* Before the job ended, or after it ended and with its end.
Inform(j) ==
    /\ client[j] = "waits"
    /\ client' = [client EXCEPT ![j] = "knows"]
    /\ \/ UNCHANGED told
       \/ Ended(j) /\ told' = [told EXCEPT ![j] = @ \union {outcome[j]}]
    /\ UNCHANGED <<outcome, hints>>

\* A wait that fails leaves the client with the job, and the proxy with the belief that
\* the job failed.
GiveUp(j) ==
    /\ client[j] = "waits"
    /\ client' = [client EXCEPT ![j] = "knows"]
    /\ hints' = [hints EXCEPT ![j] = @ \union {"failed"}]
    /\ UNCHANGED <<outcome, told>>

Tell(j) ==
    /\ client[j] = "knows"
    /\ \E end \in hints[j] \union (IF Ended(j) THEN {outcome[j]} ELSE {}) :
          told' = [told EXCEPT ![j] = @ \union {end}]
    /\ UNCHANGED <<outcome, hints, client>>

\* A crash, or an error without the id, leaves clients without their jobs.  It makes
\* nothing unsaid.
Lose ==
    /\ \E js \in SUBSET {j \in JobIds : client[j] = "waits"} :
          client' = [j \in JobIds |-> IF j \in js THEN "lost" ELSE client[j]]
    /\ UNCHANGED <<outcome, hints, told>>

OutcomeNext ==
    \/ \E j \in JobIds : End(j) \/ ShowEarly(j) \/ Inform(j) \/ GiveUp(j) \/ Tell(j)
    \/ Lose

OutcomeSpec == OutcomeInit /\ [][OutcomeNext]_outcomeVars

=============================================================================
