---------------------------- MODULE GenerationJob ----------------------------
(***************************************************************************)
(* What the asynchronous generation service promises about one idempotency *)
(* key, with no worker, no database and no crash in sight: a job is        *)
(* submitted once, its executor is entered at most once, it succeeds only  *)
(* after its executor ran, and a settled job stays settled.  A job may be  *)
(* left executing for ever: the service never runs a second time what it   *)
(* cannot prove to have stopped.                                           *)
(***************************************************************************)
EXTENDS Naturals

CONSTANT Keys          \* idempotency keys: the identities of the jobs

VARIABLES
    job,               \* job[k]: the state a poller of the job sees
    entered            \* entered[k]: how often the job's executor was entered

jobVars == <<job, entered>>

JobStates == {"none", "queued", "executing", "succeeded", "failed"}

JobTypeOK ==
    /\ job \in [Keys -> JobStates]
    /\ entered \in [Keys -> Nat]

JobInit ==
    /\ job = [k \in Keys |-> "none"]
    /\ entered = [k \in Keys |-> 0]

Submit(k) ==
    /\ job[k] = "none"
    /\ job' = [job EXCEPT ![k] = "queued"]
    /\ UNCHANGED entered

\* A job cancelled while it waits never reaches its executor.
Withdraw(k) ==
    /\ job[k] = "queued"
    /\ job' = [job EXCEPT ![k] = "failed"]
    /\ UNCHANGED entered

Begin(k) ==
    /\ job[k] = "queued"
    /\ job' = [job EXCEPT ![k] = "executing"]
    /\ UNCHANGED entered

Enter(k) ==
    /\ job[k] = "executing"
    /\ entered[k] = 0
    /\ entered' = [entered EXCEPT ![k] = 1]
    /\ UNCHANGED job

Succeed(k) ==
    /\ job[k] = "executing"
    /\ entered[k] = 1
    /\ job' = [job EXCEPT ![k] = "succeeded"]
    /\ UNCHANGED entered

Fail(k) ==
    /\ job[k] = "executing"
    /\ job' = [job EXCEPT ![k] = "failed"]
    /\ UNCHANGED entered

JobNext ==
    \E k \in Keys :
        \/ Submit(k) \/ Withdraw(k) \/ Begin(k)
        \/ Enter(k)  \/ Succeed(k)  \/ Fail(k)

JobSpec == JobInit /\ [][JobNext]_jobVars
==============================================================================
