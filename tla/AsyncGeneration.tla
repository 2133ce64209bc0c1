--------------------------- MODULE AsyncGeneration ---------------------------
(***************************************************************************)
(* The durable queue of asynchronous solution generation and its worker    *)
(* (app/services/async_generation.py), the server-issued acceptance        *)
(* authorizations it redeems, and the HTTP handlers that create, replay    *)
(* and cancel a run (app/main.py).                                         *)
(*                                                                         *)
(* One action is one database transaction, or one stretch of the worker    *)
(* thread that no other thread can observe half done.  A handler with two  *)
(* transactions is two actions, and other threads run between them.        *)
(***************************************************************************)
EXTENDS Naturals, FiniteSets

CONSTANTS
    Keys,              \* idempotency identities (participant, project, key)
    Projects,          \* projects of the workspace
    ProjectOf,         \* the project an idempotency identity belongs to
    Auths,             \* ids of acceptance authorizations
    NoKey,             \* the worker holds no run
    NoAuth,            \* the run was created without an authorization
    Selections,        \* resolved models requests carry: managed mode always
                       \* resolves one, the other modes never do (NoModel)
    NoModel,           \* no managed selection was made
    AcceptanceModel,   \* the only model an authorization may be spent on
    Contexts,          \* competitor snapshots, and one value for "skip"
    MaxRequests,       \* bound: requests per key that reach the ledger
    MaxRestarts,       \* bound: crashes and orderly stops of the process
    MaxFaults          \* bound: database errors

ASSUME KeysAssumption == IsFiniteSet(Keys) /\ ProjectOf \in [Keys -> Projects]
ASSUME NullsAssumption ==
    NoKey \notin Keys /\ NoAuth \notin Auths /\ AcceptanceModel # NoModel
ASSUME InputsAssumption == Contexts # {} /\ Projects # {}
ASSUME BoundsAssumption ==
    /\ MaxRequests \in Nat \ {0}
    /\ MaxRestarts \in Nat
    /\ MaxFaults \in Nat

VARIABLES
    runs,              \* async_solution_generation_runs, one row per key
    intents,           \* solution_generation_intents, one row per key
    auths,             \* provider_acceptance_authorizations
    workerPc,          \* where the worker thread is
    workerKey,         \* the run it has claimed, or NoKey
    outcome,           \* what the executor came back with
    stopping,          \* AsyncGenerationWorker._stop
    canceller,         \* canceller[k]: where a cancel handler for k is
    signals,           \* cancel callbacks scheduled on the active event loop
    entered,           \* history: how often k's executor was entered
    restarts,          \* counts crashes and stops, up to MaxRestarts
    faults             \* counts database errors, up to MaxFaults

dbVars     == <<runs, intents, auths>>
workerVars == <<workerPc, workerKey, outcome, stopping, signals, entered>>
vars == <<runs, intents, auths, workerPc, workerKey, outcome, stopping,
          canceller, signals, entered, restarts, faults>>

-------------------------------------------------------------------------------
(* Rows and control states *)

RunStatus == {"ABSENT", "PENDING", "RUNNING", "SUCCEEDED", "FAILED"}
Settled   == {"SUCCEEDED", "FAILED"}
Quotas    == {"RESERVED", "CHARGED", "RELEASED"}
Results   == {"none", "candidates", "error", "cancelled", "exception"}

Run == [status          : RunStatus,
        result          : Results,             \* which payload response_json is
        quota           : Quotas,
        calls           : {0, 1},              \* provider_call_count
        cancelRequested : BOOLEAN,             \* cancel_requested_at is set
        requests        : 0 .. MaxRequests,
        replays         : 0 .. MaxRequests,
        auth            : Auths \cup {NoAuth},
        model           : Selections \cup {NoModel},
        context         : Contexts,
        earlier         : SUBSET Keys]         \* the runs with a smaller created_at

Intent == [status   : {"ABSENT", "IN_PROGRESS", "SUCCEEDED", "FAILED"},
           result   : Results,
           calls    : {0, 1},
           requests : 0 .. MaxRequests,
           replays  : 0 .. MaxRequests]

Auth == [state   : {"ABSENT", "PENDING", "REDEEMED"},
         project : Projects,
         expired : BOOLEAN]

\* "settling" is the stretch from the executor's return (or the exception)
\* to the end of the transaction of finish.
WorkerPcs == {"down", "idle", "polling", "claimed", "active", "checked",
              "awaiting", "settling", "dead"}
Busy       == {"claimed", "active", "checked", "awaiting", "settling"}
LoopActive == {"active", "checked", "awaiting", "settling"}

TypeOK ==
    /\ runs \in [Keys -> Run]
    /\ intents \in [Keys -> Intent]
    /\ auths \in [Auths -> Auth]
    /\ workerPc \in WorkerPcs
    /\ workerKey \in Keys \cup {NoKey}
    /\ outcome \in Results
    /\ stopping \in BOOLEAN
    /\ canceller \in [Keys -> {"idle", "committed", "running"}]
    /\ signals \in SUBSET Keys
    /\ entered \in [Keys -> Nat]
    /\ restarts \in 0 .. MaxRestarts
    /\ faults \in 0 .. MaxFaults

Exists(k)  == runs[k].status # "ABSENT"
\* Requests are served between the start of the lifespan and its end.
Serving    == workerPc # "down" /\ ~stopping
\* A run marked RUNNING that no worker holds: nobody will ever settle it.
Orphan(k)  == runs[k].status = "RUNNING" /\ workerKey # k

-------------------------------------------------------------------------------
(* Initial state: an empty workspace database, the worker not started *)

Init ==
    /\ runs = [k \in Keys |->
                 [status |-> "ABSENT", result |-> "none", quota |-> "RESERVED",
                  calls |-> 0, cancelRequested |-> FALSE, requests |-> 0,
                  replays |-> 0, auth |-> NoAuth, model |-> NoModel,
                  context |-> CHOOSE c \in Contexts : TRUE, earlier |-> {}]]
    /\ intents = [k \in Keys |->
                    [status |-> "ABSENT", result |-> "none", calls |-> 0,
                     requests |-> 0, replays |-> 0]]
    /\ auths = [a \in Auths |->
                  [state |-> "ABSENT", expired |-> FALSE,
                   project |-> CHOOSE p \in Projects : TRUE]]
    /\ workerPc = "down"
    /\ workerKey = NoKey
    /\ outcome = "none"
    /\ stopping = FALSE
    /\ canceller = [k \in Keys |-> "idle"]
    /\ signals = {}
    /\ entered = [k \in Keys |-> 0]
    /\ restarts = 0
    /\ faults = 0

-------------------------------------------------------------------------------
(* POST /solutions/generate in async mode *)

ExistingRuns == {j \in Keys : Exists(j)}

NewRun(a, m, c) ==
    [status |-> "PENDING", result |-> "none", quota |-> "RESERVED",
     calls |-> 0, cancelRequested |-> FALSE, requests |-> 1, replays |-> 0,
     auth |-> a, model |-> m, context |-> c, earlier |-> ExistingRuns]

InsertRun(k, a, m, c) ==
    /\ ~Exists(k)
    /\ intents[k].status = "ABSENT"      \* UNIQUE identity: else the insert fails
    /\ runs' = [runs EXCEPT ![k] = NewRun(a, m, c)]
    /\ intents' = [intents EXCEPT ![k] =
                     [status |-> "IN_PROGRESS", result |-> "none", calls |-> 0,
                      requests |-> 1, replays |-> 0]]

\* Mutant of CountReplay: the second UPDATE, on the intent, is forgotten.
CountReplayOnRunOnly(k) ==
    /\ intents[k].requests < MaxRequests
    /\ runs[k].requests < MaxRequests
    /\ runs' = [runs EXCEPT ![k].requests = @ + 1, ![k].replays = @ + 1]
    /\ UNCHANGED intents

CountReplay(k) ==
    /\ intents[k].requests < MaxRequests
    /\ runs' = [runs EXCEPT ![k].requests = @ + 1, ![k].replays = @ + 1]
    /\ intents' = [intents EXCEPT ![k].requests = @ + 1, ![k].replays = @ + 1]

CreateRun(k, m, c) ==
    /\ Serving
    /\ InsertRun(k, NoAuth, m, c)
    /\ UNCHANGED <<auths, workerVars, canceller, restarts, faults>>

\* A second request with the same key only counts, and only when it asks for
\* the model and the competitor context the run is bound to.
ReplayRun(k, m, c) ==
    /\ Serving
    /\ Exists(k)
    /\ runs[k].model = m \/ NoModel \in {runs[k].model, m}
    /\ runs[k].context = c
    /\ CountReplay(k)
    /\ UNCHANGED <<auths, workerVars, canceller, restarts, faults>>

\* Issued from the operator's side; there is no HTTP route for it.
IssueAuthorization(a, p) ==
    /\ auths[a].state = "ABSENT"
    /\ auths' = [auths EXCEPT ![a] =
                   [state |-> "PENDING", project |-> p, expired |-> FALSE]]
    /\ UNCHANGED <<runs, intents, workerVars, canceller, restarts, faults>>

\* expires_at passes; the row itself is never rewritten.
AuthorizationExpires(a) ==
    /\ auths[a].state = "PENDING"
    /\ ~auths[a].expired
    /\ auths' = [auths EXCEPT ![a].expired = TRUE]
    /\ UNCHANGED <<runs, intents, workerVars, canceller, restarts, faults>>

\* Mutant of Redeemable: the state of the authorization is not looked at.
RedeemableInAnyState(a, k) ==
    /\ auths[a].state # "ABSENT"
    /\ auths[a].project = ProjectOf[k]
    /\ ~auths[a].expired

Redeemable(a, k) ==
    /\ auths[a].state = "PENDING"
    /\ auths[a].project = ProjectOf[k]
    /\ ~auths[a].expired

RedeemAndCreate(a, k, m, c) ==
    /\ Serving
    /\ m = AcceptanceModel
    /\ Redeemable(a, k)
    /\ InsertRun(k, a, m, c)
    /\ auths' = [auths EXCEPT ![a].state = "REDEEMED"]
    /\ UNCHANGED <<workerVars, canceller, restarts, faults>>

RedeemReplay(a, k, m, c) ==
    /\ Serving
    /\ m = AcceptanceModel
    /\ Exists(k)
    /\ runs[k].auth = a
    /\ runs[k].context = c
    /\ CountReplay(k)
    /\ UNCHANGED <<auths, workerVars, canceller, restarts, faults>>

-------------------------------------------------------------------------------
(* POST .../cancel: a transaction, a second read, then a call into the loop *)

\* Mutant of Cancelled: the quota of the withdrawn run stays held.
CancelledHoldingQuota(r) ==
    [r EXCEPT !.cancelRequested = TRUE, !.status = "FAILED",
              !.result = "cancelled"]

Cancelled(r) == [r EXCEPT !.cancelRequested = TRUE, !.status = "FAILED",
                          !.result = "cancelled", !.quota = "RELEASED"]

\* Mutant of RequestCancel: the request is recorded whatever the status is.
RequestCancelOfAnyRun(k) ==
    /\ Serving
    /\ canceller[k] = "idle"
    /\ Exists(k)
    /\ runs' = [runs EXCEPT ![k] =
          IF @.status = "PENDING" THEN Cancelled(@)
                                  ELSE [@ EXCEPT !.cancelRequested = TRUE]]
    /\ intents' = IF runs[k].status = "PENDING"
                  THEN [intents EXCEPT ![k] = [@ EXCEPT !.status = "FAILED",
                                                        !.result = "cancelled"]]
                  ELSE intents
    /\ canceller' = [canceller EXCEPT ![k] = "committed"]
    /\ UNCHANGED <<auths, workerVars, restarts, faults>>

RequestCancel(k) ==
    /\ Serving
    /\ canceller[k] = "idle"
    /\ Exists(k)
    /\ runs' = [runs EXCEPT ![k] =
          CASE @.status = "PENDING" /\ ~@.cancelRequested -> Cancelled(@)
            [] @.status = "RUNNING" /\ ~@.cancelRequested ->
                 [@ EXCEPT !.cancelRequested = TRUE]
            [] OTHER -> @]
    /\ intents' = IF runs[k].status = "PENDING" /\ ~runs[k].cancelRequested
                  THEN [intents EXCEPT ![k] = [@ EXCEPT !.status = "FAILED",
                                                        !.result = "cancelled"]]
                  ELSE intents
    /\ canceller' = [canceller EXCEPT ![k] = "committed"]
    /\ UNCHANGED <<auths, workerVars, restarts, faults>>

\* request_cancel re-reads the row in a transaction of its own.
RereadRun(k) ==
    /\ canceller[k] = "committed"
    /\ canceller' = [canceller EXCEPT ![k] =
                       IF runs[k].status = "RUNNING" THEN "running" ELSE "idle"]
    /\ UNCHANGED <<dbVars, workerVars, restarts, faults>>

\* Mutant of SignalWorker: the handler leaves the cancellation to the worker.
SignalNobody(k) ==
    /\ canceller[k] = "running"
    /\ canceller' = [canceller EXCEPT ![k] = "idle"]
    /\ UNCHANGED <<dbVars, workerVars, restarts, faults>>

\* The handler schedules its callback on whatever loop is active by now.
SignalWorker(k) ==
    /\ canceller[k] = "running"
    /\ canceller' = [canceller EXCEPT ![k] = "idle"]
    /\ signals' = IF workerPc \in LoopActive THEN signals \cup {k} ELSE signals
    /\ UNCHANGED <<dbVars, workerPc, workerKey, outcome, stopping, entered,
                   restarts, faults>>

CancelHandlerFails(k) ==
    /\ canceller[k] = "committed"
    /\ faults < MaxFaults
    /\ faults' = faults + 1
    /\ canceller' = [canceller EXCEPT ![k] = "idle"]
    /\ UNCHANGED <<dbVars, workerVars, restarts>>

-------------------------------------------------------------------------------
(* The worker thread *)

\* Mutant of StartWorker: the runs a crash left RUNNING go back to the queue.
StartWorkerRequeuing ==
    /\ workerPc = "down"
    /\ workerPc' = "idle"
    /\ stopping' = FALSE
    /\ runs' = [k \in Keys |-> IF runs[k].status = "RUNNING"
                               THEN [runs[k] EXCEPT !.status = "PENDING"]
                               ELSE runs[k]]
    /\ UNCHANGED <<intents, auths, workerKey, outcome, canceller, signals,
                   entered, restarts, faults>>

StartWorker ==
    /\ workerPc = "down"
    /\ workerPc' = "idle"
    /\ stopping' = FALSE
    /\ UNCHANGED <<dbVars, workerKey, outcome, canceller, signals, entered,
                   restarts, faults>>

\* The stop flag is read here and not again before the claim.
Poll ==
    /\ workerPc = "idle"
    /\ ~stopping
    /\ workerPc' = "polling"
    /\ UNCHANGED <<dbVars, workerKey, outcome, stopping, canceller, signals,
                   entered, restarts, faults>>

NothingToClaim ==
    /\ workerPc = "polling"
    /\ \A k \in Keys : runs[k].status # "PENDING"
    /\ workerPc' = "idle"
    /\ UNCHANGED <<dbVars, workerKey, outcome, stopping, canceller, signals,
                   entered, restarts, faults>>

\* Mutant of ClaimNext: failed runs are retried.
ClaimNextOrRetry(k) ==
    /\ workerPc = "polling"
    /\ runs[k].status \in {"PENDING", "FAILED"}
    /\ runs' = [runs EXCEPT ![k].status = "RUNNING"]
    /\ workerPc' = "claimed"
    /\ workerKey' = k
    /\ UNCHANGED <<intents, auths, outcome, stopping, canceller, signals,
                   entered, restarts, faults>>

\* Mutant of ClaimNext: a run waits for every run created before it to settle.
ClaimNextInOrder(k) ==
    /\ workerPc = "polling"
    /\ runs[k].status = "PENDING"
    /\ \A j \in runs[k].earlier : runs[j].status \in Settled
    /\ runs' = [runs EXCEPT ![k].status = "RUNNING"]
    /\ workerPc' = "claimed"
    /\ workerKey' = k
    /\ UNCHANGED <<intents, auths, outcome, stopping, canceller, signals,
                   entered, restarts, faults>>

ClaimNext(k) ==
    /\ workerPc = "polling"
    /\ runs[k].status = "PENDING"
    /\ \A j \in runs[k].earlier : runs[j].status # "PENDING"
    /\ runs' = [runs EXCEPT ![k].status = "RUNNING"]
    /\ workerPc' = "claimed"
    /\ workerKey' = k
    /\ UNCHANGED <<intents, auths, outcome, stopping, canceller, signals,
                   entered, restarts, faults>>

\* The event loop of the run becomes visible to the cancel handlers ...
PublishLoop ==
    /\ workerPc = "claimed"
    /\ workerPc' = "active"
    /\ UNCHANGED <<dbVars, workerKey, outcome, stopping, canceller, signals,
                   entered, restarts, faults>>

\* Mutant of CheckRun: the cancel flag read with the row is not looked at.
CheckRunIgnoringFlag ==
    /\ workerPc = "active"
    /\ workerPc' = "checked"
    /\ UNCHANGED <<dbVars, workerKey, outcome, signals, stopping, canceller,
                   entered, restarts, faults>>

\* Mutant of CheckRun: a run cancelled in time is dropped, not settled.
CheckRunDroppingCancelled ==
    /\ workerPc = "active"
    /\ IF runs[workerKey].cancelRequested
       THEN workerPc' = "idle" /\ workerKey' = NoKey /\ signals' = {}
       ELSE workerPc' = "checked" /\ UNCHANGED <<workerKey, signals>>
    /\ UNCHANGED <<dbVars, outcome, stopping, canceller, entered, restarts,
                   faults>>

\* ... before the run's row is read again, with its cancel flag.
CheckRun ==
    /\ workerPc = "active"
    /\ LET run == runs[workerKey] IN
         IF run.status # "RUNNING"
         THEN /\ workerPc' = "idle" /\ workerKey' = NoKey
              /\ signals' = {} /\ UNCHANGED outcome
         ELSE IF run.cancelRequested
         THEN /\ workerPc' = "settling" /\ outcome' = "cancelled"
              /\ UNCHANGED <<workerKey, signals>>
         ELSE /\ workerPc' = "checked"
              /\ UNCHANGED <<workerKey, outcome, signals>>
    /\ UNCHANGED <<dbVars, stopping, canceller, entered, restarts, faults>>

\* mark_provider_call, unless the project runs on a fixture; then the executor
\* is entered and runs without a break to its first await.
EnterExecutor(providerAllowed) ==
    /\ workerPc = "checked"
    /\ runs' = IF providerAllowed /\ runs[workerKey].status = "RUNNING"
               THEN [runs EXCEPT ![workerKey].calls = 1] ELSE runs
    /\ intents' = IF providerAllowed
                  THEN [intents EXCEPT ![workerKey].calls = 1] ELSE intents
    /\ entered' = [entered EXCEPT ![workerKey] = @ + 1]
    /\ workerPc' = "awaiting"
    /\ UNCHANGED <<auths, workerKey, outcome, stopping, canceller, signals,
                   restarts, faults>>

\* A database error in the re-read, the fixture lookup or mark_provider_call.
PreparationFails ==
    /\ workerPc \in {"active", "checked"}
    /\ faults < MaxFaults
    /\ faults' = faults + 1
    /\ outcome' = "exception"
    /\ workerPc' = "settling"
    /\ UNCHANGED <<dbVars, workerKey, stopping, canceller, signals, entered,
                   restarts>>

ExecutorReturns(o) ==
    /\ workerPc = "awaiting"
    /\ o \in {"candidates", "error", "exception"}
    /\ outcome' = o
    /\ workerPc' = "settling"
    /\ UNCHANGED <<dbVars, workerKey, stopping, canceller, signals, entered,
                   restarts, faults>>

\* Mutant of DeliverSignal: the callback cancels whatever task is active.
DeliverSignalToAnyRun(k) ==
    /\ workerPc = "awaiting"
    /\ k \in signals
    /\ signals' = signals \ {k}
    /\ outcome' = "cancelled" /\ workerPc' = "settling"
    /\ UNCHANGED <<dbVars, workerKey, stopping, canceller, entered, restarts,
                   faults>>

\* The loop runs a scheduled callback while the executor is suspended; it
\* cancels the task only if the active run is the one it was made for.
DeliverSignal(k) ==
    /\ workerPc = "awaiting"
    /\ k \in signals
    /\ signals' = signals \ {k}
    /\ IF k = workerKey
       THEN outcome' = "cancelled" /\ workerPc' = "settling"
       ELSE UNCHANGED <<outcome, workerPc>>
    /\ UNCHANGED <<dbVars, workerKey, stopping, canceller, entered, restarts,
                   faults>>

FinalStatus(o) == IF o = "candidates" THEN "SUCCEEDED" ELSE "FAILED"
FinalQuota(o)  == IF o = "candidates" THEN "CHARGED" ELSE "RELEASED"

\* The task ends, the loop closes and its callbacks die with it.
LeaveRun(pc) ==
    /\ workerPc' = pc
    /\ workerKey' = NoKey
    /\ outcome' = "none"
    /\ signals' = {}

\* finish is a compare-and-set on RUNNING: a settled row is left alone.
Finish ==
    /\ workerPc = "settling"
    /\ IF runs[workerKey].status = "RUNNING"
       THEN /\ runs' = [runs EXCEPT ![workerKey] =
                          [@ EXCEPT !.status = FinalStatus(outcome),
                                    !.result = outcome,
                                    !.quota  = FinalQuota(outcome)]]
            /\ intents' = [intents EXCEPT ![workerKey] =
                             [@ EXCEPT !.status = FinalStatus(outcome),
                                       !.result = outcome]]
       ELSE UNCHANGED <<runs, intents>>
    /\ LeaveRun("idle")
    /\ UNCHANGED <<auths, stopping, canceller, entered, restarts, faults>>

\* A database error in finish: inside the try it is turned into one more
\* finish, with the generic failure; inside an exception handler nobody
\* catches it and the thread dies.
FinishFails ==
    /\ workerPc = "settling"
    /\ faults < MaxFaults
    /\ faults' = faults + 1
    /\ IF outcome \in {"candidates", "error"}
       THEN /\ outcome' = "exception"
            /\ UNCHANGED <<workerPc, workerKey, signals>>
       ELSE LeaveRun("dead")
    /\ UNCHANGED <<dbVars, stopping, canceller, entered, restarts>>

\* claim_next runs outside any try.
ClaimFails ==
    /\ workerPc = "polling"
    /\ faults < MaxFaults
    /\ faults' = faults + 1
    /\ workerPc' = "dead"
    /\ UNCHANGED <<dbVars, workerKey, outcome, stopping, canceller, signals,
                   entered, restarts>>

-------------------------------------------------------------------------------
(* The life of the process *)

\* stop(): set the flag and cancel whatever task is active.
StopWorker ==
    /\ Serving
    /\ restarts < MaxRestarts
    /\ restarts' = restarts + 1
    /\ stopping' = TRUE
    /\ signals' = IF workerPc \in LoopActive
                  THEN signals \cup {workerKey} ELSE signals
    /\ UNCHANGED <<dbVars, workerPc, workerKey, outcome, canceller, entered,
                   faults>>

ProcessGone ==
    /\ workerPc' = "down"
    /\ workerKey' = NoKey
    /\ outcome' = "none"
    /\ stopping' = FALSE
    /\ signals' = {}
    /\ canceller' = [k \in Keys |-> "idle"]

ExitLoop ==
    /\ workerPc = "idle"
    /\ stopping
    /\ ProcessGone
    /\ UNCHANGED <<dbVars, entered, restarts, faults>>

\* The process dies, or ends while its daemon thread still works on a run: the
\* database keeps what was committed, nothing else survives.
Crash ==
    /\ workerPc # "down"
    /\ stopping \/ restarts < MaxRestarts
    /\ restarts' = IF stopping THEN restarts ELSE restarts + 1
    /\ ProcessGone
    /\ UNCHANGED <<dbVars, entered, faults>>

-------------------------------------------------------------------------------

Requests ==
    \/ \E k \in Keys, m \in Selections, c \in Contexts :
          \/ CreateRun(k, m, c)
          \/ ReplayRun(k, m, c)
          \/ \E a \in Auths :
                \/ RedeemAndCreate(a, k, m, c)
                \/ RedeemReplay(a, k, m, c)
    \/ \E a \in Auths :
          \/ \E p \in Projects : IssueAuthorization(a, p)
          \/ AuthorizationExpires(a)

CancelHandler(k) ==
    RequestCancel(k) \/ RereadRun(k) \/ SignalWorker(k) \/ CancelHandlerFails(k)

\* What the thread does by itself, without waiting for the executor.
WorkerStep ==
    \/ StartWorker \/ Poll \/ NothingToClaim \/ PublishLoop \/ CheckRun
    \/ \E allowed \in BOOLEAN : EnterExecutor(allowed)
    \/ \E k \in Keys : ClaimNext(k) \/ DeliverSignal(k)
    \/ Finish

Faults == PreparationFails \/ FinishFails \/ ClaimFails

Next ==
    \/ Requests
    \/ \E k \in Keys : CancelHandler(k)
    \/ WorkerStep
    \/ \E o \in Results : ExecutorReturns(o)
    \/ Faults
    \/ StopWorker \/ ExitLoop \/ Crash

Spec == Init /\ [][Next]_vars

(* Fairness: the deployment restarts a process that is gone, the thread keeps
   stepping, the event loop runs its callbacks in turn, and a cancel handler that
   has committed goes on.  Nothing is
   assumed of users, of faults, or of the executor: a provider may never
   answer. *)
FairSpec ==
    /\ Spec
    /\ WF_vars(WorkerStep)
    /\ WF_vars(ExitLoop)
    /\ \A k \in Keys : /\ WF_vars(RereadRun(k))
                        /\ WF_vars(SignalWorker(k))
                        /\ WF_vars(DeliverSignal(k))

-------------------------------------------------------------------------------
(* Properties *)

\* The run and its intent are two tables, written by five transactions that
\* each have to touch both: a poller of either sees the same job, with the same
\* answer and the same count of provider calls.
RunIntentAgree ==
    \A k \in Keys : Exists(k) =>
        LET run == runs[k]  intent == intents[k] IN
        /\ intent.status = IF run.status \in Settled THEN run.status
                                                     ELSE "IN_PROGRESS"
        /\ intent.result = run.result
        /\ intent.calls = run.calls
        /\ run.requests <= intent.requests
        /\ run.requests = run.replays + 1
        /\ intent.requests = intent.replays + 1

\* However often the process restarts, a run's executor is entered at most once,
\* and never for a run that is still queued; only a run whose executor was
\* entered can be answered with candidates and charged.
OneExecution ==
    \A k \in Keys :
        /\ entered[k] <= 1
        /\ entered[k] = 1 => runs[k].status \notin {"ABSENT", "PENDING"}
        /\ runs[k].status = "SUCCEEDED" => entered[k] = 1

\* The three writers of quota_status (cancel of a queued run, finish, the
\* column's default) leave no settled run with its quota held, and charge
\* exactly the runs that delivered candidates.
QuotaFollowsResult ==
    \A k \in Keys :
        /\ runs[k].status \in Settled <=> runs[k].quota # "RESERVED"
        /\ runs[k].quota = "CHARGED" <=> runs[k].result = "candidates"
        /\ runs[k].status = "SUCCEEDED" <=> runs[k].result = "candidates"

\* An acceptance authorization is spent on exactly one run, of its own project
\* and on the acceptance model; a run never carries one that was not spent.
AuthorizationSpentOnce ==
    \A a \in Auths :
        LET bearers == {k \in Keys : runs[k].auth = a} IN
        /\ auths[a].state = "REDEEMED" <=> bearers # {}
        /\ \A j, k \in bearers : j = k
        /\ \A k \in bearers : /\ ProjectOf[k] = auths[a].project
                              /\ runs[k].model = AcceptanceModel

\* Between the handler's flag and loop lookup and the worker's publication of
\* its loop and look at the flag no cancel request falls through: once the
\* handler is done, an executor that is still awaited has its callback pending.
NoCancelFallsThrough ==
    \A k \in Keys :
        (/\ runs[k].cancelRequested
         /\ workerKey = k /\ workerPc = "awaiting"
         /\ canceller[k] = "idle"
         /\ faults = 0) => k \in signals

\* Only the run somebody asked to cancel is reported as cancelled, although the
\* callback may be scheduled on the loop of the run after it; an orderly stop
\* is the one other cause.
CancelledOnlyOnRequest ==
    \A k \in Keys :
        runs[k].result = "cancelled" => runs[k].cancelRequested \/ restarts > 0

\* A run stays RUNNING with nobody to settle it only after a crash, a stop or a
\* database error.
OrphanNeedsFailure ==
    \A k \in Keys : Orphan(k) => restarts > 0 \/ faults > 0

\* A settled run keeps its answer and its charge, and a run never changes the
\* model, the competitor context and the authorization it was created with,
\* whatever replays, late cancels and late callbacks arrive.
RunHistoryKept ==
    \A k \in Keys :
        /\ runs[k].status \in Settled =>
             /\ runs'[k].status = runs[k].status
             /\ runs'[k].result = runs[k].result
             /\ runs'[k].quota  = runs[k].quota
             /\ runs'[k].calls  = runs[k].calls
             /\ runs'[k].cancelRequested = runs[k].cancelRequested
        /\ Exists(k) =>
             /\ runs'[k].auth = runs[k].auth
             /\ runs'[k].model = runs[k].model
             /\ runs'[k].context = runs[k].context

SettledIsFinal == [][RunHistoryKept]_vars

\* The queue and the worker implement the abstract job: what a poller sees of
\* the run is the state of the job.
JobState(status) ==
    CASE status = "ABSENT"    -> "none"
      [] status = "PENDING"   -> "queued"
      [] status = "RUNNING"   -> "executing"
      [] status = "SUCCEEDED" -> "succeeded"
      [] status = "FAILED"    -> "failed"

Job == INSTANCE GenerationJob
         WITH job <- [k \in Keys |-> JobState(runs[k].status)]

ImplementsJob == Job!JobSpec

\* A cancel request settles its run even when the provider never answers,
\* unless a crash or a stop orphaned the run, or a database error got in the way.
CancelSettles ==
    \A k \in Keys :
        runs[k].cancelRequested
            ~> (runs[k].status \in Settled \/ Orphan(k) \/ faults > 0)

\* While no executor hangs for ever, every queued run leaves the queue, restarts
\* included, unless a database error killed the thread.
QueueDrains ==
    []<>(workerPc # "awaiting") =>
        \A k \in Keys : (runs[k].status = "PENDING")
                          ~> (runs[k].status # "PENDING" \/ workerPc = "dead")
==============================================================================
