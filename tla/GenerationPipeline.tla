------------------------- MODULE GenerationPipeline -------------------------
(***************************************************************************)
(* The executor of an asynchronous run in managed mode: the transactions   *)
(* and suspension points between the worker's call of the executor and its *)
(* return (app/services/solution_design.py generate_async, ai_runtime.py   *)
(* _call_async, provider_adapters.py _request_async), with the three       *)
(* records they leave behind: the quota reservation, the dispatch evidence *)
(* and the persisted solution run.                                         *)
(*                                                                         *)
(* It refines the one step "awaiting" of AsyncGeneration.  The event loop  *)
(* delivers a cancellation only where the coroutine is suspended: while it *)
(* waits for the provider and while it closes its HTTP client.             *)
(*                                                                         *)
(* The answer it returns is not what it has stored but what the project's  *)
(* newest solution run has: the synchronous generations of the project,    *)
(* which insert a run before they have its candidates, are part of the     *)
(* model as far as that table shows them.                                  *)
(***************************************************************************)
EXTENDS AsyncGeneration

CONSTANTS
    DailyLimit,        \* the day's allowance of solution generations
    MaxStepFaults      \* bound: database errors inside the executor

ASSUME PipelineAssumption ==
    DailyLimit \in Nat \ {0} /\ MaxStepFaults \in Nat

VARIABLES
    stage,             \* how far the executor of workerKey has come
    verdict,           \* what the model call came to
    reservations,      \* beta_quota_reservations.state of k's reservation
    permits,           \* k's execution has its row in provider_dispatch_permits
    events,            \* provider_dispatch_events of that permit
    sent,              \* history: how often k's request went out to the provider
    solutions,         \* k's solution_runs row and its candidates are stored
    stepFaults,        \* counts database errors inside the executor
    bare,              \* the projects whose newest solution_runs row has no
                       \* candidates
    overtaken          \* history: the runs whose answer was read from such a row

newestVars == <<bare, overtaken>>
pipeVars  == <<stage, verdict, reservations, permits, events, sent, solutions,
               stepFaults, newestVars>>
pipelineVars == <<vars, pipeVars>>
records   == <<reservations, permits, events, sent, solutions>>

Stages == {"none", "started", "reserved", "permitted", "boundary", "waiting",
           "cancelling", "releasing", "closing", "returned", "persisted",
           "listed", "committed", "failing", "raising"}
Suspended == {"waiting", "closing"}
Evidence == {"PERMIT_ACQUIRED", "CALL_BOUNDARY_ENTERED",
             "PROVIDER_RESPONSE_RECEIVED", "PROVIDER_HTTP_ERROR_RECEIVED",
             "TIMEOUT_AFTER_BOUNDARY", "TRANSPORT_ERROR_AFTER_BOUNDARY"}
Confirming == {"PROVIDER_RESPONSE_RECEIVED", "PROVIDER_HTTP_ERROR_RECEIVED"}
Ambiguous  == {"TIMEOUT_AFTER_BOUNDARY", "TRANSPORT_ERROR_AFTER_BOUNDARY"}

PipelineTypeOK ==
    /\ TypeOK
    /\ stage \in Stages
    /\ verdict \in {"none", "draft", "failed", "broken"}
    /\ reservations \in [Keys -> {"none", "RESERVED", "COMMITTED", "RELEASED"}]
    /\ permits \in [Keys -> BOOLEAN]
    /\ events \in [Keys -> SUBSET Evidence]
    /\ sent \in [Keys -> Nat]
    /\ solutions \in [Keys -> BOOLEAN]
    /\ stepFaults \in 0 .. MaxStepFaults
    /\ bare \subseteq Projects
    /\ overtaken \subseteq Keys

PipelineInit ==
    /\ Init
    /\ stage = "none"
    /\ verdict = "none"
    /\ reservations = [k \in Keys |-> "none"]
    /\ permits = [k \in Keys |-> FALSE]
    /\ events = [k \in Keys |-> {}]
    /\ sent = [k \in Keys |-> 0]
    /\ solutions = [k \in Keys |-> FALSE]
    /\ stepFaults = 0
    /\ bare = {}
    /\ overtaken = {}

-------------------------------------------------------------------------------
(* Up to the provider *)

Authorized(k) == runs[k].auth # NoAuth

\* request_count of the day is the number of its reservations not released.
UsedToday == Cardinality({k \in Keys : reservations[k] \in {"RESERVED", "COMMITTED"}})

StartExecutor ==
    /\ EnterExecutor(TRUE)
    /\ stage' = "started"
    /\ UNCHANGED <<verdict, records, stepFaults, newestVars>>

\* The confirmed brief, its competitor context or the model cannot be resolved.
PrologueFails ==
    /\ stage = "started"
    /\ stage' = "raising"
    /\ UNCHANGED <<vars, verdict, records, stepFaults, newestVars>>

Reserve ==
    /\ stage = "started"
    /\ IF UsedToday < DailyLimit
       THEN /\ reservations' = [reservations EXCEPT ![workerKey] = "RESERVED"]
            /\ stage' = "reserved"
       ELSE /\ stage' = "raising"
            /\ UNCHANGED reservations
    /\ UNCHANGED <<vars, verdict, permits, events, sent, solutions, stepFaults, newestVars>>

\* Only a run bound to an acceptance authorization needs a permit; the row is
\* unique per execution, so a second attempt gets none.
AcquirePermit ==
    /\ stage = "reserved"
    /\ IF ~Authorized(workerKey)
       THEN stage' = "permitted" /\ UNCHANGED <<verdict, permits, events>>
       ELSE IF permits[workerKey]
       THEN stage' = "releasing" /\ verdict' = "broken" /\ UNCHANGED <<permits, events>>
       ELSE /\ stage' = "permitted"
            /\ permits' = [permits EXCEPT ![workerKey] = TRUE]
            /\ events' = [events EXCEPT ![workerKey] = @ \cup {"PERMIT_ACQUIRED"}]
            /\ UNCHANGED verdict
    /\ UNCHANGED <<vars, reservations, sent, solutions, stepFaults, newestVars>>

\* Mutant of EnterBoundary: the boundary is recorded only with the answer.
EnterBoundaryUnrecorded ==
    /\ stage = "permitted"
    /\ stage' = "boundary"
    /\ UNCHANGED <<vars, verdict, records, stepFaults, newestVars>>

EnterBoundary ==
    /\ stage = "permitted"
    /\ stage' = "boundary"
    /\ events' = IF Authorized(workerKey)
                 THEN [events EXCEPT ![workerKey] = @ \cup {"CALL_BOUNDARY_ENTERED"}]
                 ELSE events
    /\ UNCHANGED <<vars, verdict, reservations, permits, sent, solutions, stepFaults, newestVars>>

\* The POST starts; the connection may or may not carry the request out.
Send(out) ==
    /\ stage = "boundary"
    /\ stage' = "waiting"
    /\ sent' = IF out THEN [sent EXCEPT ![workerKey] = @ + 1] ELSE sent
    /\ UNCHANGED <<vars, verdict, reservations, permits, events, solutions, stepFaults, newestVars>>

-------------------------------------------------------------------------------
(* Back from the provider *)

\* The answer is recorded as evidence before anything is done with it.  Only a
\* response that parses to a solution set is a draft; every other answer is a
\* ProviderCallError, whose handler releases the reservation.
Answer(event, usable) ==
    /\ stage = "waiting"
    /\ event \in Confirming => sent[workerKey] > 0
    /\ usable => event = "PROVIDER_RESPONSE_RECEIVED"
    /\ events' = IF Authorized(workerKey)
                 THEN [events EXCEPT ![workerKey] = @ \cup {event}] ELSE events
    /\ verdict' = IF usable THEN "draft" ELSE "failed"
    /\ stage' = IF usable THEN "closing" ELSE "releasing"
    /\ UNCHANGED <<vars, reservations, permits, sent, solutions, stepFaults, newestVars>>

\* release is a compare-and-set on RESERVED.
Released(k) == [reservations EXCEPT ![k] = IF @ = "RESERVED" THEN "RELEASED" ELSE @]

\* Mutant of ReleaseOnFailure: the handler forgets the reservation.
FailWithoutRelease ==
    /\ stage = "releasing"
    /\ stage' = "closing"
    /\ UNCHANGED <<vars, verdict, records, stepFaults, newestVars>>

ReleaseOnFailure ==
    /\ stage = "releasing"
    /\ reservations' = Released(workerKey)
    /\ stage' = "closing"
    /\ UNCHANGED <<vars, verdict, permits, events, sent, solutions, stepFaults, newestVars>>

\* finally: await adapter.aclose()
CloseClient ==
    /\ stage = "closing"
    /\ stage' = CASE verdict = "draft"  -> "returned"
                  [] verdict = "failed" -> "failing"
                  [] verdict = "broken" -> "raising"
    /\ UNCHANGED <<vars, verdict, records, stepFaults, newestVars>>

\* validate_solution_set refuses the draft.
RejectDraft ==
    /\ stage = "returned"
    /\ reservations' = Released(workerKey)
    /\ stage' = "failing"
    /\ UNCHANGED <<vars, verdict, permits, events, sent, solutions, stepFaults, newestVars>>

PersistSolutions ==
    /\ stage = "returned"
    /\ solutions' = [solutions EXCEPT ![workerKey] = TRUE]
    /\ bare' = bare \ {ProjectOf[workerKey]}
    /\ stage' = "persisted"
    /\ UNCHANGED <<vars, verdict, reservations, permits, events, sent, stepFaults,
                   overtaken>>

\* list_candidates reads the candidates of whichever run of the project is the
\* newest by now.
ListCandidates ==
    /\ stage = "persisted"
    /\ overtaken' = IF ProjectOf[workerKey] \in bare
                    THEN overtaken \cup {workerKey} ELSE overtaken
    /\ stage' = "listed"
    /\ UNCHANGED <<vars, verdict, records, stepFaults, bare>>

CommitReservation ==
    /\ stage = "listed"
    /\ reservations' = [reservations EXCEPT ![workerKey] =
                          IF @ = "RESERVED" THEN "COMMITTED" ELSE @]
    /\ stage' = "committed"
    /\ UNCHANGED <<vars, verdict, permits, events, sent, solutions, stepFaults, newestVars>>

LeaveExecutor == stage' = "none" /\ verdict' = "none"

\* What the worker makes of the answer: one without candidates is a failure.
ListedAnswer(k) == IF k \in overtaken THEN "error" ELSE "candidates"

\* Mutant of ReturnToWorker: the answer is returned before the reservation is
\* committed.
ReturnEarly ==
    /\ \/ stage \in {"listed", "committed"}
          /\ ExecutorReturns(ListedAnswer(workerKey))
       \/ stage = "failing"   /\ ExecutorReturns("error")
       \/ stage = "raising"   /\ ExecutorReturns("exception")
    /\ LeaveExecutor
    /\ UNCHANGED <<records, stepFaults, newestVars>>

ReturnToWorker ==
    /\ \/ stage = "committed" /\ ExecutorReturns(ListedAnswer(workerKey))
       \/ stage = "failing"   /\ ExecutorReturns("error")
       \/ stage = "raising"   /\ ExecutorReturns("exception")
    /\ LeaveExecutor
    /\ UNCHANGED <<records, stepFaults, newestVars>>

-------------------------------------------------------------------------------
(* Cancellation, faults and the end of the process *)

\* The task is cancelled in the POST: except CancelledError runs first ...
CancelWhileWaiting ==
    /\ stage = "waiting"
    /\ workerKey \in signals
    /\ stage' = "cancelling"
    /\ UNCHANGED <<vars, verdict, records, stepFaults, newestVars>>

\* ... and releases the reservation, and nothing else.
CancelReleases ==
    /\ stage = "cancelling"
    /\ DeliverSignal(workerKey)
    /\ reservations' = Released(workerKey)
    /\ LeaveExecutor
    /\ UNCHANGED <<permits, events, sent, solutions, stepFaults, newestVars>>

\* Mutant of CancelWhileClosing: the cancellation reaches the coroutine at any
\* point of its way, the transactions after the answer included.
CancelAnywhere ==
    /\ stage \in {"closing", "returned", "persisted", "listed", "committed"}
    /\ workerKey \in signals
    /\ DeliverSignal(workerKey)
    /\ LeaveExecutor
    /\ UNCHANGED <<records, stepFaults, newestVars>>

\* The task is cancelled in aclose(): CancelledError is no Exception, so the
\* finally block lets it through, past every handler that could release.
CancelWhileClosing ==
    /\ stage = "closing"
    /\ workerKey \in signals
    /\ DeliverSignal(workerKey)
    /\ LeaveExecutor
    /\ UNCHANGED <<records, stepFaults, newestVars>>

\* A callback made for another run finds this one suspended and does nothing.
StraySignal(k) ==
    /\ stage \in Suspended
    /\ k # workerKey
    /\ DeliverSignal(k)
    /\ UNCHANGED pipeVars

\* A database error in the transaction that the stage is about to make.  Before
\* the answer is in, the generic handler releases; afterwards nobody does.
StepFails ==
    /\ stepFaults < MaxStepFaults
    /\ stepFaults' = stepFaults + 1
    /\ \/ /\ stage \in {"reserved", "permitted", "waiting"}
          /\ stage' = "releasing" /\ verdict' = "broken"
       \/ /\ stage = "releasing"
          /\ stage' = "closing" /\ verdict' = "broken"
       \/ /\ stage \in {"started", "cancelling", "returned", "persisted",
                       "listed", "failing"}
          /\ stage' = "raising" /\ UNCHANGED verdict
    /\ UNCHANGED <<vars, records, newestVars>>

CrashInExecutor ==
    /\ Crash
    /\ LeaveExecutor
    /\ UNCHANGED <<records, stepFaults, newestVars>>

-------------------------------------------------------------------------------
(* Synchronous generations of the same project *)

\* generate inserts its run when its model call is over and stores the run's
\* candidates in a later transaction, or never.  (generate_async takes its run's
\* created_at before the transaction that inserts it: a synchronous run inserted
\* between the two is the newest once both are there, as in the step that
\* inserts it just after.)
SyncInserts(p) ==
    /\ workerPc # "down"
    /\ bare' = bare \cup {p}
    /\ UNCHANGED <<vars, stage, verdict, records, stepFaults, overtaken>>

\* The candidates of the newest run, whose insertion, where the project was bare
\* already, has changed nothing.
SyncStores(p) ==
    /\ workerPc # "down"
    /\ p \in bare
    /\ bare' = bare \ {p}
    /\ UNCHANGED <<vars, stage, verdict, records, stepFaults, overtaken>>

-------------------------------------------------------------------------------

ExecutorStep ==
    \/ StartExecutor \/ PrologueFails \/ Reserve \/ AcquirePermit
    \/ EnterBoundary \/ (\E out \in BOOLEAN : Send(out))
    \/ \E event \in Confirming \cup Ambiguous, usable \in BOOLEAN :
          Answer(event, usable)
    \/ ReleaseOnFailure \/ CloseClient \/ RejectDraft \/ PersistSolutions
    \/ ListCandidates \/ CommitReservation \/ ReturnToWorker
    \/ CancelWhileWaiting \/ CancelReleases \/ CancelWhileClosing
    \/ (\E k \in Keys : StraySignal(k))
    \/ StepFails

\* What happens around the executor: the steps of AsyncGeneration but those
\* that start, end or cancel an executor.
AroundExecutor ==
    \/ Requests
    \/ \E k \in Keys : CancelHandler(k) \/ ClaimNext(k)
    \/ StartWorker \/ Poll \/ NothingToClaim \/ PublishLoop \/ CheckRun
    \/ Finish \/ Faults
    \/ StopWorker \/ ExitLoop

PipelineNext ==
    \/ ExecutorStep
    \/ AroundExecutor /\ UNCHANGED pipeVars
    \/ \E p \in Projects : SyncInserts(p) \/ SyncStores(p)
    \/ CrashInExecutor

PipelineSpec == PipelineInit /\ [][PipelineNext]_pipelineVars

-------------------------------------------------------------------------------
(* Properties *)

\* What the ledger says about an execution (ProviderDispatchLedger.classify).
Classify(k) ==
    IF ~permits[k] THEN "NOT_YET_ATTEMPTED"
    ELSE IF events[k] \cap Confirming # {} THEN "CONFIRMED_PROVIDER_DISPATCH"
    ELSE IF events[k] \cap (Ambiguous \cup {"CALL_BOUNDARY_ENTERED"}) # {}
    THEN "POSSIBLY_DISPATCHED_INDETERMINATE"
    ELSE "PROVEN_NOT_DISPATCHED"

\* The evidence of an acceptance run never understates what reached the
\* provider and never confirms what did not, whatever crash, cancellation or
\* failed write came between two of its steps.
EvidenceIsSound ==
    \A k \in Keys : Authorized(k) =>
        /\ sent[k] > 0 => Classify(k) \in {"POSSIBLY_DISPATCHED_INDETERMINATE",
                                           "CONFIRMED_PROVIDER_DISPATCH"}
        /\ Classify(k) = "CONFIRMED_PROVIDER_DISPATCH" => sent[k] > 0

\* Replays, restarts and cancellations together send a run's request to the
\* provider at most once.
SentAtMostOnce == \A k \in Keys : sent[k] <= 1

\* A run's answer, its charge and its stored solutions go together: only stored
\* solutions are charged, a run that succeeded is charged, and one that failed
\* without a database error and without a cancellation keeps nothing back.  A run
\* whose answer was overtaken by a synchronous one without candidates has failed
\* all the same, and keeps its whole charge.
ReservationFollowsRun ==
    \A k \in Keys :
        /\ reservations[k] = "COMMITTED" => solutions[k]
        /\ runs[k].status = "SUCCEEDED" => reservations[k] = "COMMITTED"
        /\ (/\ runs[k].status = "FAILED"
            /\ runs[k].result # "cancelled"
            /\ stepFaults + faults = 0)
            => reservations[k] \in IF k \in overtaken THEN {"COMMITTED"}
                                                      ELSE {"none", "RELEASED"}

\* A cancel request that comes too late never pre-empts a commit: when the
\* solutions of a run are stored and the run is settled, it has succeeded, unless
\* a database error came in between, or exactly when its answer was overtaken.
StoredSolutionsAreDelivered ==
    \A k \in Keys :
        (solutions[k] /\ runs[k].status \in Settled /\ stepFaults + faults = 0)
            => (runs[k].status = "SUCCEEDED" <=> k \notin overtaken)

\* What the resource matrix claims of a cancelled run, when nothing crashed and
\* no write failed: its reservation is released.
CancelledRunHoldsNothing ==
    \A k \in Keys :
        (runs[k].result = "cancelled" /\ restarts = 0 /\ stepFaults + faults = 0)
            => reservations[k] # "RESERVED"
==============================================================================
