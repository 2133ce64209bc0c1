------------------------ MODULE GenerationPipelineProofs ------------------------
(***************************************************************************)
(* Proofs about GenerationPipeline, for every set of keys, authorizations  *)
(* and models, every allowance and every bound: the executor that is       *)
(* opened into its steps is still the one of AsyncGeneration, so all that  *)
(* is proved of the queue holds of the pipeline, and the records its steps *)
(* leave agree with the run.                                               *)
(***************************************************************************)
EXTENDS GenerationPipeline, AsyncGenerationProofs

-------------------------------------------------------------------------------
(* The pipeline implements the queue *)

LEMMA PipelineStepIsQueueStep == IInv /\ [PipelineNext]_pipelineVars => [Next]_vars
<1> SUFFICES ASSUME IInv, [PipelineNext]_pipelineVars PROVE [Next]_vars
  OBVIOUS
<1>1. CASE ExecutorStep
  <2>1. CASE StartExecutor
    BY <2>1 DEF StartExecutor, Next, WorkerStep
  <2>2. CASE ReturnToWorker
    BY <2>2 DEF ReturnToWorker, ListedAnswer, ExecutorReturns, Next, Results
  <2>3. ASSUME NEW k, DeliverSignal(k) PROVE [Next]_vars
    BY <2>3 DEF DeliverSignal, Next, WorkerStep, IInv, TypeOK
  <2>4. CASE UNCHANGED vars
    BY <2>4
  <2>5. QED
    BY <1>1, <2>1, <2>2, <2>3, <2>4
    DEF ExecutorStep, PrologueFails, Reserve, AcquirePermit, EnterBoundary, Send, Answer,
        ReleaseOnFailure, CloseClient, RejectDraft, PersistSolutions, ListCandidates,
        CommitReservation, CancelWhileWaiting, CancelReleases, CancelWhileClosing,
        StraySignal, StepFails
<1>2. CASE AroundExecutor
  BY <1>2 DEF AroundExecutor, Next, WorkerStep
<1>3. CASE CrashInExecutor
  BY <1>3 DEF CrashInExecutor, Next
<1>4. CASE UNCHANGED vars
  BY <1>4
<1>5. QED
  BY <1>1, <1>2, <1>3, <1>4 DEF PipelineNext, SyncInserts, SyncStores, pipelineVars

LEMMA PipelineIInv == PipelineSpec => []IInv
<1>1. PipelineInit => IInv
  BY InitIInv DEF PipelineInit
<1>2. IInv /\ [PipelineNext]_pipelineVars => IInv'
  BY PipelineStepIsQueueStep, NextIInv
<1>3. QED
  BY <1>1, <1>2, PTL DEF PipelineSpec

\* Every behaviour of the executor with its reservations, permits, events, stores, faults and
\* cancellations is one of the queue, in which the executor is one step: what is proved of
\* Spec holds of PipelineSpec.
THEOREM PipelineImplementsQueue == PipelineSpec => Spec
<1>1. PipelineInit => Init
  BY DEF PipelineInit
<1>2. QED
  BY <1>1, PipelineStepIsQueueStep, PipelineIInv, PTL DEF PipelineSpec, Spec

THEOREM PipelineImplementsJob == PipelineSpec => ImplementsJob
  BY PipelineImplementsQueue, QueueImplementsJob

-------------------------------------------------------------------------------
(* The inductive invariant *)

RecordTypes ==
    /\ reservations \in [Keys -> {"none", "RESERVED", "COMMITTED", "RELEASED"}]
    /\ permits \in [Keys -> BOOLEAN]
    /\ events \in [Keys -> SUBSET Evidence]
    /\ sent \in [Keys -> Nat]
    /\ solutions \in [Keys -> BOOLEAN]
    /\ stepFaults \in Nat
    /\ overtaken \subseteq Keys

Untouched(k) == /\ reservations[k] = "none" /\ ~permits[k] /\ events[k] = {}
                /\ sent[k] = 0 /\ ~solutions[k] /\ k \notin overtaken

\* A run whose executor was not entered has left no record.
RecordsNeedEntry == \A k \in Keys : entered[k] = 0 => Untouched(k)

Recorded(k) == /\ Authorized(k) => permits[k]
               /\ events[k] \cap Confirming = {}
               /\ sent[k] = 0

BoundaryRecorded(k) == Authorized(k) => permits[k] /\ "CALL_BOUNDARY_ENTERED" \in events[k]

\* How far the executor has come says what it has recorded of the run k.
EvidenceByStage(k) ==
    /\ stage \in {"started", "reserved"} => ~permits[k] /\ events[k] = {} /\ sent[k] = 0
    /\ stage = "permitted" => Recorded(k)
    /\ stage = "boundary" => Recorded(k) /\ BoundaryRecorded(k)
    /\ stage \in {"waiting", "cancelling"} => BoundaryRecorded(k)

HoldsNothing(k) == /\ reservations[k] # "COMMITTED"
                   /\ stepFaults = 0 => reservations[k] \in {"none", "RELEASED"}

ReservationByStage(k) ==
    /\ stage = "started" => reservations[k] = "none"
    /\ stage \in {"reserved", "permitted", "boundary", "waiting", "cancelling", "releasing",
                  "returned", "persisted", "listed"} => reservations[k] = "RESERVED"
    /\ stage = "releasing" => verdict \in {"failed", "broken"}
    /\ stage = "closing" => \/ verdict = "draft" /\ reservations[k] = "RESERVED"
                            \/ verdict \in {"failed", "broken"} /\ HoldsNothing(k)
    /\ stage = "committed" => reservations[k] = "COMMITTED"
    /\ stage \in {"failing", "raising"} => HoldsNothing(k)

SolutionsByStage(k) ==
    /\ stage \in {"persisted", "listed", "committed"} => solutions[k]
    /\ stage \notin {"none", "persisted", "listed", "committed", "raising"} => ~solutions[k]
    /\ stage \notin {"none", "listed", "committed", "raising"} => k \notin overtaken
    /\ stage = "raising" /\ (solutions[k] \/ k \in overtaken) => stepFaults > 0

ByStage ==
    /\ stage \in Stages /\ (stage # "none" <=> workerPc = "awaiting")
    /\ stage # "none" => /\ EvidenceByStage(workerKey)
                         /\ ReservationByStage(workerKey)
                         /\ SolutionsByStage(workerKey)

\* What the ledger holds, whatever became of the executor.
EvidenceKept ==
    \A k \in Keys :
        /\ sent[k] > 0 => BoundaryRecorded(k)
        /\ Authorized(k) /\ events[k] \cap Confirming # {} => sent[k] > 0
        /\ sent[k] <= 1

NoFault == stepFaults = 0 /\ faults = 0

\* What the run of key k, answered with result, has kept.
Kept(k, result) ==
    /\ result = "candidates" => reservations[k] = "COMMITTED" /\ k \notin overtaken
    /\ result # "candidates" /\ NoFault =>
         \/ k \in overtaken /\ reservations[k] = "COMMITTED"
         \/ /\ k \notin overtaken /\ ~solutions[k]
            /\ result # "cancelled" => reservations[k] \in {"none", "RELEASED"}

RecordsFollowRun ==
    /\ \A k \in Keys : reservations[k] = "COMMITTED" => solutions[k]
    /\ \A k \in Keys : runs[k].status \in Settled => Kept(k, runs[k].result)
    /\ workerPc = "settling" => Kept(workerKey, outcome)

PipelineInv ==
    /\ RecordTypes
    /\ RecordsNeedEntry
    /\ ByStage
    /\ EvidenceKept
    /\ RecordsFollowRun

LEMMA PipelineInitInv == PipelineInit => PipelineInv
<1> SUFFICES ASSUME PipelineInit PROVE PipelineInv
  OBVIOUS
<1>1. RecordTypes /\ RecordsNeedEntry /\ ByStage
  BY DEF PipelineInit, Init, RecordTypes, RecordsNeedEntry, Untouched, ByStage, Stages
<1>2. EvidenceKept /\ RecordsFollowRun
  BY NullsAssumption DEF PipelineInit, Init, EvidenceKept, RecordsFollowRun, Kept, Settled,
     BoundaryRecorded, Authorized
<1>3. QED
  BY <1>1, <1>2 DEF PipelineInv

-------------------------------------------------------------------------------
(* The steps around the executor *)

\* What they do to the rows and to the worker, as far as the records are concerned.
LEMMA AroundFacts ==
  ASSUME IInv, AroundExecutor
  PROVE  /\ UNCHANGED entered
         /\ workerPc = "awaiting" <=> workerPc' = "awaiting"
         /\ workerPc = "awaiting" => workerKey' = workerKey
         /\ \A k \in Keys : entered[k] = 0 \/ Authorized(k)' = Authorized(k)
         /\ \A k \in Keys : runs'[k].status \in Settled =>
              \/ runs[k].status \in Settled /\ runs'[k].result = runs[k].result
              \/ k = workerKey /\ workerPc = "settling" /\ runs'[k].result = outcome
              \/ entered[k] = 0 /\ runs'[k].result = "cancelled"
         /\ workerPc' = "settling" =>
              \/ workerPc = "settling" /\ workerKey' = workerKey /\ outcome' = outcome
              \/ entered[workerKey'] = 0 /\ outcome' = "cancelled"
              \/ outcome' # "candidates" /\ faults' > 0
         /\ faults \in Nat /\ faults' \in Nat /\ faults' >= faults
<1>0. /\ runs \in [Keys -> Run] /\ entered \in [Keys -> Nat] /\ faults \in Nat
      /\ workerKey \in Keys \cup {NoKey}
      /\ WorkerHoldsRun /\ EnteredByPhase
  BY BoundsAssumption DEF IInv, TypeOK
<1>1. RunHistoryKept
  BY NextKeepsHistory DEF AroundExecutor, Next, WorkerStep
<1>2. ASSUME NEW k \in Keys, runs[k].status \in {"ABSENT", "PENDING"} PROVE entered[k] = 0
  <2>1. entered[k] \in Nat /\ entered[k] <= 1 /\ entered[k] # 1
    BY <1>0, <1>2 DEF IInv, OneExecution
  <2>2. QED
    BY <2>1
<1>3. \A k \in Keys : entered[k] = 0 \/ Authorized(k)' = Authorized(k)
  BY <1>1, <1>2 DEF RunHistoryKept, Exists, Authorized
<1>4. \A k \in Keys : runs[k].status \in Settled => runs'[k].result = runs[k].result
  BY <1>1 DEF RunHistoryKept
<1> DEFINE Worker == /\ UNCHANGED entered
                     /\ workerPc = "awaiting" <=> workerPc' = "awaiting"
                     /\ workerPc = "awaiting" => workerKey' = workerKey
                     /\ workerPc' = "settling" =>
                          \/ workerPc = "settling" /\ workerKey' = workerKey
                             /\ outcome' = outcome
                          \/ entered[workerKey'] = 0 /\ outcome' = "cancelled"
                          \/ outcome' # "candidates" /\ faults' > 0
                     /\ faults' \in Nat /\ faults' >= faults
           Rows == \A k \in Keys : runs'[k].status \in Settled /\ runs[k].status \notin Settled =>
                     \/ k = workerKey /\ workerPc = "settling" /\ runs'[k].result = outcome
                     \/ entered[k] = 0 /\ runs'[k].result = "cancelled"
<1>5. ASSUME UNCHANGED <<workerVars, faults>> PROVE Worker
  BY <1>0, <1>5 DEF workerVars
<1>6. ASSUME \A k \in Keys : runs'[k].status \in Settled => runs[k].status \in Settled
      PROVE  Rows
  BY <1>6
<1>7. CASE Requests
  <2>1. Worker
    BY <1>5, <1>7 DEF Requests, CreateRun, ReplayRun, RedeemAndCreate, RedeemReplay,
       IssueAuthorization, AuthorizationExpires
  <2>2. ASSUME NEW k \in Keys, NEW a, NEW m, NEW c, InsertRun(k, a, m, c)
        PROVE  Rows
    BY <1>0, <2>2 DEF InsertRun, NewRun, Settled
  <2>3. ASSUME NEW k \in Keys, CountReplay(k) PROVE Rows
    BY <1>0, <2>3 DEF CountReplay, Run
  <2>4. ASSUME UNCHANGED runs PROVE Rows
    BY <2>4
  <2>5. Rows
    BY <1>7, <2>2, <2>3, <2>4 DEF Requests, CreateRun, ReplayRun, RedeemAndCreate, RedeemReplay,
       IssueAuthorization, AuthorizationExpires
  <2>6. QED
    BY <1>0, <1>3, <1>4, <2>1, <2>5
<1>8. ASSUME NEW k \in Keys, CancelHandler(k)
      PROVE  Worker /\ Rows
  <2>1. CASE RequestCancel(k)
    <3>1. Worker
      BY <1>5, <2>1 DEF RequestCancel
    <3>2. \A j \in Keys \ {k} : runs'[j] = runs[j]
      BY <1>0, <2>1 DEF RequestCancel
    <3>3. CASE runs[k].status = "PENDING" /\ ~runs[k].cancelRequested
      <4>1. runs'[k] = Cancelled(runs[k])
        BY <1>0, <2>1, <3>3 DEF RequestCancel
      <4>2. runs'[k].result = "cancelled" /\ entered[k] = 0
        BY <1>0, <1>2, <3>3, <4>1 DEF Cancelled, Run
      <4>3. QED
        BY <3>1, <3>2, <4>2
    <3>4. CASE ~(runs[k].status = "PENDING" /\ ~runs[k].cancelRequested)
      <4>1. runs'[k].status = runs[k].status
        BY <1>0, <2>1, <3>4 DEF RequestCancel, Run
      <4>2. QED
        BY <3>1, <3>2, <4>1
    <3>5. QED
      BY <3>3, <3>4
  <2>2. CASE RereadRun(k) \/ SignalWorker(k) \/ CancelHandlerFails(k)
    BY <1>0, <2>2 DEF RereadRun, SignalWorker, CancelHandlerFails, dbVars, workerVars
  <2>3. QED
    BY <1>8, <2>1, <2>2 DEF CancelHandler
<1>9. ASSUME NEW k \in Keys, ClaimNext(k)
      PROVE  Worker /\ Rows
  BY <1>0, <1>9 DEF ClaimNext, Run, Settled
<1>10. CASE StartWorker \/ Poll \/ NothingToClaim \/ PublishLoop \/ StopWorker \/ ExitLoop
  BY <1>0, <1>3, <1>4, <1>10 DEF StartWorker, Poll, NothingToClaim, PublishLoop, StopWorker,
     ExitLoop, ProcessGone, dbVars
<1>11. CASE CheckRun
  BY <1>0, <1>3, <1>4, <1>11 DEF CheckRun, dbVars, EnteredByPhase
<1>12. CASE Finish
  <2>1. Worker
    BY <1>0, <1>12 DEF Finish, LeaveRun
  <2>2. workerKey \in Keys /\ workerPc = "settling"
    BY <1>0, <1>12 DEF Finish, WorkerHoldsRun, Busy
  <2>3. /\ runs'[workerKey].result = outcome
        /\ \A k \in Keys \ {workerKey} : runs'[k] = runs[k]
    <3>1. /\ runs'[workerKey] = [runs[workerKey] EXCEPT !.status = FinalStatus(outcome),
                                                        !.result = outcome,
                                                        !.quota  = FinalQuota(outcome)]
          /\ \A k \in Keys \ {workerKey} : runs'[k] = runs[k]
      BY <1>0, <1>12, <2>2, NullsAssumption DEF Finish, WorkerHoldsRun
    <3>2. QED
      BY <1>0, <2>2, <3>1 DEF Run
  <2>4. Rows
    BY <2>2, <2>3
  <2>5. QED
    BY <1>0, <1>3, <1>4, <2>1, <2>4
<1>13. CASE Faults
  BY <1>0, <1>3, <1>4, <1>13
  DEF Faults, PreparationFails, FinishFails, ClaimFails, LeaveRun, dbVars
<1>14. QED
  BY <1>0, <1>3, <1>4, <1>7, <1>8, <1>9, <1>10, <1>11, <1>12, <1>13 DEF AroundExecutor

LEMMA AroundKeepsInv ==
  ASSUME IInv, PipelineInv, AroundExecutor, UNCHANGED pipeVars
  PROVE  PipelineInv'
<1>1. UNCHANGED <<stage, verdict, reservations, permits, events, sent, solutions, stepFaults,
                  overtaken>>
  BY DEF pipeVars, newestVars
<1>2. RecordTypes' /\ RecordsNeedEntry'
  BY <1>1, AroundFacts DEF PipelineInv, RecordTypes, RecordsNeedEntry, Untouched
<1>3. ASSUME stage # "none"
      PROVE  /\ workerKey' = workerKey /\ workerKey \in Keys
             /\ Authorized(workerKey)' = Authorized(workerKey)
  <2>1. workerPc = "awaiting"
    BY <1>3 DEF PipelineInv, ByStage
  <2>2. workerKey \in Keys /\ entered[workerKey] = 1
    BY <2>1 DEF IInv, TypeOK, WorkerHoldsRun, EnteredByPhase, Busy
  <2>3. QED
    BY <2>1, <2>2, AroundFacts DEF Authorized
<1>4. ByStage'
  BY <1>1, <1>3, AroundFacts
  DEF PipelineInv, ByStage, EvidenceByStage, ReservationByStage, SolutionsByStage, Recorded,
      BoundaryRecorded, HoldsNothing
<1>5. EvidenceKept'
  <2> SUFFICES ASSUME NEW k \in Keys PROVE EvidenceKept!(k)'
    BY DEF EvidenceKept
  <2>1. CASE entered[k] = 0
    BY <1>1, <2>1 DEF PipelineInv, RecordsNeedEntry, Untouched, EvidenceKept
  <2>2. CASE Authorized(k)' = Authorized(k)
    BY <1>1, <2>2 DEF PipelineInv, EvidenceKept, BoundaryRecorded
  <2>3. QED
    BY <2>1, <2>2, AroundFacts
<1>6. RecordsFollowRun'
  <2>1. NoFault' => NoFault
    BY <1>1, AroundFacts DEF NoFault, PipelineInv, RecordTypes
  <2>2. ASSUME NEW k \in Keys, NEW result, Kept(k, result) PROVE Kept(k, result)'
    BY <1>1, <2>1, <2>2 DEF Kept
  <2>3. ASSUME NEW k \in Keys, entered[k] = 0
        PROVE  reservations'[k] = "none" /\ ~solutions'[k] /\ k \notin overtaken'
    BY <1>1, <2>3 DEF PipelineInv, RecordsNeedEntry, Untouched
  <2>4. ASSUME NEW k \in Keys, runs'[k].status \in Settled
        PROVE  Kept(k, runs[k].result)'
    <3>1. CASE runs[k].status \in Settled /\ runs'[k].result = runs[k].result
      BY <1>1, <2>1, <3>1 DEF PipelineInv, RecordsFollowRun, Kept
    <3>2. CASE k = workerKey /\ workerPc = "settling" /\ runs'[k].result = outcome
      BY <1>1, <2>1, <3>2 DEF PipelineInv, RecordsFollowRun, Kept
    <3>3. CASE entered[k] = 0 /\ runs'[k].result = "cancelled"
      BY <2>3, <3>3 DEF Kept
    <3>4. QED
      BY <2>4, <3>1, <3>2, <3>3, AroundFacts
  <2>5. ASSUME workerPc' = "settling" PROVE Kept(workerKey, outcome)'
    <3>1. CASE workerPc = "settling" /\ workerKey' = workerKey /\ outcome' = outcome
      BY <1>1, <2>1, <3>1 DEF PipelineInv, RecordsFollowRun, Kept
    <3>2. CASE entered[workerKey'] = 0 /\ outcome' = "cancelled"
      <4>1. workerKey' \in Keys
        <5>1. IInv'
          BY NextIInv DEF AroundExecutor, Next, WorkerStep
        <5>2. QED
          BY <2>5, <5>1 DEF IInv, TypeOK, WorkerHoldsRun, Busy
      <4>2. QED
        BY <2>3, <3>2, <4>1 DEF Kept
    <3>3. CASE outcome' # "candidates" /\ faults' > 0
      BY <1>1, <3>3, AroundFacts DEF Kept, NoFault, PipelineInv, RecordTypes
    <3>4. QED
      BY <2>5, <3>1, <3>2, <3>3, AroundFacts
  <2>6. QED
    BY <1>1, <2>4, <2>5 DEF PipelineInv, RecordsFollowRun
<1>7. QED
  BY <1>2, <1>4, <1>5, <1>6 DEF PipelineInv

-------------------------------------------------------------------------------
(* The steps of the executor *)

\* The records of the run k, whose executor has got as far as stage says.
OwnRecords(k) ==
    /\ EvidenceByStage(k) /\ ReservationByStage(k) /\ SolutionsByStage(k)
    /\ sent[k] > 0 => BoundaryRecorded(k)
    /\ Authorized(k) /\ events[k] \cap Confirming # {} => sent[k] > 0
    /\ sent[k] <= 1
    /\ reservations[k] = "COMMITTED" => solutions[k]

OthersKept ==
    \A k \in Keys \ {workerKey} :
        /\ reservations'[k] = reservations[k] /\ permits'[k] = permits[k]
        /\ events'[k] = events[k] /\ sent'[k] = sent[k] /\ solutions'[k] = solutions[k]
        /\ k \in overtaken' <=> k \in overtaken

LEMMA OwnRecordsHold ==
  ASSUME IInv, PipelineInv, stage # "none"
  PROVE  /\ workerKey \in Keys /\ OwnRecords(workerKey)
         /\ workerPc = "awaiting" /\ entered[workerKey] = 1
         /\ runs[workerKey].status = "RUNNING"
<1>1. workerPc = "awaiting"
  BY DEF PipelineInv, ByStage
<1>2. /\ workerKey \in Keys /\ entered[workerKey] = 1
      /\ runs[workerKey].status = "RUNNING"
  BY <1>1 DEF IInv, TypeOK, WorkerHoldsRun, EnteredByPhase, Busy
<1>3. QED
  BY <1>1, <1>2 DEF PipelineInv, ByStage, EvidenceKept, RecordsFollowRun, OwnRecords

LEMMA NoFaultBefore ==
  ASSUME IInv, PipelineInv, RecordTypes', stepFaults' >= stepFaults, UNCHANGED faults
  PROVE  NoFault' => NoFault
<1>1. stepFaults \in Nat /\ stepFaults' \in Nat /\ faults \in Nat
  BY BoundsAssumption DEF PipelineInv, RecordTypes, IInv, TypeOK
<1>2. QED
  BY <1>1 DEF NoFault

\* What a step does to the records of its run leaves those of the others alone.
LEMMA OthersGoOn ==
  ASSUME IInv, PipelineInv, workerKey \in Keys, OthersKept, RecordTypes',
         entered'[workerKey] = 1,
         UNCHANGED <<runs, workerKey, faults>>, stepFaults' >= stepFaults,
         \A k \in Keys \ {workerKey} : entered'[k] = entered[k],
         sent'[workerKey] > 0 => BoundaryRecorded(workerKey)',
         Authorized(workerKey) /\ events'[workerKey] \cap Confirming # {} => sent'[workerKey] > 0,
         sent'[workerKey] <= 1,
         reservations'[workerKey] = "COMMITTED" => solutions'[workerKey],
         runs[workerKey].status = "RUNNING"
  PROVE  /\ RecordsNeedEntry' /\ EvidenceKept'
         /\ \A k \in Keys : reservations'[k] = "COMMITTED" => solutions'[k]
         /\ \A k \in Keys : runs'[k].status \in Settled => Kept(k, runs[k].result)'
<1> DEFINE own == workerKey
<1>0. runs' = runs /\ workerKey' = workerKey /\ faults' = faults
  OBVIOUS
<1>1. RecordsNeedEntry'
  BY DEF PipelineInv, RecordsNeedEntry, Untouched, OthersKept
<1>2. EvidenceKept'
  <2> SUFFICES ASSUME NEW k \in Keys PROVE EvidenceKept!(k)'
    BY DEF EvidenceKept
  <2>1. CASE k = own
    BY <1>0, <2>1 DEF Authorized, BoundaryRecorded
  <2>2. CASE k # own
    BY <2>2 DEF PipelineInv, EvidenceKept, BoundaryRecorded, Authorized, OthersKept
  <2>3. QED
    BY <2>1, <2>2
<1>3. \A k \in Keys : reservations'[k] = "COMMITTED" => solutions'[k]
  BY DEF PipelineInv, RecordsFollowRun, OthersKept
<1>4. NoFault' => NoFault
  BY NoFaultBefore
<1>5. ASSUME NEW k \in Keys, runs'[k].status \in Settled PROVE Kept(k, runs[k].result)'
  <2>1. k # own /\ runs[k].status \in Settled
    BY <1>5 DEF Settled
  <2>2. QED
    BY <1>4, <2>1 DEF PipelineInv, RecordsFollowRun, Kept, OthersKept
<1>6. QED
  BY <1>1, <1>2, <1>3, <1>5

\* A step that stays within the executor.
LEMMA ExecutorGoesOn ==
  ASSUME IInv, PipelineInv, stage # "none", UNCHANGED vars, OthersKept, RecordTypes',
         stepFaults' >= stepFaults, stage' \in Stages \ {"none"}, OwnRecords(workerKey)'
  PROVE  PipelineInv'
<1>1. /\ workerKey \in Keys /\ workerPc = "awaiting" /\ entered[workerKey] = 1
      /\ runs[workerKey].status = "RUNNING"
  BY OwnRecordsHold
<1>2. UNCHANGED <<runs, workerPc, workerKey, outcome, entered, faults>>
  BY DEF vars
<1>3. /\ sent'[workerKey] > 0 => BoundaryRecorded(workerKey)'
      /\ Authorized(workerKey) /\ events'[workerKey] \cap Confirming # {}
         => sent'[workerKey] > 0
      /\ sent'[workerKey] <= 1
      /\ reservations'[workerKey] = "COMMITTED" => solutions'[workerKey]
      /\ EvidenceByStage(workerKey)' /\ ReservationByStage(workerKey)'
      /\ SolutionsByStage(workerKey)'
  BY <1>2 DEF OwnRecords, Authorized
<1>4. /\ RecordsNeedEntry' /\ EvidenceKept'
      /\ \A k \in Keys : reservations'[k] = "COMMITTED" => solutions'[k]
      /\ \A k \in Keys : runs'[k].status \in Settled => Kept(k, runs[k].result)'
  BY <1>1, <1>2, <1>3, OthersGoOn
<1>5. ByStage'
  BY <1>1, <1>2, <1>3 DEF ByStage
<1>6. RecordsFollowRun'
  BY <1>1, <1>2, <1>4 DEF RecordsFollowRun
<1>7. QED
  BY <1>4, <1>5, <1>6 DEF PipelineInv

LEMMA ExecutorKeepsInv == IInv /\ PipelineInv /\ ExecutorStep => PipelineInv'
<1> SUFFICES ASSUME IInv, PipelineInv, ExecutorStep PROVE PipelineInv'
  OBVIOUS
<1> DEFINE own == workerKey
<1>1. RecordTypes /\ stepFaults \in Nat
  BY DEF PipelineInv, RecordTypes
<1>2. ASSUME stage # "none" PROVE own \in Keys /\ OwnRecords(own)
  BY <1>2, OwnRecordsHold
<1>3. CASE PrologueFails \/ Reserve
  <2>1. /\ stage = "started" /\ own \in Keys /\ OwnRecords(own)
        /\ UNCHANGED <<vars, permits, events, sent, solutions, stepFaults, overtaken>>
    BY <1>2, <1>3 DEF PrologueFails, Reserve, records, newestVars
  <2>2. /\ \A k \in Keys \ {own} : reservations'[k] = reservations[k]
        /\ \/ stage' = "raising" /\ reservations' = reservations
           \/ stage' = "reserved" /\ reservations'[own] = "RESERVED"
        /\ RecordTypes'
    BY <1>1, <1>3, <2>1 DEF PrologueFails, Reserve, records, RecordTypes
  <2>3. OwnRecords(own)'
    BY <2>1, <2>2 DEF vars, OwnRecords, EvidenceByStage, ReservationByStage, SolutionsByStage,
       HoldsNothing, BoundaryRecorded, Authorized
  <2>4. QED
    BY <1>1, <2>1, <2>2, <2>3, ExecutorGoesOn DEF OthersKept, Stages
<1>4. CASE AcquirePermit
  <2>1. /\ stage = "reserved" /\ own \in Keys /\ OwnRecords(own)
        /\ UNCHANGED <<vars, reservations, sent, solutions, stepFaults, overtaken>>
    BY <1>2, <1>4 DEF AcquirePermit, newestVars
  <2>2. ~permits[own] /\ events[own] = {} /\ sent[own] = 0
    BY <2>1 DEF OwnRecords, EvidenceByStage
  <2>3. /\ stage' = "permitted"
        /\ permits' \in {permits, [permits EXCEPT ![own] = TRUE]}
        /\ events' \in {events, [events EXCEPT ![own] = @ \cup {"PERMIT_ACQUIRED"}]}
        /\ Authorized(own) => permits' = [permits EXCEPT ![own] = TRUE]
    BY <1>4, <2>2 DEF AcquirePermit
  <2>4. RecordTypes'
    BY <1>1, <2>1, <2>3 DEF RecordTypes, Evidence
  <2>5. /\ stage' = "permitted" /\ RecordTypes' /\ OthersKept
        /\ Authorized(own) => permits'[own]
        /\ events'[own] \subseteq {"PERMIT_ACQUIRED"}
    BY <1>1, <2>1, <2>2, <2>3, <2>4 DEF RecordTypes, OthersKept
  <2>6. events'[own] \cap Confirming = {}
    BY <2>5 DEF Confirming
  <2>7. OwnRecords(own)'
    BY <2>1, <2>2, <2>5, <2>6 DEF vars, OwnRecords, EvidenceByStage, ReservationByStage,
       SolutionsByStage, Recorded, BoundaryRecorded, Authorized
  <2>8. QED
    BY <1>1, <2>1, <2>5, <2>7, ExecutorGoesOn DEF Stages
<1>5. CASE EnterBoundary
  <2>1. /\ stage = "permitted" /\ stage' = "boundary" /\ own \in Keys /\ OwnRecords(own)
        /\ UNCHANGED <<vars, reservations, permits, sent, solutions, stepFaults, overtaken>>
    BY <1>2, <1>5 DEF EnterBoundary, newestVars
  <2>2. /\ RecordTypes' /\ OthersKept
        /\ Authorized(own) => "CALL_BOUNDARY_ENTERED" \in events'[own]
        /\ events'[own] \subseteq events[own] \cup {"CALL_BOUNDARY_ENTERED"}
    BY <1>1, <1>5, <2>1 DEF EnterBoundary, RecordTypes, Evidence, OthersKept
  <2>3. Recorded(own)
    BY <2>1 DEF OwnRecords, EvidenceByStage
  <2>4. events'[own] \cap Confirming = {}
    BY <2>2, <2>3 DEF Confirming, Recorded
  <2>5. OwnRecords(own)'
    BY <2>1, <2>2, <2>3, <2>4 DEF vars, OwnRecords, EvidenceByStage, ReservationByStage,
       SolutionsByStage, Recorded, BoundaryRecorded, Authorized
  <2>6. QED
    BY <1>1, <2>1, <2>2, <2>5, ExecutorGoesOn DEF Stages
<1>6. ASSUME NEW out \in BOOLEAN, Send(out) PROVE PipelineInv'
  <2>1. /\ stage = "boundary" /\ stage' = "waiting" /\ own \in Keys /\ OwnRecords(own)
        /\ UNCHANGED <<vars, verdict, reservations, permits, events, solutions, stepFaults, overtaken>>
    BY <1>2, <1>6 DEF Send, newestVars
  <2>2. Recorded(own) /\ BoundaryRecorded(own)
    BY <2>1 DEF OwnRecords, EvidenceByStage
  <2>3. RecordTypes' /\ OthersKept /\ sent'[own] <= 1
    BY <1>1, <1>6, <2>1, <2>2 DEF Send, RecordTypes, OthersKept, Recorded
  <2>4. OwnRecords(own)'
    BY <2>1, <2>2, <2>3 DEF vars, OwnRecords, EvidenceByStage, ReservationByStage,
       SolutionsByStage, Recorded, BoundaryRecorded, Authorized
  <2>5. QED
    BY <1>1, <2>1, <2>3, <2>4, ExecutorGoesOn DEF Stages
<1>7. ASSUME NEW event \in Confirming \cup Ambiguous, NEW usable \in BOOLEAN,
             Answer(event, usable)
      PROVE  PipelineInv'
  <2>1. /\ stage = "waiting" /\ own \in Keys /\ OwnRecords(own)
        /\ UNCHANGED <<vars, reservations, permits, sent, solutions, stepFaults, overtaken>>
        /\ \/ stage' = "closing" /\ verdict' = "draft"
           \/ stage' = "releasing" /\ verdict' = "failed"
    BY <1>2, <1>7 DEF Answer, newestVars
  <2>2. BoundaryRecorded(own) /\ reservations[own] = "RESERVED" /\ ~solutions[own]
    BY <2>1 DEF OwnRecords, EvidenceByStage, ReservationByStage, SolutionsByStage
  <2>3. /\ RecordTypes' /\ OthersKept
        /\ events[own] \subseteq events'[own] /\ events'[own] \subseteq events[own] \cup {event}
        /\ event \in Confirming => sent[own] > 0
    BY <1>1, <1>7, <2>1 DEF Answer, RecordTypes, Evidence, Confirming, Ambiguous, OthersKept
  <2>4. Authorized(own) /\ events'[own] \cap Confirming # {} => sent[own] > 0
    BY <2>1, <2>3 DEF OwnRecords
  <2>5. OwnRecords(own)'
    BY <2>1, <2>2, <2>3, <2>4 DEF vars, OwnRecords, EvidenceByStage, ReservationByStage,
       SolutionsByStage, BoundaryRecorded, Authorized
  <2>6. QED
    BY <1>1, <2>1, <2>3, <2>5, ExecutorGoesOn DEF Stages
<1>8. ASSUME stage \in {"releasing", "returned", "persisted", "listed"} \cup Suspended \cup {"failing"},
             own \in Keys, OwnRecords(own),
             UNCHANGED <<vars, permits, events, sent>>, OthersKept, RecordTypes',
             stepFaults' >= stepFaults, stage' \in Stages \ {"none", "started", "reserved"},
             stage' \notin {"permitted", "boundary", "waiting", "cancelling"},
             ReservationByStage(own)', SolutionsByStage(own)',
             reservations'[own] = "COMMITTED" => solutions'[own]
      PROVE  PipelineInv'
  <2>1. OwnRecords(own)'
    BY <1>8 DEF vars, OwnRecords, EvidenceByStage, BoundaryRecorded, Authorized
  <2>2. stage # "none"
    BY <1>8 DEF Suspended
  <2>3. QED
    BY <1>8, <2>1, <2>2, ExecutorGoesOn
<1>9. CASE ReleaseOnFailure \/ RejectDraft
  <2>1. /\ stage \in {"releasing", "returned"} /\ own \in Keys /\ OwnRecords(own)
        /\ UNCHANGED <<vars, verdict, permits, events, sent, solutions, stepFaults, overtaken>>
        /\ reservations' = Released(own)
        /\ \/ stage = "releasing" /\ stage' = "closing"
           \/ stage = "returned" /\ stage' = "failing"
    BY <1>2, <1>9 DEF ReleaseOnFailure, RejectDraft, newestVars
  <2>2. reservations[own] = "RESERVED"
    BY <2>1 DEF OwnRecords, ReservationByStage
  <2>3. /\ RecordTypes' /\ OthersKept /\ reservations'[own] = "RELEASED"
    BY <1>1, <2>1, <2>2 DEF Released, RecordTypes, OthersKept
  <2>4. ReservationByStage(own)' /\ SolutionsByStage(own)'
    BY <2>1, <2>3 DEF vars, OwnRecords, ReservationByStage, SolutionsByStage, HoldsNothing
  <2>5. QED
    BY <1>1, <1>8, <2>1, <2>3, <2>4 DEF Stages
<1>10. CASE CloseClient
  <2>1. /\ stage = "closing" /\ own \in Keys /\ OwnRecords(own)
        /\ UNCHANGED <<vars, verdict, records, stepFaults, overtaken>>
    BY <1>2, <1>10 DEF CloseClient, newestVars
  <2>2. /\ ~solutions[own] /\ own \notin overtaken
        /\ \/ verdict = "draft" /\ reservations[own] = "RESERVED"
           \/ verdict \in {"failed", "broken"} /\ HoldsNothing(own)
    BY <2>1 DEF OwnRecords, ReservationByStage, SolutionsByStage
  <2>3. /\ verdict = "draft" => stage' = "returned"
        /\ verdict = "failed" => stage' = "failing"
        /\ verdict = "broken" => stage' = "raising"
    BY <1>10 DEF CloseClient, newestVars
  <2>4. RecordTypes' /\ OthersKept
    BY <1>1, <2>1 DEF records, RecordTypes, OthersKept
  <2>5. ReservationByStage(own)' /\ SolutionsByStage(own)'
    BY <2>1, <2>2, <2>3 DEF vars, records, ReservationByStage, SolutionsByStage, HoldsNothing
  <2>6. reservations'[own] = "COMMITTED" => solutions'[own]
    BY <2>1 DEF vars, records, OwnRecords
  <2>7. QED
    BY <1>1, <1>8, <2>1, <2>2, <2>3, <2>4, <2>5, <2>6 DEF Stages, Suspended, records
<1>11. CASE PersistSolutions
  <2>1. /\ stage = "returned" /\ stage' = "persisted" /\ own \in Keys /\ OwnRecords(own)
        /\ UNCHANGED <<vars, verdict, reservations, permits, events, sent, stepFaults, overtaken>>
    BY <1>2, <1>11 DEF PersistSolutions, newestVars
  <2>2. RecordTypes' /\ OthersKept /\ solutions'[own]
    BY <1>1, <1>11, <2>1 DEF PersistSolutions, RecordTypes, OthersKept
  <2>3. ReservationByStage(own)' /\ SolutionsByStage(own)'
    BY <2>1, <2>2 DEF vars, OwnRecords, ReservationByStage, SolutionsByStage
  <2>4. QED
    BY <1>1, <1>8, <2>1, <2>2, <2>3 DEF Stages
<1>12. CASE CommitReservation
  <2>1. /\ stage = "listed" /\ stage' = "committed" /\ own \in Keys /\ OwnRecords(own)
        /\ UNCHANGED <<vars, verdict, permits, events, sent, solutions, stepFaults, overtaken>>
    BY <1>2, <1>12 DEF CommitReservation, newestVars
  <2>2. reservations[own] = "RESERVED" /\ solutions[own]
    BY <2>1 DEF OwnRecords, ReservationByStage, SolutionsByStage
  <2>3. RecordTypes' /\ OthersKept /\ reservations'[own] = "COMMITTED"
    BY <1>1, <1>12, <2>1, <2>2 DEF CommitReservation, RecordTypes, OthersKept
  <2>4. ReservationByStage(own)' /\ SolutionsByStage(own)'
    BY <2>1, <2>2, <2>3 DEF vars, ReservationByStage, SolutionsByStage
  <2>5. QED
    BY <1>1, <1>8, <2>1, <2>2, <2>3, <2>4 DEF Stages
<1>12a. CASE ListCandidates
  <2>1. /\ stage = "persisted" /\ stage' = "listed" /\ own \in Keys /\ OwnRecords(own)
        /\ UNCHANGED <<vars, verdict, records, stepFaults>>
        /\ overtaken' \in {overtaken, overtaken \cup {own}}
    BY <1>2, <1>12a DEF ListCandidates
  <2>2. RecordTypes' /\ OthersKept
    BY <1>1, <2>1 DEF records, RecordTypes, OthersKept
  <2>3. ReservationByStage(own)' /\ SolutionsByStage(own)'
    BY <2>1 DEF vars, records, OwnRecords, ReservationByStage, SolutionsByStage
  <2>4. QED
    BY <1>1, <1>8, <2>1, <2>2, <2>3 DEF Stages, records, OwnRecords
<1>13. CASE CancelWhileWaiting
  <2>1. /\ stage = "waiting" /\ stage' = "cancelling" /\ own \in Keys /\ OwnRecords(own)
        /\ UNCHANGED <<vars, verdict, records, stepFaults, overtaken>>
    BY <1>2, <1>13 DEF CancelWhileWaiting, newestVars
  <2>2. RecordTypes' /\ OthersKept
    BY <1>1, <2>1 DEF records, RecordTypes, OthersKept
  <2>3. OwnRecords(own)'
    BY <2>1 DEF vars, records, OwnRecords, EvidenceByStage, ReservationByStage,
       SolutionsByStage, BoundaryRecorded, Authorized
  <2>4. QED
    BY <1>1, <2>1, <2>2, <2>3, ExecutorGoesOn DEF Stages
<1>14. CASE StepFails
  <2>1. /\ stage # "none" /\ UNCHANGED <<vars, records, overtaken>> /\ stepFaults' = stepFaults + 1
        /\ \/ /\ stage \in {"reserved", "permitted", "waiting"}
              /\ stage' = "releasing" /\ verdict' = "broken"
           \/ /\ stage = "releasing"
              /\ stage' = "closing" /\ verdict' = "broken"
           \/ /\ stage \in {"started", "cancelling", "returned", "persisted",
                            "listed", "failing"}
              /\ stage' = "raising"
    BY <1>14 DEF StepFails, newestVars
  <2>2. own \in Keys /\ OwnRecords(own) /\ stepFaults' \in Nat /\ stepFaults' > 0
        /\ stepFaults' >= stepFaults
    BY <1>1, <1>2, <2>1
  <2>3. RecordTypes' /\ OthersKept
    BY <1>1, <2>1, <2>2 DEF records, RecordTypes, OthersKept
  <2>4. stepFaults' # 0
    BY <2>2
  <2>5. ReservationByStage(own)'
    BY <2>1, <2>2, <2>4 DEF vars, records, OwnRecords, ReservationByStage, HoldsNothing
  <2>6. SolutionsByStage(own)'
    BY <2>1, <2>2 DEF vars, records, OwnRecords, SolutionsByStage
  <2>7. EvidenceByStage(own)'
    BY <2>1 DEF EvidenceByStage
  <2>8. OwnRecords(own)'
    BY <2>1, <2>2, <2>5, <2>6, <2>7 DEF vars, records, OwnRecords, BoundaryRecorded, Authorized
  <2>9. QED
    BY <2>1, <2>2, <2>3, <2>8, ExecutorGoesOn DEF Stages
<1>15. CASE StartExecutor
  <2>1. EnterExecutor(TRUE) /\ stage' = "started" /\ UNCHANGED <<verdict, records, stepFaults, overtaken>>
    BY <1>15 DEF StartExecutor, newestVars
  <2>2. /\ own \in Keys /\ entered[own] = 0 /\ runs[own].status = "RUNNING"
        /\ workerPc = "checked" /\ runs \in [Keys -> Run] /\ entered \in [Keys -> Nat]
    BY <2>1 DEF EnterExecutor, IInv, TypeOK, WorkerHoldsRun, EnteredByPhase, Busy
  <2>3. /\ workerPc' = "awaiting" /\ UNCHANGED <<workerKey, outcome, faults>>
        /\ entered'[own] = 1 /\ \A k \in Keys \ {own} : entered'[k] = entered[k]
        /\ \A k \in Keys : /\ runs'[k].status = runs[k].status
                           /\ runs'[k].result = runs[k].result
                           /\ runs'[k].auth = runs[k].auth
    BY <2>1, <2>2 DEF EnterExecutor, Run
  <2>4. Untouched(own)
    BY <2>2 DEF PipelineInv, RecordsNeedEntry
  <2>5. /\ UNCHANGED <<reservations, permits, events, sent, solutions, stepFaults, overtaken>>
        /\ RecordTypes' /\ RecordsNeedEntry'
    BY <1>1, <2>1, <2>2, <2>3 DEF records, RecordTypes, PipelineInv, RecordsNeedEntry, Untouched
  <2>6. ByStage'
    BY <2>1, <2>3, <2>4, <2>5 DEF ByStage, Stages, Untouched, EvidenceByStage,
       ReservationByStage, SolutionsByStage
  <2>7. EvidenceKept'
    BY <2>3, <2>5 DEF PipelineInv, EvidenceKept, BoundaryRecorded, Authorized
  <2>8. RecordsFollowRun'
    BY <2>3, <2>5 DEF PipelineInv, RecordsFollowRun, Kept, NoFault
  <2>9. QED
    BY <2>5, <2>6, <2>7, <2>8 DEF PipelineInv
<1>16. ASSUME NEW k \in Keys, StraySignal(k) PROVE PipelineInv'
  <2>1. /\ UNCHANGED pipeVars
        /\ UNCHANGED <<runs, workerPc, workerKey, outcome, entered, faults>>
    BY <1>16 DEF StraySignal, DeliverSignal, dbVars
  <2>2. QED
    BY <2>1 DEF pipeVars, newestVars, PipelineInv, RecordTypes, RecordsNeedEntry, Untouched,
       ByStage,
       EvidenceByStage, ReservationByStage, SolutionsByStage, Recorded, BoundaryRecorded,
       Authorized, HoldsNothing, EvidenceKept, RecordsFollowRun, Kept, NoFault
<1>17. ASSUME stage # "none", UNCHANGED <<runs, workerKey, entered, faults, stepFaults, overtaken>>,
              UNCHANGED <<permits, events, sent, solutions, overtaken>>, RecordTypes',
              \A k \in Keys \ {own} : reservations'[k] = reservations[k],
              reservations'[own] # "COMMITTED" \/ reservations'[own] = reservations[own],
              workerPc' = "settling", LeaveExecutor, Kept(workerKey, outcome)'
       PROVE  PipelineInv'
  <2>1. /\ own \in Keys /\ OwnRecords(own) /\ entered[own] = 1
        /\ runs[own].status = "RUNNING"
    BY <1>17, OwnRecordsHold
  <2>2. ByStage'
    BY <1>17 DEF LeaveExecutor, ByStage, Stages
  <2>3. EvidenceKept'
    BY <1>17 DEF PipelineInv, EvidenceKept, BoundaryRecorded, Authorized
  <2>4. RecordsNeedEntry'
    BY <1>17, <2>1 DEF PipelineInv, RecordsNeedEntry, Untouched
  <2>5. \A k \in Keys : reservations'[k] = "COMMITTED" => solutions'[k]
    BY <1>17 DEF PipelineInv, RecordsFollowRun
  <2>6. ASSUME NEW k \in Keys, runs'[k].status \in Settled PROVE Kept(k, runs[k].result)'
    <3>1. k # own /\ runs[k].status \in Settled
      BY <1>17, <2>1, <2>6 DEF Settled
    <3>2. QED
      BY <1>17, <3>1 DEF PipelineInv, RecordsFollowRun, Kept, NoFault
  <2>7. RecordsFollowRun'
    BY <1>17, <2>5, <2>6 DEF RecordsFollowRun
  <2>8. QED
    BY <1>17, <2>2, <2>3, <2>4, <2>7 DEF PipelineInv
<1>18. CASE ReturnToWorker
  <2>1. /\ \/ stage = "committed" /\ outcome' = ListedAnswer(own)
           \/ stage = "failing"   /\ outcome' = "error"
           \/ stage = "raising"   /\ outcome' = "exception"
        /\ workerPc' = "settling" /\ LeaveExecutor
        /\ UNCHANGED <<runs, workerKey, entered, faults, stepFaults, overtaken>>
        /\ UNCHANGED <<reservations, permits, events, sent, solutions, overtaken>>
    BY <1>18 DEF ReturnToWorker, ExecutorReturns, records, newestVars, dbVars
  <2>2. OwnRecords(own)
    BY <1>2, <2>1
  <2>3. Kept(workerKey, outcome)'
    BY <2>1, <2>2 DEF Kept, NoFault, OwnRecords, ReservationByStage, SolutionsByStage,
       HoldsNothing, ListedAnswer
  <2>4. RecordTypes'
    BY <1>1, <2>1 DEF RecordTypes
  <2>5. QED
    BY <1>17, <2>1, <2>3, <2>4
<1>19. ASSUME stage \in {"cancelling", "closing"}, DeliverSignal(own), LeaveExecutor,
              reservations' \in {reservations, Released(own)},
              UNCHANGED <<permits, events, sent, solutions, stepFaults, overtaken>>
       PROVE  PipelineInv'
  <2>1. /\ workerPc' = "settling" /\ outcome' = "cancelled"
        /\ UNCHANGED <<runs, workerKey, entered, faults>>
    BY <1>19 DEF DeliverSignal, dbVars
  <2>2. own \in Keys /\ OwnRecords(own)
    BY <1>2, <1>19
  <2>3. /\ RecordTypes' /\ \A k \in Keys \ {own} : reservations'[k] = reservations[k]
        /\ reservations'[own] # "COMMITTED" \/ reservations'[own] = reservations[own]
    BY <1>1, <1>19, <2>2 DEF RecordTypes, Released
  <2>4. Kept(workerKey, outcome)'
    BY <1>19, <2>1, <2>2 DEF Kept, OwnRecords, SolutionsByStage
  <2>5. QED
    BY <1>17, <1>19, <2>1, <2>3, <2>4
<1>20. QED
  BY <1>3, <1>4, <1>5, <1>6, <1>7, <1>9, <1>10, <1>11, <1>12, <1>13, <1>14, <1>15, <1>16,
     <1>18, <1>19, <1>12a
  DEF ExecutorStep, CancelReleases, CancelWhileClosing, records, newestVars

LEMMA PipelineNextInv == IInv /\ PipelineInv /\ [PipelineNext]_pipelineVars => PipelineInv'
<1> SUFFICES ASSUME IInv, PipelineInv, [PipelineNext]_pipelineVars PROVE PipelineInv'
  OBVIOUS
<1>1. CASE ExecutorStep
  BY <1>1, ExecutorKeepsInv
<1>2. CASE AroundExecutor /\ UNCHANGED pipeVars
  BY <1>2, AroundKeepsInv
<1>3. CASE CrashInExecutor
  <2>1. /\ UNCHANGED <<runs, entered, faults, reservations, permits, events, sent, solutions,
                       stepFaults, overtaken>>
        /\ workerPc' = "down" /\ stage' = "none"
    BY <1>3 DEF CrashInExecutor, Crash, ProcessGone, LeaveExecutor, records, newestVars, dbVars
  <2>2. QED
    BY <2>1 DEF PipelineInv, RecordTypes, RecordsNeedEntry, Untouched, ByStage, Stages,
       EvidenceKept, BoundaryRecorded, Authorized, RecordsFollowRun, Kept, NoFault
<1>4. CASE (\E p \in Projects : SyncInserts(p) \/ SyncStores(p)) \/ UNCHANGED pipelineVars
  <2>1. /\ UNCHANGED <<stage, verdict, reservations, permits, events, sent, solutions,
                       stepFaults, overtaken>>
        /\ UNCHANGED <<runs, workerPc, workerKey, outcome, entered, faults>>
    BY <1>4 DEF SyncInserts, SyncStores, records, pipelineVars, pipeVars, newestVars, vars
  <2>2. QED
    BY <2>1 DEF PipelineInv, RecordTypes, RecordsNeedEntry, Untouched, ByStage,
       EvidenceByStage, ReservationByStage, SolutionsByStage, Recorded, BoundaryRecorded,
       Authorized, HoldsNothing, EvidenceKept, RecordsFollowRun, Kept, NoFault
<1>5. QED
  BY <1>1, <1>2, <1>3, <1>4 DEF PipelineNext

LEMMA PipelineInvariant == PipelineSpec => []PipelineInv
  BY PipelineInitInv, PipelineNextInv, PipelineIInv, PTL DEF PipelineSpec

-------------------------------------------------------------------------------
(* The theorems *)

\* Whatever crash, cancellation or failed write comes between two steps of an execution, its
\* evidence neither understates nor overstates what has reached the provider.
THEOREM EvidenceSound == PipelineSpec => []EvidenceIsSound
<1>1. PipelineInv => EvidenceIsSound
  <2> SUFFICES ASSUME PipelineInv, NEW k \in Keys, Authorized(k)
               PROVE  EvidenceIsSound!(k)
    BY DEF EvidenceIsSound
  <2>1. /\ sent[k] > 0 => permits[k] /\ "CALL_BOUNDARY_ENTERED" \in events[k]
        /\ events[k] \cap Confirming # {} => sent[k] > 0
    BY DEF PipelineInv, EvidenceKept, BoundaryRecorded
  <2>2. "CALL_BOUNDARY_ENTERED" \in events[k]
        => events[k] \cap (Ambiguous \cup {"CALL_BOUNDARY_ENTERED"}) # {}
    OBVIOUS
  <2>3. QED
    BY <2>1, <2>2 DEF Classify
<1>2. QED
  BY <1>1, PipelineInvariant, PTL

\* No number of replays, restarts and cancellations sends a request twice.
THEOREM RequestsSentOnce == PipelineSpec => []SentAtMostOnce
<1>1. PipelineInv => SentAtMostOnce
  BY DEF PipelineInv, EvidenceKept, SentAtMostOnce
<1>2. QED
  BY <1>1, PipelineInvariant, PTL

\* A run that has succeeded is charged, only stored solutions are, and a run that failed
\* keeps no reservation unless it was cancelled, a database error got in the way or its answer
\* was overtaken by a synchronous run; the one that was overtaken is charged.
THEOREM ReservationsFollowRuns == PipelineSpec => []ReservationFollowsRun
<1>1. IInv /\ PipelineInv => ReservationFollowsRun
  <2> SUFFICES ASSUME IInv, PipelineInv PROVE ReservationFollowsRun
    OBVIOUS
  <2>1. stepFaults \in Nat /\ faults \in Nat
    BY BoundsAssumption DEF PipelineInv, RecordTypes, IInv, TypeOK
  <2>2. stepFaults + faults = 0 => NoFault
    BY <2>1 DEF NoFault
  <2>3. \A k \in Keys : runs[k].status = "SUCCEEDED" <=> runs[k].result = "candidates"
    BY DEF IInv, QuotaFollowsResult
  <2>4. QED
    BY <2>2, <2>3
    DEF PipelineInv, RecordsFollowRun, Kept, Settled, ReservationFollowsRun
<1>2. QED
  BY <1>1, PipelineIInv, PipelineInvariant, PTL

\* A late cancel request never takes stored solutions away from a run that settles; nothing
\* does but a database error and a synchronous run that overtakes the answer.
THEOREM StoredSolutionsDelivered == PipelineSpec => []StoredSolutionsAreDelivered
<1>1. IInv /\ PipelineInv => StoredSolutionsAreDelivered
  <2> SUFFICES ASSUME IInv, PipelineInv PROVE StoredSolutionsAreDelivered
    OBVIOUS
  <2>1. stepFaults \in Nat /\ faults \in Nat
    BY BoundsAssumption DEF PipelineInv, RecordTypes, IInv, TypeOK
  <2>2. stepFaults + faults = 0 => NoFault
    BY <2>1 DEF NoFault
  <2>3. \A k \in Keys : runs[k].status = "SUCCEEDED" <=> runs[k].result = "candidates"
    BY DEF IInv, QuotaFollowsResult
  <2>4. QED
    BY <2>2, <2>3 DEF PipelineInv, RecordsFollowRun, Kept, StoredSolutionsAreDelivered
<1>2. QED
  BY <1>1, PipelineIInv, PipelineInvariant, PTL

-------------------------------------------------------------------------------
(* Types *)

PipelineBounds ==
    /\ verdict \in {"none", "draft", "failed", "broken"}
    /\ stepFaults \in 0 .. MaxStepFaults

LEMMA BoundsStep == PipelineBounds /\ [PipelineNext]_pipelineVars => PipelineBounds'
<1> SUFFICES ASSUME PipelineBounds, [PipelineNext]_pipelineVars PROVE PipelineBounds'
  OBVIOUS
<1> USE DEF PipelineBounds
<1>1. CASE StepFails
  <2>1. /\ stepFaults' = stepFaults + 1 /\ stepFaults < MaxStepFaults
        /\ verdict' \in {"broken", verdict}
    BY <1>1 DEF StepFails
  <2>2. QED
    BY <2>1, PipelineAssumption
<1>2. ASSUME NEW event, NEW usable, Answer(event, usable) PROVE PipelineBounds'
  BY <1>2 DEF Answer
<1>3. CASE AcquirePermit
  BY <1>3 DEF AcquirePermit
<1>4. CASE LeaveExecutor /\ UNCHANGED stepFaults
  BY <1>4 DEF LeaveExecutor
<1>5. CASE UNCHANGED <<verdict, stepFaults>>
  BY <1>5
<1>6. QED
  BY <1>1, <1>2, <1>3, <1>4, <1>5
  DEF PipelineNext, ExecutorStep, StartExecutor, PrologueFails, Reserve, EnterBoundary, Send,
      ReleaseOnFailure, CloseClient, RejectDraft, PersistSolutions, ListCandidates,
      CommitReservation, ReturnToWorker, CancelWhileWaiting, CancelReleases,
      CancelWhileClosing, StraySignal, SyncInserts, SyncStores, CrashInExecutor, pipeVars,
      pipelineVars

LEMMA BareStep == bare \subseteq Projects /\ [PipelineNext]_pipelineVars => (bare \subseteq Projects)'
<1> SUFFICES ASSUME bare \subseteq Projects, [PipelineNext]_pipelineVars
             PROVE  bare' \subseteq Projects
  OBVIOUS
<1>1. CASE PersistSolutions
  BY <1>1 DEF PersistSolutions
<1>2. ASSUME NEW p \in Projects, SyncInserts(p) \/ SyncStores(p) PROVE bare' \subseteq Projects
  BY <1>2 DEF SyncInserts, SyncStores
<1>3. CASE UNCHANGED bare
  BY <1>3
<1>4. QED
  BY <1>1, <1>2, <1>3
  DEF PipelineNext, ExecutorStep, StartExecutor, PrologueFails, Reserve, AcquirePermit,
      EnterBoundary, Send, Answer, ReleaseOnFailure, CloseClient, RejectDraft, ListCandidates,
      CommitReservation, ReturnToWorker, CancelWhileWaiting, CancelReleases,
      CancelWhileClosing, StraySignal, StepFails, CrashInExecutor, newestVars, pipeVars,
      pipelineVars

\* Every reachable state of the pipeline is well typed.
THEOREM PipelineTypeCorrect == PipelineSpec => []PipelineTypeOK
<1>1. PipelineInit => PipelineBounds
  BY PipelineAssumption DEF PipelineInit, PipelineBounds
<1>2. PipelineInit => bare \subseteq Projects
  BY DEF PipelineInit
<1>3. IInv /\ PipelineInv /\ PipelineBounds /\ bare \subseteq Projects => PipelineTypeOK
  BY DEF IInv, PipelineInv, RecordTypes, ByStage, PipelineBounds, PipelineTypeOK
<1>4. QED
  BY <1>1, <1>2, <1>3, BoundsStep, BareStep, PipelineIInv, PipelineInvariant, PTL
  DEF PipelineSpec

-------------------------------------------------------------------------------
(* What the records keep *)

\* A permit, an event, a request that went out and stored solutions are not taken back; a
\* reservation is made once and settled once.
RecordsStand ==
    \A k \in Keys :
        /\ permits[k] => permits'[k]
        /\ events[k] \subseteq events'[k]
        /\ sent'[k] >= sent[k]
        /\ solutions[k] => solutions'[k]
        /\ reservations[k] = "RESERVED" => reservations'[k] # "none"
        /\ reservations[k] \in {"COMMITTED", "RELEASED"} => reservations'[k] = reservations[k]

LEMMA RecordsStandStep ==
  IInv /\ PipelineInv /\ [PipelineNext]_pipelineVars => RecordsStand
<1> SUFFICES ASSUME IInv, PipelineInv, [PipelineNext]_pipelineVars PROVE RecordsStand
  OBVIOUS
<1> DEFINE own == workerKey
<1>1. RecordTypes
  BY DEF PipelineInv
<1>2. ASSUME stage # "none" PROVE own \in Keys /\ ReservationByStage(own)
  BY <1>2, OwnRecordsHold DEF OwnRecords
<1>3. CASE UNCHANGED records
  <2>1. UNCHANGED <<reservations, permits, events, sent, solutions>>
    BY <1>3 DEF records
  <2>2. QED
    BY <1>1, <2>1 DEF RecordTypes, RecordsStand
<1>4. CASE Reserve
  <2>1. own \in Keys /\ reservations[own] = "none"
    BY <1>2, <1>4 DEF Reserve, ReservationByStage
  <2>2. QED
    BY <1>1, <1>4, <2>1 DEF Reserve, RecordTypes, RecordsStand
<1>5. ASSUME stage # "none", stage \notin {"none", "started"},
             reservations' \in {Released(own),
                [reservations EXCEPT ![own] = IF @ = "RESERVED" THEN "COMMITTED" ELSE @]},
             UNCHANGED <<permits, events, sent, solutions>>
      PROVE  RecordsStand
  BY <1>1, <1>2, <1>5 DEF Released, RecordTypes, RecordsStand
<1>6. CASE ReleaseOnFailure \/ RejectDraft \/ CancelReleases \/ CommitReservation
  BY <1>5, <1>6 DEF ReleaseOnFailure, RejectDraft, CancelReleases, CommitReservation
<1>7. ASSUME NEW event, NEW usable,
             AcquirePermit \/ EnterBoundary \/ Answer(event, usable)
      PROVE  RecordsStand
  <2>1. /\ UNCHANGED <<reservations, sent, solutions>>
        /\ permits' \in {permits, [permits EXCEPT ![own] = TRUE]}
        /\ events' = events \/ \E e : events' = [events EXCEPT ![own] = @ \cup {e}]
    BY <1>7 DEF AcquirePermit, EnterBoundary, Answer
  <2>2. QED
    BY <1>1, <2>1 DEF RecordTypes, RecordsStand
<1>8. ASSUME NEW out, Send(out) PROVE RecordsStand
  BY <1>1, <1>8 DEF Send, RecordTypes, RecordsStand
<1>9. CASE PersistSolutions
  BY <1>1, <1>9 DEF PersistSolutions, RecordTypes, RecordsStand
<1>10. QED
  BY <1>3, <1>4, <1>6, <1>7, <1>8, <1>9
  DEF PipelineNext, ExecutorStep, StartExecutor, PrologueFails, CloseClient, ListCandidates,
      ReturnToWorker, CancelWhileWaiting, CancelWhileClosing, StraySignal, StepFails,
      SyncInserts, SyncStores, CrashInExecutor, records, pipeVars, pipelineVars

\* The ledger of dispatches is append-only, and a reservation is settled once, across replays,
\* restarts, cancellations and failed writes.
THEOREM RecordsAreKept == PipelineSpec => [][RecordsStand]_pipelineVars
  BY RecordsStandStep, PipelineIInv, PipelineInvariant, PTL DEF PipelineSpec

-------------------------------------------------------------------------------
(* What a cancelled run holds *)

\* The reservation of a run that was cancelled is not held, once its executor has been left.
CancelledHoldNothing ==
    /\ \A k \in Keys : runs[k].status \in Settled /\ runs[k].result = "cancelled" /\ NoFault
         => reservations[k] # "RESERVED"
    /\ workerPc = "settling" /\ outcome = "cancelled" /\ NoFault
         => reservations[workerKey] # "RESERVED"

LEMMA CancelledAround ==
  ASSUME IInv, PipelineInv, CancelledHoldNothing, AroundExecutor, UNCHANGED pipeVars
  PROVE  CancelledHoldNothing'
<1>1. UNCHANGED <<reservations, solutions, stepFaults>>
  BY DEF pipeVars
<1>2. NoFault' => NoFault
  BY <1>1, AroundFacts DEF NoFault
<1>3. ASSUME NEW k \in Keys, entered[k] = 0 PROVE reservations'[k] = "none"
  BY <1>1, <1>3 DEF PipelineInv, RecordsNeedEntry, Untouched
<1>4. ASSUME NEW k \in Keys, runs'[k].status \in Settled, runs'[k].result = "cancelled", NoFault'
      PROVE  reservations'[k] # "RESERVED"
  BY <1>1, <1>2, <1>3, <1>4, AroundFacts DEF CancelledHoldNothing
<1>5. ASSUME workerPc' = "settling", outcome' = "cancelled", NoFault'
      PROVE  reservations'[workerKey'] # "RESERVED"
  <2>1. workerKey' \in Keys
    <3>1. IInv'
      BY NextIInv DEF AroundExecutor, Next, WorkerStep
    <3>2. QED
      BY <1>5, <3>1 DEF IInv, TypeOK, WorkerHoldsRun, Busy
  <2>2. faults' = 0
    BY <1>5 DEF NoFault
  <2>3. QED
    BY <1>1, <1>2, <1>3, <1>5, <2>1, <2>2, AroundFacts DEF CancelledHoldNothing
<1>6. QED
  BY <1>4, <1>5 DEF CancelledHoldNothing

LEMMA CancelledInExecutor ==
  ASSUME IInv, PipelineInv, CancelledHoldNothing, ExecutorStep, ~CancelWhileClosing
  PROVE  CancelledHoldNothing'
<1> DEFINE own == workerKey
<1>1. RecordTypes /\ own \in Keys /\ runs[own].status = "RUNNING"
  <2>1. RecordTypes
    BY DEF PipelineInv
  <2>2. CASE StartExecutor
    BY <2>1, <2>2 DEF StartExecutor, EnterExecutor, IInv, TypeOK, WorkerHoldsRun, Busy
  <2>3. CASE ~StartExecutor
    <3>1. stage # "none"
      BY <2>3 DEF ExecutorStep, PrologueFails, Reserve, AcquirePermit, EnterBoundary, Send,
         Answer, ReleaseOnFailure, CloseClient, RejectDraft, PersistSolutions, ListCandidates,
         CommitReservation, ReturnToWorker, CancelWhileWaiting, CancelReleases,
         CancelWhileClosing, StraySignal, StepFails, Suspended
    <3>2. QED
      BY <2>1, <3>1, OwnRecordsHold
  <2>4. QED
    BY <2>2, <2>3
<1>2. /\ \A k \in Keys \ {own} : reservations'[k] = reservations[k]
      /\ stepFaults' = stepFaults \/ stepFaults' = stepFaults + 1
  BY <1>1
  DEF ExecutorStep, StartExecutor, PrologueFails, Reserve, AcquirePermit, EnterBoundary, Send,
      Answer, ReleaseOnFailure, CloseClient, RejectDraft, PersistSolutions, ListCandidates,
      CommitReservation, ReturnToWorker, CancelWhileWaiting, CancelReleases,
      CancelWhileClosing, StraySignal, StepFails, Released, RecordTypes, records, pipeVars
<1>3. /\ UNCHANGED faults
      /\ \A k \in Keys : /\ runs'[k].status = runs[k].status
                         /\ runs'[k].result = runs[k].result
  <2>1. CASE StartExecutor
    <3>1. runs \in [Keys -> Run]
      BY DEF IInv, TypeOK
    <3>2. QED
      BY <1>1, <2>1, <3>1 DEF StartExecutor, EnterExecutor, Run
  <2>2. CASE ~StartExecutor
    BY <2>2
    DEF ExecutorStep, PrologueFails, Reserve, AcquirePermit, EnterBoundary, Send, Answer,
        ReleaseOnFailure, CloseClient, RejectDraft, PersistSolutions, ListCandidates,
        CommitReservation,
        ReturnToWorker, ExecutorReturns, CancelWhileWaiting, CancelReleases,
        CancelWhileClosing, StraySignal, DeliverSignal, StepFails, vars, dbVars
  <2>3. QED
    BY <2>1, <2>2
<1>4. NoFault' => NoFault
  BY <1>1, <1>2, <1>3 DEF NoFault, RecordTypes
<1>5. \A k \in Keys : runs'[k].status \in Settled /\ runs'[k].result = "cancelled" /\ NoFault'
        => reservations'[k] # "RESERVED"
  BY <1>1, <1>2, <1>3, <1>4 DEF CancelledHoldNothing, Settled
<1>6. ASSUME workerPc' = "settling", outcome' = "cancelled"
      PROVE  reservations'[workerKey'] # "RESERVED"
  <2>1. CASE CancelReleases
    <3>1. stage = "cancelling" /\ workerKey' = own /\ reservations' = Released(own)
      BY <2>1 DEF CancelReleases, DeliverSignal
    <3>2. QED
      BY <1>1, <3>1 DEF RecordTypes, Released
  <2>2. CASE StartExecutor
    BY <1>6, <2>2 DEF StartExecutor, EnterExecutor
  <2>3. CASE ReturnToWorker
    BY <1>6, <2>3 DEF ReturnToWorker, ListedAnswer, ExecutorReturns
  <2>4. CASE ~(CancelReleases \/ StartExecutor \/ ReturnToWorker)
    <3>1. stage # "none" /\ UNCHANGED workerPc
      BY <2>4
      DEF ExecutorStep, PrologueFails, Reserve, AcquirePermit, EnterBoundary, Send, Answer,
          ReleaseOnFailure, CloseClient, RejectDraft, PersistSolutions, ListCandidates,
        CommitReservation,
          CancelWhileWaiting, StraySignal, DeliverSignal, StepFails, Suspended, vars
    <3>2. QED
      BY <1>6, <3>1 DEF PipelineInv, ByStage
  <2>5. QED
    BY <2>1, <2>2, <2>3, <2>4
<1>7. QED
  BY <1>5, <1>6 DEF CancelledHoldNothing

\* A run has an answer only once it is settled.
AnswersAreSettled == \A k \in Keys : runs[k].result # "none" => runs[k].status \in Settled

LEMMA AnswersStep == IInv /\ AnswersAreSettled /\ [Next]_vars => AnswersAreSettled'
<1> SUFFICES ASSUME IInv, AnswersAreSettled, [Next]_vars PROVE AnswersAreSettled'
  OBVIOUS
<1>0. runs \in [Keys -> Run]
  BY DEF IInv, TypeOK
<1> USE <1>0 DEF AnswersAreSettled, Settled
<1>1. ASSUME UNCHANGED runs PROVE AnswersAreSettled'
  BY <1>1
<1>2. CASE Requests
  <2>1. ASSUME NEW k \in Keys, NEW a \in Auths \cup {NoAuth},
               NEW m \in Selections, NEW c \in Contexts, InsertRun(k, a, m, c)
        PROVE  AnswersAreSettled'
    BY <2>1 DEF InsertRun, NewRun
  <2>2. ASSUME NEW k \in Keys, CountReplay(k) PROVE AnswersAreSettled'
    BY <2>2 DEF CountReplay, Run
  <2>3. QED
    BY <1>1, <1>2, <2>1, <2>2
    DEF Requests, CreateRun, ReplayRun, RedeemAndCreate, RedeemReplay,
        IssueAuthorization, AuthorizationExpires
<1>3. ASSUME NEW k \in Keys, CancelHandler(k) PROVE AnswersAreSettled'
  <2>1. CASE RequestCancel(k)
    <3>1. /\ \A j \in Keys \ {k} : runs'[j] = runs[j]
          /\ \/ runs'[k] = Cancelled(runs[k])
             \/ runs'[k] = [runs[k] EXCEPT !.cancelRequested = TRUE]
             \/ runs'[k] = runs[k]
      BY <2>1 DEF RequestCancel
    <3>2. Cancelled(runs[k]).status = "FAILED"
      BY DEF Cancelled, Run
    <3>3. /\ [runs[k] EXCEPT !.cancelRequested = TRUE].status = runs[k].status
          /\ [runs[k] EXCEPT !.cancelRequested = TRUE].result = runs[k].result
      BY DEF Run
    <3>4. QED
      BY <3>1, <3>2, <3>3
  <2>2. QED
    BY <1>1, <1>3, <2>1
    DEF CancelHandler, RereadRun, SignalWorker, CancelHandlerFails, dbVars
<1>4. CASE WorkerStep
  <2>1. ASSUME NEW k \in Keys, ClaimNext(k) PROVE AnswersAreSettled'
    BY <2>1 DEF ClaimNext, Run
  <2>2. ASSUME NEW allowed \in BOOLEAN, EnterExecutor(allowed) PROVE AnswersAreSettled'
    BY <2>2 DEF EnterExecutor, Run
  <2>3. CASE Finish
    <3>1. workerKey \in Keys /\ runs[workerKey].status = "RUNNING"
      BY <2>3 DEF Finish, IInv, TypeOK, WorkerHoldsRun, Busy
    <3>2. /\ \A j \in Keys \ {workerKey} : runs'[j] = runs[j]
          /\ runs'[workerKey] = [runs[workerKey] EXCEPT !.status = FinalStatus(outcome),
                                                      !.result = outcome,
                                                      !.quota  = FinalQuota(outcome)]
      BY <2>3, <3>1 DEF Finish
    <3>3. runs'[workerKey].status = FinalStatus(outcome)
      BY <3>1, <3>2 DEF Run
    <3>4. QED
      BY <3>2, <3>3 DEF FinalStatus
  <2>4. QED
    BY <1>1, <1>4, <2>1, <2>2, <2>3
    DEF WorkerStep, StartWorker, Poll, NothingToClaim, PublishLoop, CheckRun,
        DeliverSignal, dbVars
<1>5. ASSUME NEW o \in Results, ExecutorReturns(o) PROVE AnswersAreSettled'
  BY <1>1, <1>5 DEF ExecutorReturns, dbVars
<1>6. CASE Faults \/ StopWorker \/ ExitLoop \/ Crash \/ UNCHANGED vars
  BY <1>1, <1>6 DEF Faults, PreparationFails, FinishFails, ClaimFails,
                    StopWorker, ExitLoop, Crash, dbVars, vars
<1>7. QED
  BY <1>2, <1>3, <1>4, <1>5, <1>6 DEF Next

\* "its reservation is released" does hold of cancelled runs, restarts included, where no
\* cancellation reaches the executor while it closes its HTTP client: that one window is all
\* that the run PipelineCancel refutes it by.
THEOREM CancelledBeforeClosing ==
  PipelineSpec /\ [][~CancelWhileClosing]_pipelineVars
    => []( /\ CancelledRunHoldsNothing
           /\ NoFault => \A k \in Keys : runs[k].result = "cancelled"
                                           => reservations[k] # "RESERVED")
<1>1. PipelineInit => CancelledHoldNothing /\ AnswersAreSettled
  BY DEF PipelineInit, Init, CancelledHoldNothing, AnswersAreSettled, Settled
<1>2. /\ IInv /\ PipelineInv /\ CancelledHoldNothing
      /\ [PipelineNext]_pipelineVars /\ [~CancelWhileClosing]_pipelineVars
      => CancelledHoldNothing'
  <2> SUFFICES ASSUME IInv, PipelineInv, CancelledHoldNothing,
                      [PipelineNext]_pipelineVars, [~CancelWhileClosing]_pipelineVars
               PROVE  CancelledHoldNothing'
    OBVIOUS
  <2>1. CASE (\E p \in Projects : SyncInserts(p) \/ SyncStores(p)) \/ UNCHANGED pipelineVars
    <3>1. UNCHANGED <<reservations, stepFaults, runs, workerPc, workerKey, outcome, faults>>
      BY <2>1 DEF SyncInserts, SyncStores, records, pipelineVars, pipeVars, vars
    <3>2. QED
      BY <3>1 DEF CancelledHoldNothing, NoFault
  <2>2. CASE CrashInExecutor
    <3>1. UNCHANGED <<reservations, stepFaults, runs, faults>> /\ workerPc' = "down"
      BY <2>2 DEF CrashInExecutor, Crash, ProcessGone, records, dbVars
    <3>2. QED
      BY <3>1 DEF CancelledHoldNothing, NoFault
  <2>3. QED
    BY <2>1, <2>2, CancelledAround, CancelledInExecutor DEF PipelineNext
<1>3. IInv /\ PipelineInv /\ CancelledHoldNothing /\ AnswersAreSettled
        => /\ CancelledRunHoldsNothing
           /\ NoFault => \A k \in Keys : runs[k].result = "cancelled"
                                           => reservations[k] # "RESERVED"
  <2> SUFFICES ASSUME IInv, PipelineInv, CancelledHoldNothing, AnswersAreSettled
               PROVE  /\ CancelledRunHoldsNothing
                      /\ NoFault => \A k \in Keys : runs[k].result = "cancelled"
                                                      => reservations[k] # "RESERVED"
    OBVIOUS
  <2>1. stepFaults \in Nat /\ faults \in Nat
    BY BoundsAssumption DEF PipelineInv, RecordTypes, IInv, TypeOK
  <2>2. stepFaults + faults = 0 => NoFault
    BY <2>1 DEF NoFault
  <2>3. \A k \in Keys : runs[k].result = "cancelled" => runs[k].status \in Settled
    BY DEF AnswersAreSettled
  <2>4. QED
    BY <2>2, <2>3 DEF CancelledHoldNothing, CancelledRunHoldsNothing
<1>4. IInv /\ AnswersAreSettled /\ [PipelineNext]_pipelineVars => AnswersAreSettled'
  BY AnswersStep, PipelineStepIsQueueStep
<1>5. QED
  BY <1>1, <1>2, <1>3, <1>4, PipelineIInv, PipelineInvariant, PTL DEF PipelineSpec

================================================================================
