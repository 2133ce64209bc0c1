------------------------ MODULE AsyncGenerationProofs ------------------------
(***************************************************************************)
(* Proofs about AsyncGeneration, for every set of keys, authorizations and *)
(* models and every bound.                                                 *)
(***************************************************************************)
EXTENDS AsyncGeneration, TLAPS

-------------------------------------------------------------------------------
(* The inductive invariant *)

\* The worker holds a run exactly while it is busy, and the run it holds is
\* RUNNING: nobody else settles it.
WorkerHoldsRun ==
    /\ workerPc \in Busy <=> workerKey # NoKey
    /\ workerKey # NoKey => runs[workerKey].status = "RUNNING"
    /\ workerPc = "settling" <=> outcome # "none"
    /\ stopping => restarts > 0

\* Where the worker is says whether the executor of its run was entered.
EnteredByPhase ==
    /\ workerPc \in {"claimed", "active", "checked"} => entered[workerKey] = 0
    /\ workerPc = "awaiting" => entered[workerKey] = 1
    /\ outcome = "candidates" => entered[workerKey] = 1

IInv ==
    /\ TypeOK
    /\ WorkerHoldsRun
    /\ EnteredByPhase
    /\ RunIntentAgree
    /\ OneExecution
    /\ QuotaFollowsResult

LEMMA InitIInv == Init => IInv
<1>1. SUFFICES ASSUME Init PROVE IInv
  OBVIOUS
<1>2. (CHOOSE c \in Contexts : TRUE) \in Contexts
  BY InputsAssumption
<1>3. (CHOOSE p \in Projects : TRUE) \in Projects
  BY InputsAssumption
<1>4. TypeOK
  <2>1. runs \in [Keys -> Run]
    BY <1>1, <1>2, BoundsAssumption DEF Init, Run, RunStatus, Results, Quotas
  <2>2. intents \in [Keys -> Intent]
    BY <1>1, BoundsAssumption DEF Init, Intent, Results
  <2>3. auths \in [Auths -> Auth]
    BY <1>1, <1>3 DEF Init, Auth
  <2>4. QED
    <3>1. /\ entered \in [Keys -> Nat]
          /\ canceller \in [Keys -> {"idle", "committed", "running"}]
      BY <1>1 DEF Init
    <3>2. restarts \in 0 .. MaxRestarts /\ faults \in 0 .. MaxFaults
      BY <1>1, BoundsAssumption DEF Init
    <3>3. QED
      BY <1>1, <2>1, <2>2, <2>3, <3>1, <3>2
      DEF Init, TypeOK, Results, WorkerPcs
<1>5. /\ WorkerHoldsRun /\ EnteredByPhase
      /\ RunIntentAgree /\ OneExecution /\ QuotaFollowsResult
  BY <1>1, NullsAssumption
  DEF Init, WorkerHoldsRun, EnteredByPhase, RunIntentAgree, OneExecution,
      QuotaFollowsResult, Exists, Settled, Busy
<1>6. QED
  BY <1>4, <1>5 DEF IInv

-------------------------------------------------------------------------------
(* The updates the transactions make keep a row a row *)

LEMMA RunRowUpdates ==
  ASSUME NEW run \in Run
  PROVE  /\ \A s \in RunStatus : [run EXCEPT !.status = s] \in Run
         /\ [run EXCEPT !.calls = 1] \in Run
         /\ [run EXCEPT !.cancelRequested = TRUE] \in Run
         /\ \A s \in RunStatus, r \in Results, q \in Quotas :
              [run EXCEPT !.status = s, !.result = r, !.quota = q] \in Run
         /\ Cancelled(run) \in Run
<1>1. ASSUME NEW s \in RunStatus PROVE [run EXCEPT !.status = s] \in Run
  BY DEF Run, Quotas
<1>2. [run EXCEPT !.calls = 1] \in Run
  BY DEF Run, Quotas
<1>3. [run EXCEPT !.cancelRequested = TRUE] \in Run
  BY DEF Run, Quotas
<1>4. ASSUME NEW s \in RunStatus, NEW r \in Results, NEW q \in Quotas
      PROVE  [run EXCEPT !.status = s, !.result = r, !.quota = q] \in Run
  BY DEF Run, Quotas
<1>5. Cancelled(run) \in Run
  BY DEF Run, RunStatus, Results, Quotas, Cancelled
<1>6. QED
  BY <1>1, <1>2, <1>3, <1>4, <1>5

LEMMA IntentRowUpdates ==
  ASSUME NEW intent \in Intent
  PROVE  /\ [intent EXCEPT !.calls = 1] \in Intent
         /\ \A s \in {"SUCCEEDED", "FAILED"}, r \in Results :
              [intent EXCEPT !.status = s, !.result = r] \in Intent
  BY DEF Intent, Results

-------------------------------------------------------------------------------
(* Every step preserves it: one step of the proof per action *)

LEMMA TypeOKStep == IInv /\ [Next]_vars => TypeOK'
<1> SUFFICES ASSUME IInv, [Next]_vars PROVE TypeOK'
  OBVIOUS
<1> USE KeysAssumption, NullsAssumption, BoundsAssumption
    DEF IInv, TypeOK, WorkerPcs, workerVars, dbVars
<1>1. ASSUME NEW k \in Keys, NEW a \in Auths \cup {NoAuth}, NEW m \in Selections,
             NEW c \in Contexts, InsertRun(k, a, m, c)
      PROVE  runs' \in [Keys -> Run] /\ intents' \in [Keys -> Intent]
  BY <1>1 DEF InsertRun, NewRun, ExistingRuns, Run, Intent, RunStatus, Results,
              Quotas
<1>2. ASSUME NEW k \in Keys, Exists(k), CountReplay(k)
      PROVE  runs' \in [Keys -> Run] /\ intents' \in [Keys -> Intent]
  <2>1. /\ runs[k].requests + 1 \in 0 .. MaxRequests
        /\ runs[k].replays + 1 \in 0 .. MaxRequests
        /\ intents[k].requests + 1 \in 0 .. MaxRequests
        /\ intents[k].replays + 1 \in 0 .. MaxRequests
    BY <1>2 DEF CountReplay, RunIntentAgree, Run, Intent
  <2>2. runs' \in [Keys -> Run]
    BY <1>2, <2>1 DEF CountReplay, Run
  <2>3. intents' \in [Keys -> Intent]
    BY <1>2, <2>1 DEF CountReplay, Intent
  <2>4. QED
    BY <2>2, <2>3
<1>3. CASE Requests
  <2>1. ASSUME NEW k \in Keys, NEW m \in Selections, NEW c \in Contexts,
               \/ CreateRun(k, m, c)
               \/ ReplayRun(k, m, c)
               \/ \E a \in Auths : RedeemReplay(a, k, m, c)
        PROVE  TypeOK'
    BY <1>1, <1>2, <2>1 DEF CreateRun, ReplayRun, RedeemReplay
  <2>2. ASSUME NEW k \in Keys, NEW m \in Selections, NEW c \in Contexts,
               NEW a \in Auths, RedeemAndCreate(a, k, m, c)
        PROVE  TypeOK'
    BY <1>1, <2>2 DEF RedeemAndCreate, Auth
  <2>3. ASSUME NEW a \in Auths, NEW p \in Projects, IssueAuthorization(a, p)
        PROVE  TypeOK'
    BY <2>3 DEF IssueAuthorization, Auth
  <2>4. ASSUME NEW a \in Auths, AuthorizationExpires(a)
        PROVE  TypeOK'
    BY <2>4 DEF AuthorizationExpires, Auth
  <2>5. QED
    BY <1>3, <2>1, <2>2, <2>3, <2>4 DEF Requests
<1>4. ASSUME NEW k \in Keys, CancelHandler(k)
      PROVE  TypeOK'
  <2>1. CASE RequestCancel(k)
    <3>1. runs' \in [Keys -> Run]
      BY <2>1, RunRowUpdates DEF RequestCancel, RunStatus, Results
    <3>2. intents' \in [Keys -> Intent]
      BY <2>1, IntentRowUpdates DEF RequestCancel, Results
    <3>3. QED
      BY <2>1, <3>1, <3>2 DEF RequestCancel
  <2>2. CASE RereadRun(k) \/ SignalWorker(k) \/ CancelHandlerFails(k)
    BY <2>2 DEF RereadRun, SignalWorker, CancelHandlerFails
  <2>3. QED
    BY <1>4, <2>1, <2>2 DEF CancelHandler
<1>5. CASE WorkerStep
  <2>1. CASE StartWorker \/ Poll \/ NothingToClaim \/ PublishLoop \/ CheckRun
    BY <2>1 DEF StartWorker, Poll, NothingToClaim, PublishLoop, CheckRun,
                Results
  <2>2. ASSUME NEW k \in Keys, ClaimNext(k)
        PROVE  TypeOK'
    <3>1. runs' \in [Keys -> Run]
      BY <2>2, RunRowUpdates DEF ClaimNext, RunStatus
    <3>2. QED
      BY <2>2, <3>1 DEF ClaimNext
  <2>3. ASSUME NEW allowed \in BOOLEAN, EnterExecutor(allowed)
        PROVE  TypeOK'
    <3>0. workerKey \in Keys
      BY <2>3 DEF EnterExecutor, WorkerHoldsRun, Busy
    <3>1. runs' \in [Keys -> Run]
      BY <2>3, <3>0, RunRowUpdates DEF EnterExecutor
    <3>2. intents' \in [Keys -> Intent]
      BY <2>3, <3>0, IntentRowUpdates DEF EnterExecutor
    <3>3. QED
      BY <2>3, <3>0, <3>1, <3>2 DEF EnterExecutor
  <2>4. ASSUME NEW k \in Keys, DeliverSignal(k)
        PROVE  TypeOK'
    BY <2>4 DEF DeliverSignal, Results
  <2>5. CASE Finish
    <3>0. /\ FinalStatus(outcome) \in {"SUCCEEDED", "FAILED"}
          /\ FinalQuota(outcome) \in {"CHARGED", "RELEASED"}
          /\ workerKey \in Keys
      BY <2>5 DEF FinalStatus, FinalQuota, Finish, WorkerHoldsRun, Busy
    <3>1. runs' \in [Keys -> Run]
      <4>1. [runs[workerKey] EXCEPT !.status = FinalStatus(outcome),
                                    !.result = outcome,
                                    !.quota  = FinalQuota(outcome)] \in Run
        BY <3>0, RunRowUpdates DEF RunStatus, Quotas
      <4>2. QED
        BY <2>5, <3>0, <4>1 DEF Finish
    <3>2. intents' \in [Keys -> Intent]
      <4>1. [intents[workerKey] EXCEPT !.status = FinalStatus(outcome),
                                       !.result = outcome] \in Intent
        BY <3>0, IntentRowUpdates
      <4>2. QED
        BY <2>5, <3>0, <4>1 DEF Finish
    <3>3. QED
      BY <2>5, <3>1, <3>2 DEF Finish, LeaveRun, Results
  <2>6. QED
    BY <1>5, <2>1, <2>2, <2>3, <2>4, <2>5 DEF WorkerStep
<1>6. ASSUME NEW o \in Results, ExecutorReturns(o)
      PROVE  TypeOK'
  BY <1>6 DEF ExecutorReturns
<1>7. CASE Faults
  BY <1>7 DEF Faults, PreparationFails, FinishFails, ClaimFails, LeaveRun, Results
<1>8. CASE StopWorker
  BY <1>8 DEF StopWorker, LoopActive, WorkerHoldsRun, Busy
<1>9. CASE ExitLoop \/ Crash
  <2>1. UNCHANGED <<runs, intents, auths, entered, faults>> /\ ProcessGone
    BY <1>9 DEF ExitLoop, Crash
  <2>2. restarts' \in 0 .. MaxRestarts
    BY <1>9 DEF ExitLoop, Crash
  <2>3. QED
    BY <2>1, <2>2 DEF ProcessGone, Results
<1>10. CASE UNCHANGED vars
  BY <1>10 DEF vars
<1>11. QED
  BY <1>3, <1>4, <1>5, <1>6, <1>7, <1>8, <1>9, <1>10 DEF Next

LEMMA NextIInv == IInv /\ [Next]_vars => IInv'
<1> SUFFICES ASSUME IInv, [Next]_vars
             PROVE  /\ WorkerHoldsRun' /\ EnteredByPhase'
                    /\ RunIntentAgree' /\ OneExecution' /\ QuotaFollowsResult'
  BY TypeOKStep DEF IInv
<1> DEFINE Rest == /\ WorkerHoldsRun /\ EnteredByPhase
                   /\ RunIntentAgree /\ OneExecution /\ QuotaFollowsResult
<1>0. /\ runs \in [Keys -> Run] /\ intents \in [Keys -> Intent]
      /\ entered \in [Keys -> Nat] /\ workerKey \in Keys \cup {NoKey}
      /\ restarts \in Nat
  BY BoundsAssumption DEF IInv, TypeOK
<1> USE <1>0, NullsAssumption
    DEF IInv, WorkerHoldsRun, EnteredByPhase, RunIntentAgree, OneExecution,
        QuotaFollowsResult, Exists, Settled, Busy, workerVars, dbVars
<1>1. CASE Requests
  <2>1. ASSUME NEW k \in Keys, NEW a \in Auths \cup {NoAuth},
               NEW m \in Selections, NEW c \in Contexts,
               InsertRun(k, a, m, c), UNCHANGED workerVars, UNCHANGED restarts
        PROVE  Rest'
    BY <2>1 DEF InsertRun, NewRun
  <2>2. ASSUME NEW k \in Keys, Exists(k), CountReplay(k),
               UNCHANGED workerVars, UNCHANGED restarts
        PROVE  Rest'
    BY <2>2 DEF CountReplay, Run, Intent
  <2>3. ASSUME UNCHANGED <<runs, intents, workerVars, restarts>>
        PROVE  Rest'
    BY <2>3
  <2>4. QED
    BY <1>1, <2>1, <2>2, <2>3
    DEF Requests, CreateRun, ReplayRun, RedeemAndCreate, RedeemReplay,
        IssueAuthorization, AuthorizationExpires
<1>2. ASSUME NEW k \in Keys, CancelHandler(k)
      PROVE  Rest'
  <2>1. CASE RequestCancel(k)
    <3>1. CASE runs[k].status = "PENDING"
      BY <2>1, <3>1 DEF RequestCancel, Cancelled, Run, Intent
    <3>2. CASE runs[k].status # "PENDING"
      BY <2>1, <3>2 DEF RequestCancel, Run, Intent
    <3>3. QED
      BY <3>1, <3>2
  <2>2. CASE RereadRun(k) \/ SignalWorker(k) \/ CancelHandlerFails(k)
    BY <2>2 DEF RereadRun, SignalWorker, CancelHandlerFails
  <2>3. QED
    BY <1>2, <2>1, <2>2 DEF CancelHandler
<1>3. CASE WorkerStep
  <2>1. CASE StartWorker \/ Poll \/ NothingToClaim \/ PublishLoop
    BY <2>1 DEF StartWorker, Poll, NothingToClaim, PublishLoop
  <2>2. CASE CheckRun
    BY <2>2 DEF CheckRun
  <2>3. ASSUME NEW k \in Keys, ClaimNext(k)
        PROVE  Rest'
    <3>1. /\ runs'[k] = [runs[k] EXCEPT !.status = "RUNNING"]
          /\ runs'[k].status = "RUNNING"
          /\ entered[k] = 0
      <4>1. runs'[k] = [runs[k] EXCEPT !.status = "RUNNING"]
        BY <2>3 DEF ClaimNext
      <4>2. runs'[k].status = "RUNNING"
        BY <4>1 DEF Run
      <4>3. /\ entered[k] \in Nat /\ entered[k] <= 1
            /\ entered[k] # 1
        BY <2>3 DEF ClaimNext
      <4>4. QED
        BY <4>1, <4>2, <4>3
    <3>2. \A j \in Keys \ {k} : runs'[j] = runs[j]
      BY <2>3 DEF ClaimNext
    <3>3. /\ WorkerHoldsRun' /\ EnteredByPhase' /\ OneExecution'
      BY <2>3, <3>1, <3>2 DEF ClaimNext
    <3>4. RunIntentAgree' /\ QuotaFollowsResult'
      BY <2>3, <3>1, <3>2 DEF ClaimNext, Run
    <3>5. QED
      BY <3>3, <3>4
  <2>4. ASSUME NEW allowed \in BOOLEAN, EnterExecutor(allowed)
        PROVE  Rest'
    BY <2>4 DEF EnterExecutor, Run, Intent
  <2>5. ASSUME NEW k \in Keys, DeliverSignal(k)
        PROVE  Rest'
    BY <2>5 DEF DeliverSignal
  <2>6. CASE Finish
    <3>1. workerKey \in Keys
      BY <2>6 DEF Finish
    <3>2. /\ runs'[workerKey] = [runs[workerKey] EXCEPT
                                   !.status = FinalStatus(outcome),
                                   !.result = outcome,
                                   !.quota  = FinalQuota(outcome)]
          /\ intents'[workerKey] = [intents[workerKey] EXCEPT
                                      !.status = FinalStatus(outcome),
                                      !.result = outcome]
          /\ \A j \in Keys \ {workerKey} :
                runs'[j] = runs[j] /\ intents'[j] = intents[j]
      BY <2>6, <3>1 DEF Finish
    <3>3. /\ runs'[workerKey].status = FinalStatus(outcome)
          /\ runs'[workerKey].result = outcome
          /\ runs'[workerKey].quota = FinalQuota(outcome)
          /\ runs'[workerKey].calls = runs[workerKey].calls
          /\ runs'[workerKey].requests = runs[workerKey].requests
          /\ runs'[workerKey].replays = runs[workerKey].replays
      BY <3>1, <3>2 DEF Run
    <3>4. /\ intents'[workerKey].status = FinalStatus(outcome)
          /\ intents'[workerKey].result = outcome
          /\ intents'[workerKey].calls = intents[workerKey].calls
          /\ intents'[workerKey].requests = intents[workerKey].requests
          /\ intents'[workerKey].replays = intents[workerKey].replays
      BY <3>1, <3>2 DEF Intent
    <3>5. WorkerHoldsRun' /\ EnteredByPhase' /\ OneExecution'
      BY <2>6, <3>1, <3>2, <3>3 DEF Finish, LeaveRun, FinalStatus
    <3>6. RunIntentAgree'
      <4> SUFFICES ASSUME NEW j \in Keys, Exists(j)'
                   PROVE  RunIntentAgree!(j)'
        OBVIOUS
      <4>1. CASE j = workerKey
        BY <3>1, <3>3, <3>4, <4>1 DEF FinalStatus
      <4>2. CASE j # workerKey
        BY <3>2, <4>2
      <4>3. QED
        BY <4>1, <4>2
    <3>7. QuotaFollowsResult'
      <4> SUFFICES ASSUME NEW j \in Keys
                   PROVE  QuotaFollowsResult!(j)'
        OBVIOUS
      <4>1. CASE j = workerKey
        BY <3>3, <4>1 DEF FinalStatus, FinalQuota
      <4>2. CASE j # workerKey
        BY <3>2, <4>2
      <4>3. QED
        BY <4>1, <4>2
    <3>8. QED
      BY <3>5, <3>6, <3>7
  <2>7. QED
    BY <1>3, <2>1, <2>2, <2>3, <2>4, <2>5, <2>6 DEF WorkerStep
<1>4. ASSUME NEW o \in Results, ExecutorReturns(o)
      PROVE  Rest'
  BY <1>4 DEF ExecutorReturns
<1>5. CASE Faults
  BY <1>5 DEF Faults, PreparationFails, FinishFails, ClaimFails, LeaveRun
<1>6. CASE StopWorker
  BY <1>6 DEF StopWorker
<1>7. CASE ExitLoop \/ Crash
  BY <1>7 DEF ExitLoop, Crash, ProcessGone
<1>8. CASE UNCHANGED vars
  BY <1>8 DEF vars
<1>9. QED
  BY <1>1, <1>2, <1>3, <1>4, <1>5, <1>6, <1>7, <1>8 DEF Next

LEMMA IInvariant == Spec => []IInv
  BY InitIInv, NextIInv, PTL DEF Spec

-------------------------------------------------------------------------------
(* The theorems *)

\* Every reachable state is well typed.
THEOREM TypeCorrect == Spec => []TypeOK
<1>1. IInv => TypeOK
  BY DEF IInv
<1>2. QED
  BY <1>1, IInvariant, PTL

\* The run and its intent tell every poller the same story.
THEOREM RunAndIntentAgree == Spec => []RunIntentAgree
<1>1. IInv => RunIntentAgree
  BY DEF IInv
<1>2. QED
  BY <1>1, IInvariant, PTL

\* No number of crashes, restarts, replays and late cancels enters an executor
\* twice, or charges a run whose executor never ran.
THEOREM AtMostOneExecution == Spec => []OneExecution
<1>1. IInv => OneExecution
  BY DEF IInv
<1>2. QED
  BY <1>1, IInvariant, PTL

\* A settled run holds no quota and only delivered candidates are charged.
THEOREM QuotaSettled == Spec => []QuotaFollowsResult
<1>1. IInv => QuotaFollowsResult
  BY DEF IInv
<1>2. QED
  BY <1>1, IInvariant, PTL

-------------------------------------------------------------------------------
(* What a step may never do *)

LEMMA NextKeepsHistory == IInv /\ [Next]_vars => RunHistoryKept
<1> SUFFICES ASSUME IInv, [Next]_vars PROVE RunHistoryKept
  OBVIOUS
<1>0. runs \in [Keys -> Run]
  BY DEF IInv, TypeOK
<1> USE <1>0 DEF RunHistoryKept, Exists, Settled
<1>1. ASSUME UNCHANGED runs PROVE RunHistoryKept
  BY <1>1
<1>2. CASE Requests
  <2>1. ASSUME NEW k \in Keys, NEW a \in Auths \cup {NoAuth},
               NEW m \in Selections, NEW c \in Contexts, InsertRun(k, a, m, c)
        PROVE  RunHistoryKept
    BY <2>1 DEF InsertRun
  <2>2. ASSUME NEW k \in Keys, CountReplay(k) PROVE RunHistoryKept
    BY <2>2 DEF CountReplay, Run
  <2>3. QED
    BY <1>1, <1>2, <2>1, <2>2
    DEF Requests, CreateRun, ReplayRun, RedeemAndCreate, RedeemReplay,
        IssueAuthorization, AuthorizationExpires
<1>3. ASSUME NEW k \in Keys, CancelHandler(k) PROVE RunHistoryKept
  <2>1. CASE RequestCancel(k)
    <3>1. CASE runs[k].status = "PENDING" /\ ~runs[k].cancelRequested
      <4>1. runs' = [runs EXCEPT ![k] = Cancelled(runs[k])]
        BY <2>1, <3>1 DEF RequestCancel
      <4>2. /\ Cancelled(runs[k]).auth = runs[k].auth
            /\ Cancelled(runs[k]).model = runs[k].model
            /\ Cancelled(runs[k]).context = runs[k].context
        BY DEF Cancelled, Run
      <4>3. QED
        BY <3>1, <4>1, <4>2
    <3>2. CASE runs[k].status \in {"SUCCEEDED", "FAILED"} \/ runs[k].cancelRequested
      BY <1>1, <2>1, <3>2 DEF RequestCancel
    <3>3. CASE runs[k].status = "RUNNING"
      <4>1. /\ \A j \in Keys \ {k} : runs'[j] = runs[j]
            /\ \/ runs'[k] = runs[k]
               \/ runs'[k] = [runs[k] EXCEPT !.cancelRequested = TRUE]
        BY <2>1, <3>3 DEF RequestCancel
      <4>2. QED
        BY <3>3, <4>1 DEF Run
    <3>4. QED
      BY <2>1, <3>1, <3>2, <3>3 DEF RequestCancel, Run, RunStatus
  <2>2. QED
    BY <1>1, <1>3, <2>1
    DEF CancelHandler, RereadRun, SignalWorker, CancelHandlerFails, dbVars
<1>4. CASE WorkerStep
  <2>1. ASSUME NEW k \in Keys, ClaimNext(k) PROVE RunHistoryKept
    BY <2>1 DEF ClaimNext, Run
  <2>2. ASSUME NEW allowed \in BOOLEAN, EnterExecutor(allowed)
        PROVE  RunHistoryKept
    BY <2>2 DEF EnterExecutor, Run
  <2>3. CASE Finish
    <3>1. workerKey \in Keys /\ runs[workerKey].status = "RUNNING"
      BY <2>3 DEF Finish, IInv, TypeOK, WorkerHoldsRun, Busy
    <3>2. \A j \in Keys \ {workerKey} : runs'[j] = runs[j]
      BY <2>3, <3>1 DEF Finish
    <3>3. /\ runs'[workerKey].auth = runs[workerKey].auth
          /\ runs'[workerKey].model = runs[workerKey].model
          /\ runs'[workerKey].context = runs[workerKey].context
      BY <2>3, <3>1 DEF Finish, Run
    <3>4. QED
      BY <3>1, <3>2, <3>3
  <2>4. QED
    BY <1>1, <1>4, <2>1, <2>2, <2>3
    DEF WorkerStep, StartWorker, Poll, NothingToClaim, PublishLoop, CheckRun,
        DeliverSignal, dbVars
<1>5. ASSUME NEW o \in Results, ExecutorReturns(o) PROVE RunHistoryKept
  BY <1>1, <1>5 DEF ExecutorReturns, dbVars
<1>6. CASE Faults \/ StopWorker \/ ExitLoop \/ Crash \/ UNCHANGED vars
  BY <1>1, <1>6 DEF Faults, PreparationFails, FinishFails, ClaimFails,
                    StopWorker, ExitLoop, Crash, dbVars, vars
<1>7. QED
  BY <1>2, <1>3, <1>4, <1>5, <1>6 DEF Next

\* No late callback, replay or second cancel rewrites a settled run, and no run
\* is ever bound to another model, competitor context or authorization.
THEOREM SettledRunsAreFinal == Spec => SettledIsFinal
<1>1. IInv /\ [Next]_vars => [RunHistoryKept]_vars
  BY NextKeepsHistory
<1>2. QED
  BY <1>1, IInvariant, PTL DEF Spec, SettledIsFinal

-------------------------------------------------------------------------------
(* Authorizations *)

\* A run that does not exist carries no authorization, so a new one is the first bearer.
AuthInv ==
    /\ AuthorizationSpentOnce
    /\ \A k \in Keys : ~Exists(k) => runs[k].auth = NoAuth

LEMMA NextAuthInv == IInv /\ AuthInv /\ [Next]_vars => AuthInv'
<1> SUFFICES ASSUME IInv, AuthInv, [Next]_vars PROVE AuthInv'
  OBVIOUS
<1>0. runs \in [Keys -> Run] /\ auths \in [Auths -> Auth]
  BY DEF IInv, TypeOK
<1>1. ASSUME UNCHANGED auths,
             \A k \in Keys : /\ runs'[k].auth = runs[k].auth
                             /\ runs'[k].model = runs[k].model
                             /\ Exists(k) => Exists(k)'
      PROVE  AuthInv'
  BY <1>1 DEF AuthInv, AuthorizationSpentOnce
<1>2. ASSUME UNCHANGED <<runs, auths>> PROVE AuthInv'
  BY <1>2 DEF AuthInv, AuthorizationSpentOnce, Exists
<1>3. CASE Requests
  <2>1. ASSUME NEW k \in Keys, NEW m \in Selections, NEW c \in Contexts,
               CreateRun(k, m, c)
        PROVE  AuthInv'
    <3>1. /\ UNCHANGED auths /\ ~Exists(k) /\ Exists(k)'
          /\ runs'[k].auth = NoAuth
          /\ \A j \in Keys \ {k} : runs'[j] = runs[j]
      BY <1>0, <2>1 DEF CreateRun, InsertRun, NewRun, Exists
    <3>2. runs[k].auth = NoAuth
      BY <3>1 DEF AuthInv
    <3>3. QED
      BY <3>1, <3>2, NullsAssumption DEF AuthInv, AuthorizationSpentOnce, Exists
  <2>2. ASSUME NEW k \in Keys, NEW a \in Auths, NEW m \in Selections,
               NEW c \in Contexts, RedeemAndCreate(a, k, m, c)
        PROVE  AuthInv'
    <3>1. /\ ~Exists(k) /\ Exists(k)'
          /\ runs'[k].auth = a /\ runs'[k].model = AcceptanceModel
          /\ \A j \in Keys \ {k} : runs'[j] = runs[j]
      BY <1>0, <2>2 DEF RedeemAndCreate, InsertRun, NewRun, Exists
    <3>2. /\ auths[a].state = "PENDING" /\ auths[a].project = ProjectOf[k]
          /\ auths'[a].state = "REDEEMED" /\ auths'[a].project = auths[a].project
          /\ \A b \in Auths \ {a} : auths'[b] = auths[b]
      BY <1>0, <2>2 DEF RedeemAndCreate, Redeemable, Auth
    <3>3. runs[k].auth = NoAuth /\ \A j \in Keys : runs[j].auth # a
      BY <3>1, <3>2 DEF AuthInv, AuthorizationSpentOnce
    <3>4. \A j \in Keys : runs'[j].auth = a <=> j = k
      BY <3>1, <3>3
    <3>5. \A b \in Auths \ {a}, j \in Keys :
             /\ runs'[j].auth = b <=> runs[j].auth = b
             /\ runs[j].auth = b => runs'[j].model = runs[j].model
      BY <3>1, <3>3, NullsAssumption
    <3>6. AuthorizationSpentOnce'
      <4> SUFFICES ASSUME NEW b \in Auths PROVE AuthorizationSpentOnce!(b)'
        BY DEF AuthorizationSpentOnce
      <4>1. CASE b = a
        BY <3>1, <3>2, <3>4, <4>1
      <4>2. CASE b # a
        BY <3>2, <3>5, <4>2 DEF AuthInv, AuthorizationSpentOnce
      <4>3. QED
        BY <4>1, <4>2
    <3>7. \A j \in Keys : ~Exists(j)' => runs'[j].auth = NoAuth
      BY <3>1 DEF AuthInv, Exists
    <3>8. QED
      BY <3>6, <3>7 DEF AuthInv
  <2>3. ASSUME NEW a \in Auths, NEW p \in Projects, IssueAuthorization(a, p)
        PROVE  AuthInv'
    <3>1. /\ UNCHANGED runs /\ auths[a].state = "ABSENT"
          /\ auths'[a].state = "PENDING"
          /\ \A b \in Auths \ {a} : auths'[b] = auths[b]
      BY <1>0, <2>3 DEF IssueAuthorization
    <3>2. \A k \in Keys : runs[k].auth # a
      BY <3>1 DEF AuthInv, AuthorizationSpentOnce
    <3>3. QED
      BY <3>1, <3>2 DEF AuthInv, AuthorizationSpentOnce, Exists
  <2>4. ASSUME NEW a \in Auths, AuthorizationExpires(a) PROVE AuthInv'
    <3>1. /\ UNCHANGED runs
          /\ \A b \in Auths : /\ auths'[b].state = auths[b].state
                              /\ auths'[b].project = auths[b].project
      BY <1>0, <2>4 DEF AuthorizationExpires, Auth
    <3>2. QED
      BY <3>1 DEF AuthInv, AuthorizationSpentOnce, Exists
  <2>5. ASSUME NEW k \in Keys, CountReplay(k), UNCHANGED auths PROVE AuthInv'
    BY <1>0, <1>1, <2>5 DEF CountReplay, Run, Exists
  <2>6. QED
    BY <1>3, <2>1, <2>2, <2>3, <2>4, <2>5 DEF Requests, ReplayRun, RedeemReplay
<1>4. ASSUME NEW k \in Keys, CancelHandler(k) PROVE AuthInv'
  <2>1. CASE RequestCancel(k)
    <3>1. \A j \in Keys \ {k} : runs'[j] = runs[j]
      BY <1>0, <2>1 DEF RequestCancel
    <3>2. \/ runs'[k] = runs[k]
          \/ runs'[k] = Cancelled(runs[k])
          \/ runs'[k] = [runs[k] EXCEPT !.cancelRequested = TRUE]
      BY <1>0, <2>1 DEF RequestCancel
    <3>3. /\ runs'[k].auth = runs[k].auth /\ runs'[k].model = runs[k].model
          /\ runs'[k].status \in {runs[k].status, "FAILED"}
      BY <1>0, <3>2 DEF Cancelled, Run
    <3>4. QED
      BY <1>1, <2>1, <3>1, <3>3 DEF RequestCancel, Exists
  <2>2. QED
    BY <1>2, <1>4, <2>1
    DEF CancelHandler, RereadRun, SignalWorker, CancelHandlerFails, dbVars
<1>5. CASE WorkerStep
  <2>1. ASSUME NEW k \in Keys, ClaimNext(k) PROVE AuthInv'
    BY <1>0, <1>1, <2>1 DEF ClaimNext, Run, Exists
  <2>2. ASSUME NEW allowed \in BOOLEAN, EnterExecutor(allowed) PROVE AuthInv'
    BY <1>0, <1>1, <2>2 DEF EnterExecutor, Run, Exists
  <2>3. CASE Finish
    <3>1. workerKey \in Keys
      BY <2>3 DEF Finish, IInv, TypeOK, WorkerHoldsRun, Busy
    <3>2. /\ runs'[workerKey].auth = runs[workerKey].auth
          /\ runs'[workerKey].model = runs[workerKey].model
          /\ runs'[workerKey].status \in {runs[workerKey].status, FinalStatus(outcome)}
      BY <1>0, <2>3, <3>1 DEF Finish, Run
    <3>3. \A j \in Keys \ {workerKey} : runs'[j] = runs[j]
      BY <1>0, <2>3, <3>1 DEF Finish
    <3>4. QED
      BY <1>1, <2>3, <3>1, <3>2, <3>3 DEF Finish, FinalStatus, Exists
  <2>4. QED
    BY <1>2, <1>5, <2>1, <2>2, <2>3
    DEF WorkerStep, StartWorker, Poll, NothingToClaim, PublishLoop, CheckRun,
        DeliverSignal, dbVars
<1>6. ASSUME NEW o \in Results, ExecutorReturns(o) PROVE AuthInv'
  BY <1>2, <1>6 DEF ExecutorReturns, dbVars
<1>7. CASE Faults \/ StopWorker \/ ExitLoop \/ Crash \/ UNCHANGED vars
  BY <1>2, <1>7 DEF Faults, PreparationFails, FinishFails, ClaimFails,
                    StopWorker, ExitLoop, Crash, dbVars, vars
<1>8. QED
  BY <1>3, <1>4, <1>5, <1>6, <1>7 DEF Next

\* Two redemptions of one authorization, replays, crashes: it is spent on one run, of its
\* own project and on the acceptance model.
THEOREM AuthorizationsSpentOnce == Spec => []AuthorizationSpentOnce
<1>1. Init => AuthInv
  BY NullsAssumption DEF Init, AuthInv, AuthorizationSpentOnce, Exists
<1>2. AuthInv => AuthorizationSpentOnce
  BY DEF AuthInv
<1>3. QED
  BY <1>1, <1>2, NextAuthInv, IInvariant, PTL DEF Spec

-------------------------------------------------------------------------------
(* Cancellation *)

\* Whatever can cancel a run, and whatever says that it was cancelled, goes back to a
\* request for that run.
CancelsRequested ==
    /\ \A k \in Keys : runs[k].cancelRequested => Exists(k)
    /\ \A k \in Keys : canceller[k] = "committed"
                       => runs[k].cancelRequested \/ runs[k].status \in Settled
    /\ \A k \in Keys : canceller[k] = "running" => runs[k].cancelRequested
    /\ \A k \in signals : runs[k].cancelRequested \/ restarts > 0
    /\ outcome = "cancelled" => runs[workerKey].cancelRequested \/ restarts > 0
    /\ CancelledOnlyOnRequest

\* From the check of the flag on, a request is with its handler or with the loop.
CancelsPending ==
    \A k \in Keys :
        (/\ runs[k].cancelRequested
         /\ workerKey = k /\ workerPc \in {"checked", "awaiting"}
         /\ faults = 0) => canceller[k] # "idle" \/ k \in signals

CancelInv == CancelsRequested /\ CancelsPending /\ OrphanNeedsFailure

LEMMA NextCancelInv == IInv /\ CancelInv /\ [Next]_vars => CancelInv'
<1> SUFFICES ASSUME IInv, CancelInv, [Next]_vars PROVE CancelInv'
  OBVIOUS
<1>0. /\ runs \in [Keys -> Run] /\ workerKey \in Keys \cup {NoKey}
      /\ canceller \in [Keys -> {"idle", "committed", "running"}] /\ signals \subseteq Keys
      /\ restarts \in Nat /\ faults \in Nat /\ outcome \in Results
      /\ WorkerHoldsRun
  BY BoundsAssumption DEF IInv, TypeOK
<1> USE <1>0, NullsAssumption
    DEF CancelInv, CancelsRequested, CancelsPending, CancelledOnlyOnRequest,
        OrphanNeedsFailure, Orphan, Exists, Settled, WorkerHoldsRun, Busy, LoopActive,
        workerVars, dbVars
<1>1. CASE Requests
  <2>1. ASSUME NEW k \in Keys, NEW a \in Auths \cup {NoAuth}, NEW m \in Selections,
               NEW c \in Contexts, InsertRun(k, a, m, c),
               UNCHANGED <<workerVars, canceller, restarts, faults>>
        PROVE  CancelInv'
    <3>1. /\ ~Exists(k) /\ runs'[k].status = "PENDING" /\ runs'[k].result = "none"
          /\ ~runs'[k].cancelRequested
          /\ \A j \in Keys \ {k} : runs'[j] = runs[j]
      BY <2>1 DEF InsertRun, NewRun
    <3>2. canceller[k] = "idle" /\ (k \in signals => restarts > 0) /\ workerKey # k
      BY <3>1
    <3>3. QED
      BY <2>1, <3>1, <3>2
  <2>2. ASSUME NEW k \in Keys, CountReplay(k),
               UNCHANGED <<workerVars, canceller, restarts, faults>>
        PROVE  CancelInv'
    <3>1. \A j \in Keys : /\ runs'[j].status = runs[j].status
                          /\ runs'[j].result = runs[j].result
                          /\ runs'[j].cancelRequested = runs[j].cancelRequested
      BY <2>2 DEF CountReplay, Run
    <3>2. QED
      BY <2>2, <3>1
  <2>3. ASSUME UNCHANGED <<runs, workerVars, canceller, restarts, faults>>
        PROVE  CancelInv'
    BY <2>3
  <2>4. QED
    BY <1>1, <2>1, <2>2, <2>3
    DEF Requests, CreateRun, ReplayRun, RedeemAndCreate, RedeemReplay,
        IssueAuthorization, AuthorizationExpires
<1>2. ASSUME NEW k \in Keys, CancelHandler(k) PROVE CancelInv'
  <2>1. CASE RequestCancel(k)
    <3>1. /\ \A j \in Keys \ {k} : runs'[j] = runs[j]
          /\ canceller' = [canceller EXCEPT ![k] = "committed"]
          /\ UNCHANGED <<workerVars, restarts, faults>>
      BY <2>1 DEF RequestCancel
    <3>2. CASE runs[k].status = "PENDING" /\ ~runs[k].cancelRequested
      <4>1. runs'[k] = Cancelled(runs[k])
        BY <2>1, <3>2 DEF RequestCancel
      <4>2. runs'[k].cancelRequested /\ runs'[k].status = "FAILED"
        BY <4>1 DEF Cancelled, Run
      <4>3. QED
        BY <3>1, <3>2, <4>2
    <3>3. CASE runs[k].status \in Settled \/ runs[k].cancelRequested
      <4>1. runs'[k] = runs[k]
        BY <2>1, <3>3 DEF RequestCancel
      <4>2. QED
        BY <3>1, <3>3, <4>1
    <3>4. CASE runs[k].status = "RUNNING" /\ ~runs[k].cancelRequested
      <4>1. runs'[k] = [runs[k] EXCEPT !.cancelRequested = TRUE]
        BY <2>1, <3>4 DEF RequestCancel
      <4>2. /\ runs'[k].cancelRequested /\ runs'[k].status = runs[k].status
            /\ runs'[k].result = runs[k].result
        BY <4>1 DEF Run
      <4>3. QED
        BY <3>1, <3>4, <4>2
    <3>5. QED
      BY <2>1, <3>2, <3>3, <3>4 DEF RequestCancel, Run, RunStatus
  <2>2. CASE RereadRun(k)
    BY <2>2 DEF RereadRun
  <2>3. CASE SignalWorker(k)
    BY <2>3 DEF SignalWorker
  <2>4. CASE CancelHandlerFails(k)
    BY <2>4 DEF CancelHandlerFails
  <2>5. QED
    BY <1>2, <2>1, <2>2, <2>3, <2>4 DEF CancelHandler
<1>3. CASE WorkerStep
  <2>1. CASE StartWorker \/ Poll \/ NothingToClaim \/ PublishLoop
    BY <2>1 DEF StartWorker, Poll, NothingToClaim, PublishLoop
  <2>2. CASE CheckRun
    BY <2>2 DEF CheckRun
  <2>3. ASSUME NEW k \in Keys, ClaimNext(k) PROVE CancelInv'
    <3>1. /\ runs[k].status = "PENDING" /\ runs'[k].status = "RUNNING"
          /\ runs'[k].result = runs[k].result
          /\ runs'[k].cancelRequested = runs[k].cancelRequested
          /\ \A j \in Keys \ {k} : runs'[j] = runs[j]
      BY <2>3 DEF ClaimNext, Run
    <3>2. /\ workerPc = "polling" /\ workerPc' = "claimed" /\ workerKey' = k
          /\ UNCHANGED <<outcome, canceller, signals, restarts, faults>>
      BY <2>3 DEF ClaimNext
    <3>3. workerKey = NoKey /\ outcome = "none"
      BY <3>2
    <3>4. QED
      BY <3>1, <3>2, <3>3
  <2>4. ASSUME NEW allowed \in BOOLEAN, EnterExecutor(allowed) PROVE CancelInv'
    <3>1. \A j \in Keys : /\ runs'[j].status = runs[j].status
                          /\ runs'[j].result = runs[j].result
                          /\ runs'[j].cancelRequested = runs[j].cancelRequested
      BY <2>4 DEF EnterExecutor, Run
    <3>2. QED
      BY <2>4, <3>1 DEF EnterExecutor
  <2>5. ASSUME NEW k \in Keys, DeliverSignal(k) PROVE CancelInv'
    BY <2>5 DEF DeliverSignal
  <2>6. CASE Finish
    <3>1. workerKey \in Keys /\ runs[workerKey].status = "RUNNING"
      BY <2>6 DEF Finish
    <3>2. /\ runs'[workerKey] = [runs[workerKey] EXCEPT !.status = FinalStatus(outcome),
                                                       !.result = outcome,
                                                       !.quota  = FinalQuota(outcome)]
          /\ \A j \in Keys \ {workerKey} : runs'[j] = runs[j]
      BY <2>6, <3>1 DEF Finish
    <3>3. /\ runs'[workerKey].status = FinalStatus(outcome)
          /\ runs'[workerKey].result = outcome
          /\ runs'[workerKey].cancelRequested = runs[workerKey].cancelRequested
      BY <3>1, <3>2 DEF Run
    <3>4. /\ workerKey' = NoKey /\ outcome' = "none" /\ signals' = {}
          /\ workerPc' = "idle" /\ outcome # "none"
          /\ UNCHANGED <<canceller, restarts, faults>>
          /\ FinalStatus(outcome) \in {"SUCCEEDED", "FAILED"}
      BY <2>6 DEF Finish, LeaveRun, FinalStatus
    <3>5. CancelsRequested'
      <4>1. \A j \in Keys : /\ runs'[j].cancelRequested = runs[j].cancelRequested
                            /\ runs[j].status \in Settled => runs'[j].status \in Settled
        BY <3>1, <3>2, <3>3, <3>4
      <4>2. CancelledOnlyOnRequest'
        BY <3>1, <3>2, <3>3, <3>4, <4>1
      <4>3. ASSUME NEW j \in Keys, runs'[j].cancelRequested PROVE Exists(j)'
        <5>1. CASE j = workerKey
          BY <3>3, <3>4, <5>1
        <5>2. CASE j # workerKey
          BY <3>2, <4>3, <5>2
        <5>3. QED
          BY <5>1, <5>2
      <4>4. QED
        BY <3>4, <4>1, <4>2, <4>3
    <3>6. CancelsPending'
      BY <3>4
    <3>7. OrphanNeedsFailure'
      BY <3>1, <3>2, <3>3, <3>4
    <3>8. QED
      BY <3>5, <3>6, <3>7
  <2>7. QED
    BY <1>3, <2>1, <2>2, <2>3, <2>4, <2>5, <2>6 DEF WorkerStep
<1>4. ASSUME NEW o \in Results, ExecutorReturns(o) PROVE CancelInv'
  BY <1>4 DEF ExecutorReturns
<1>5. CASE Faults
  BY <1>5 DEF Faults, PreparationFails, FinishFails, ClaimFails, LeaveRun
<1>6. CASE StopWorker
  BY <1>6 DEF StopWorker
<1>7. CASE ExitLoop \/ Crash
  BY <1>7 DEF ExitLoop, Crash, ProcessGone
<1>8. CASE UNCHANGED vars
  BY <1>8 DEF vars
<1>9. QED
  BY <1>1, <1>2, <1>3, <1>4, <1>5, <1>6, <1>7, <1>8 DEF Next

LEMMA CancelInvariant == Spec => []CancelInv
<1>1. Init => CancelInv
  BY NullsAssumption
  DEF Init, CancelInv, CancelsRequested, CancelsPending, CancelledOnlyOnRequest,
      OrphanNeedsFailure, Orphan, Exists
<1>2. QED
  BY <1>1, NextCancelInv, IInvariant, PTL DEF Spec

\* Without a database error, a cancel request whose handler is done cannot leave an executor
\* awaited with no callback pending.
THEOREM NoCancelIsLost == Spec => []NoCancelFallsThrough
<1>1. CancelInv => NoCancelFallsThrough
  BY DEF CancelInv, CancelsPending, NoCancelFallsThrough
<1>2. QED
  BY <1>1, CancelInvariant, PTL

\* A callback that lands on the loop of the next run cancels nobody: without a stop or a crash
\* a run is reported as cancelled only if that was asked for.
THEOREM CancelledRunsWereAsked == Spec => []CancelledOnlyOnRequest
<1>1. CancelInv => CancelledOnlyOnRequest
  BY DEF CancelInv, CancelsRequested
<1>2. QED
  BY <1>1, CancelInvariant, PTL

\* As long as nothing has failed, the worker holds every RUNNING run.
THEOREM OrphansNeedFailure == Spec => []OrphanNeedsFailure
<1>1. CancelInv => OrphanNeedsFailure
  BY DEF CancelInv
<1>2. QED
  BY <1>1, CancelInvariant, PTL

-------------------------------------------------------------------------------
(* The queue and its worker implement the abstract job *)

LEMMA InitIsJobInit == Init => Job!JobInit
  BY DEF Init, Job!JobInit, JobState

LEMMA NextIsJobNext == IInv /\ [Next]_vars => [Job!JobNext]_(Job!jobVars)
<1> SUFFICES ASSUME IInv, [Next]_vars
             PROVE  [Job!JobNext]_(Job!jobVars)
  OBVIOUS
<1>0. runs \in [Keys -> Run] /\ entered \in [Keys -> Nat]
  BY DEF IInv, TypeOK
<1> DEFINE jobs == [k \in Keys |-> JobState(runs[k].status)]
<1>1. ASSUME UNCHANGED entered,
             \A j \in Keys : runs'[j].status = runs[j].status
      PROVE  UNCHANGED Job!jobVars
  <2>1. jobs' = jobs
    BY <1>1
  <2>2. QED
    BY <1>1, <2>1 DEF Job!jobVars
<1>2. ASSUME NEW k \in Keys, NEW s \in RunStatus, runs'[k].status = s,
             \A j \in Keys \ {k} : runs'[j].status = runs[j].status
      PROVE  jobs' = [jobs EXCEPT ![k] = JobState(s)]
  BY <1>2
<1>3. CASE Requests
  <2>1. ASSUME NEW k \in Keys, NEW a \in Auths \cup {NoAuth},
               NEW m \in Selections, NEW c \in Contexts,
               InsertRun(k, a, m, c), UNCHANGED entered
        PROVE  Job!Submit(k)
    <3>1. runs'[k].status = "PENDING" /\ runs[k].status = "ABSENT"
      BY <1>0, <2>1 DEF InsertRun, NewRun, Exists
    <3>2. \A j \in Keys \ {k} : runs'[j].status = runs[j].status
      BY <1>0, <2>1 DEF InsertRun
    <3>3. jobs' = [jobs EXCEPT ![k] = JobState("PENDING")]
      BY <1>2, <3>1, <3>2 DEF RunStatus
    <3>4. QED
      BY <2>1, <3>1, <3>3 DEF Job!Submit, JobState
  <2>2. ASSUME NEW k \in Keys, CountReplay(k), UNCHANGED entered
        PROVE  UNCHANGED Job!jobVars
    BY <1>0, <1>1, <2>2 DEF CountReplay, Run
  <2>3. ASSUME UNCHANGED <<runs, entered>>
        PROVE  UNCHANGED Job!jobVars
    BY <1>1, <2>3
  <2>4. QED
    BY <1>3, <2>1, <2>2, <2>3
    DEF Requests, CreateRun, ReplayRun, RedeemAndCreate, RedeemReplay,
        IssueAuthorization, AuthorizationExpires, workerVars, Job!JobNext
<1>4. ASSUME NEW k \in Keys, CancelHandler(k)
      PROVE  [Job!JobNext]_(Job!jobVars)
  <2>1. CASE RequestCancel(k) /\ runs[k].status = "PENDING" /\ ~runs[k].cancelRequested
    <3>1. runs'[k].status = "FAILED" /\ UNCHANGED entered
      BY <1>0, <2>1 DEF RequestCancel, Cancelled, Run, Settled, workerVars
    <3>2. \A j \in Keys \ {k} : runs'[j].status = runs[j].status
      BY <1>0, <2>1 DEF RequestCancel
    <3>3. jobs' = [jobs EXCEPT ![k] = JobState("FAILED")]
      BY <1>2, <3>1, <3>2 DEF RunStatus
    <3>4. Job!Withdraw(k)
      BY <2>1, <3>1, <3>3 DEF Job!Withdraw, JobState
    <3>5. QED
      BY <3>4 DEF Job!JobNext
  <2>2. CASE RequestCancel(k) /\ (runs[k].status # "PENDING" \/ runs[k].cancelRequested)
    <3>1. \A j \in Keys : runs'[j].status = runs[j].status
      BY <1>0, <2>2 DEF RequestCancel, Run
    <3>2. QED
      BY <1>1, <2>2, <3>1 DEF RequestCancel, workerVars
  <2>3. CASE RereadRun(k) \/ SignalWorker(k) \/ CancelHandlerFails(k)
    BY <1>1, <2>3
    DEF RereadRun, SignalWorker, CancelHandlerFails, dbVars, workerVars
  <2>4. QED
    BY <1>4, <2>1, <2>2, <2>3 DEF CancelHandler
<1>5. CASE WorkerStep
  <2>1. ASSUME NEW k \in Keys, ClaimNext(k)
        PROVE  Job!Begin(k)
    <3>1. runs'[k].status = "RUNNING" /\ runs[k].status = "PENDING"
      BY <1>0, <2>1 DEF ClaimNext, Run
    <3>2. \A j \in Keys \ {k} : runs'[j].status = runs[j].status
      BY <1>0, <2>1 DEF ClaimNext
    <3>3. jobs' = [jobs EXCEPT ![k] = JobState("RUNNING")]
      BY <1>2, <3>1, <3>2 DEF RunStatus
    <3>4. QED
      BY <2>1, <3>1, <3>3 DEF Job!Begin, JobState, ClaimNext
  <2>2. ASSUME NEW allowed \in BOOLEAN, EnterExecutor(allowed)
        PROVE  Job!Enter(workerKey)
    <3>1. /\ workerKey \in Keys
          /\ runs[workerKey].status = "RUNNING"
          /\ entered[workerKey] = 0
      BY <2>2 DEF IInv, TypeOK, WorkerHoldsRun, EnteredByPhase, EnterExecutor,
                  Busy
    <3>2. \A j \in Keys : runs'[j].status = runs[j].status
      BY <1>0, <2>2, <3>1 DEF EnterExecutor, Run
    <3>3. jobs' = jobs
      BY <3>2
    <3>4. entered' = [entered EXCEPT ![workerKey] = 1]
      BY <1>0, <2>2, <3>1 DEF EnterExecutor
    <3>5. QED
      BY <3>1, <3>3, <3>4 DEF Job!Enter, JobState
  <2>3. CASE Finish
    <3>1. /\ workerKey \in Keys /\ outcome \in Results
          /\ runs[workerKey].status = "RUNNING"
          /\ outcome = "candidates" => entered[workerKey] = 1
      BY <2>3 DEF IInv, TypeOK, WorkerHoldsRun, EnteredByPhase, Finish, Busy
    <3>2. runs'[workerKey].status = FinalStatus(outcome)
      BY <1>0, <2>3, <3>1 DEF Finish, Run
    <3>3. \A j \in Keys \ {workerKey} : runs'[j].status = runs[j].status
      BY <1>0, <2>3, <3>1 DEF Finish
    <3>4. jobs' = [jobs EXCEPT ![workerKey] = JobState(FinalStatus(outcome))]
      BY <1>2, <3>1, <3>2, <3>3 DEF FinalStatus, RunStatus
    <3>5. CASE outcome = "candidates"
      BY <2>3, <3>1, <3>4, <3>5
      DEF Finish, FinalStatus, JobState, Job!Succeed, Job!JobNext
    <3>6. CASE outcome # "candidates"
      BY <2>3, <3>1, <3>4, <3>6
      DEF Finish, FinalStatus, JobState, Job!Fail, Job!JobNext
    <3>7. QED
      BY <3>5, <3>6
  <2>4. CASE \/ StartWorker \/ Poll \/ NothingToClaim \/ PublishLoop \/ CheckRun
             \/ \E k \in Keys : DeliverSignal(k)
    BY <1>1, <2>4 DEF StartWorker, Poll, NothingToClaim, PublishLoop, CheckRun,
                      DeliverSignal, dbVars
  <2>5. QED
    BY <1>5, <2>1, <2>2, <2>3, <2>4, <1>0
    DEF WorkerStep, Job!JobNext, EnterExecutor, IInv, TypeOK, WorkerHoldsRun, Busy
<1>6. ASSUME NEW o \in Results, ExecutorReturns(o)
      PROVE  UNCHANGED Job!jobVars
  BY <1>1, <1>6 DEF ExecutorReturns, dbVars
<1>7. CASE Faults \/ StopWorker \/ ExitLoop \/ Crash \/ UNCHANGED vars
  BY <1>1, <1>7 DEF Faults, PreparationFails, FinishFails, ClaimFails,
                    StopWorker, ExitLoop, Crash, dbVars, vars
<1>8. QED
  BY <1>3, <1>4, <1>5, <1>6, <1>7 DEF Next

\* Every behaviour of the queue, its worker, its cancel handlers and its
\* restarts is a behaviour of the abstract job.
THEOREM QueueImplementsJob == Spec => ImplementsJob
<1>1. IInv /\ [Next]_vars => [Job!JobNext]_(Job!jobVars)
  BY NextIsJobNext
<1>2. QED
  BY <1>1, InitIsJobInit, IInvariant, PTL
  DEF Spec, ImplementsJob, Job!JobSpec
==============================================================================
