----------------------- MODULE QuotaReservationsProofs -----------------------
(***************************************************************************)
(* Proofs about QuotaReservations, for every finite set of calls, every    *)
(* mix of handlers and operation types, every allowance and every bound.   *)
(***************************************************************************)
EXTENDS QuotaReservations, FiniteSetTheorems, TLAPS

-------------------------------------------------------------------------------
(* The inductive invariant *)

\* A call has a reservation from consume on, and one that was not seen to fail
\* still holds it.
ReservationByPhase ==
    \A c \in Calls :
        /\ pc[c] \in {"idle", "dated", "refused"} => state[c] = "none"
        /\ pc[c] \in {"reserved", "calling", "answered", "committing",
                      "clearing", "delivered"} => state[c] \in Held

IInv ==
    /\ TypeOK
    /\ ReservationByPhase
    /\ UsageCountsReservations
    /\ UsageWithinLimit

LEMMA InitIInv == Init => IInv
<1> SUFFICES ASSUME Init PROVE IInv
  OBVIOUS
<1>1. TypeOK
  BY CallsAssumption, AllowanceAssumption DEF Init, TypeOK, Days, Pcs
<1>2. ReservationByPhase
  BY DEF Init, ReservationByPhase
<1>3. ASSUME NEW d \in Days, NEW o \in Operations
      PROVE  usage[<<d, o>>] = 0 /\ HeldOn(d, o) = {}
  BY <1>3 DEF Init, HeldOn, Held
<1>4. UsageCountsReservations
  BY <1>3, FS_EmptySet DEF UsageCountsReservations
<1>5. UsageWithinLimit
  <2>1. \A o \in Operations : Limit[o] \in Nat
    BY AllowanceAssumption
  <2>2. ASSUME NEW d \in Days, NEW o \in Operations
        PROVE  usage[<<d, o>>] <= Limit[o]
    <3>1. usage[<<d, o>>] = 0
      BY <1>3
    <3>2. Limit[o] \in Nat
      BY <2>1
    <3>3. QED
      BY <3>1, <3>2
  <2>3. QED
    BY <2>2 DEF UsageWithinLimit
<1>6. QED
  BY <1>1, <1>2, <1>4, <1>5 DEF IInv

\* The reservations of a day are finitely many.
LEMMA HeldFinite ==
  ASSUME NEW d, NEW o
  PROVE  IsFiniteSet(HeldOn(d, o)) /\ Cardinality(HeldOn(d, o)) \in Nat
<1>1. HeldOn(d, o) \subseteq Calls
  BY DEF HeldOn
<1>2. QED
  BY <1>1, FS_Subset, FS_CardinalityType, CallsAssumption

-------------------------------------------------------------------------------
(* Steps that leave the two tables alone *)

\* Where neither the counters nor the reservations change, nor the day of a
\* reservation that is held, the two stay in step.
LEMMA TablesUntouched ==
  ASSUME UsageCountsReservations, UsageWithinLimit, usage' = usage,
         \A d \in Days, o \in Operations : HeldOn(d, o)' = HeldOn(d, o)
  PROVE  UsageCountsReservations' /\ UsageWithinLimit'
BY DEF UsageCountsReservations, UsageWithinLimit

LEMMA SameHeld ==
  ASSUME state' = state, date' = date
  PROVE  \A d, o : HeldOn(d, o)' = HeldOn(d, o)
BY DEF HeldOn

-------------------------------------------------------------------------------
(* Reserving and releasing move counter and reservation together *)

LEMMA ConsumeKeepsStep ==
  ASSUME IInv, NEW c \in Calls, Consume(c)
  PROVE  UsageCountsReservations' /\ UsageWithinLimit'
<1> USE CallsAssumption DEF IInv, TypeOK
<1>1. /\ state[c] = "none"
      /\ Row(c) \in Days \X Operations
      /\ usage' = [usage EXCEPT ![Row(c)] = @ + 1]
      /\ state' = [state EXCEPT ![c] = "RESERVED"]
      /\ date' = date
      /\ usage[Row(c)] < Limit[Operation[c]]
  BY DEF Consume, Goto, ReservationByPhase, Row
<1>2. ASSUME NEW d \in Days, NEW o \in Operations
      PROVE  usage'[<<d, o>>] = Cardinality(HeldOn(d, o)') /\ usage'[<<d, o>>] <= Limit[o]
  <2>1. CASE <<d, o>> = Row(c)
    <3>1. HeldOn(d, o)' = HeldOn(d, o) \cup {c} /\ c \notin HeldOn(d, o)
      BY <1>1, <2>1 DEF HeldOn, Held, Row
    <3>2. Cardinality(HeldOn(d, o)') = Cardinality(HeldOn(d, o)) + 1
      BY <3>1, FS_AddElement, HeldFinite
    <3>3. usage[<<d, o>>] = Cardinality(HeldOn(d, o)) /\ usage[<<d, o>>] \in Nat
      BY DEF UsageCountsReservations
    <3>4. usage'[<<d, o>>] = usage[<<d, o>>] + 1
      BY <1>1, <2>1
    <3>5. usage[<<d, o>>] < Limit[o] /\ Limit[o] \in Nat
      BY <1>1, <2>1, AllowanceAssumption DEF Row
    <3>6. QED
      BY <3>2, <3>3, <3>4, <3>5
  <2>2. CASE <<d, o>> # Row(c)
    <3>1. HeldOn(d, o)' = HeldOn(d, o)
      BY <1>1, <2>2 DEF HeldOn, Held, Row
    <3>2. usage'[<<d, o>>] = usage[<<d, o>>]
      BY <1>1, <2>2
    <3>3. QED
      BY <3>1, <3>2 DEF UsageCountsReservations, UsageWithinLimit
  <2>3. QED
    BY <2>1, <2>2
<1>3. QED
  BY <1>2 DEF UsageCountsReservations, UsageWithinLimit

LEMMA ReleaseKeepsStep ==
  ASSUME IInv, NEW c \in Calls, ProviderFails(c)
  PROVE  UsageCountsReservations' /\ UsageWithinLimit'
<1> USE CallsAssumption DEF IInv, TypeOK
<1>1. CASE state[c] # "RESERVED"
  BY <1>1, SameHeld, TablesUntouched DEF ProviderFails, ReleaseOf
<1>2. CASE state[c] = "RESERVED"
  <2>1. /\ Row(c) \in Days \X Operations
        /\ usage' = [usage EXCEPT ![Row(c)] = IF @ <= 1 THEN 0 ELSE @ - 1]
        /\ state' = [state EXCEPT ![c] = "RELEASED"]
        /\ date' = date
    BY <1>2 DEF ProviderFails, ReleaseOf, Row
  <2>2. ASSUME NEW d \in Days, NEW o \in Operations
        PROVE  /\ usage'[<<d, o>>] = Cardinality(HeldOn(d, o)')
               /\ usage'[<<d, o>>] <= Limit[o]
    <3>0. /\ usage[<<d, o>>] = Cardinality(HeldOn(d, o)) /\ usage[<<d, o>>] \in Nat
          /\ usage[<<d, o>>] <= Limit[o] /\ Limit[o] \in Nat
      BY AllowanceAssumption DEF UsageCountsReservations, UsageWithinLimit
    <3>1. CASE <<d, o>> = Row(c)
      <4>1. HeldOn(d, o)' = HeldOn(d, o) \ {c} /\ c \in HeldOn(d, o)
        BY <1>2, <2>1, <3>1 DEF HeldOn, Held, Row
      <4>2. Cardinality(HeldOn(d, o)') = Cardinality(HeldOn(d, o)) - 1
        BY <4>1, FS_RemoveElement, HeldFinite
      <4>3. Cardinality(HeldOn(d, o)) # 0
        BY <4>1, FS_EmptySet, HeldFinite
      <4>4. usage'[<<d, o>>] = IF usage[<<d, o>>] <= 1 THEN 0 ELSE usage[<<d, o>>] - 1
        BY <2>1, <3>1
      <4>5. QED
        BY <3>0, <4>2, <4>3, <4>4
    <3>2. CASE <<d, o>> # Row(c)
      <4>1. HeldOn(d, o)' = HeldOn(d, o)
        BY <2>1, <3>2 DEF HeldOn, Held, Row
      <4>2. usage'[<<d, o>>] = usage[<<d, o>>]
        BY <2>1, <3>2
      <4>3. QED
        BY <3>0, <4>1, <4>2
    <3>3. QED
      BY <3>1, <3>2
  <2>3. QED
    BY <2>2 DEF UsageCountsReservations, UsageWithinLimit
<1>3. QED
  BY <1>1, <1>2

LEMMA CommitKeepsStep ==
  ASSUME IInv, NEW c \in Calls, CommitPending(c)
  PROVE  UsageCountsReservations' /\ UsageWithinLimit'
<1>1. \A d \in Days, o \in Operations : HeldOn(d, o)' = HeldOn(d, o)
  BY DEF IInv, TypeOK, CommitPending, HeldOn, Held
<1>2. QED
  BY <1>1, TablesUntouched DEF IInv, CommitPending

LEMMA ClockKeepsStep ==
  ASSUME IInv, NEW c \in Calls, ReadClock(c)
  PROVE  UsageCountsReservations' /\ UsageWithinLimit'
<1>1. state[c] = "none"
  BY DEF IInv, ReadClock, Goto, ReservationByPhase
<1>2. \A d \in Days, o \in Operations : HeldOn(d, o)' = HeldOn(d, o)
  BY <1>1 DEF IInv, TypeOK, ReadClock, HeldOn, Held
<1>3. QED
  BY <1>2, TablesUntouched DEF IInv, ReadClock

-------------------------------------------------------------------------------
(* Every step preserves the invariant *)

LEMMA TypeOKStep == IInv /\ [Next]_vars => TypeOK'
<1> SUFFICES ASSUME IInv, [Next]_vars PROVE TypeOK'
  OBVIOUS
<1> USE CallsAssumption, AllowanceAssumption DEF IInv, TypeOK
<1>1. ASSUME NEW c \in Calls, CallStep(c) PROVE TypeOK'
  <2>1. pc' \in [Calls -> Pcs]
    BY <1>1
    DEF CallStep, ReadClock, Consume, Refuse, Remember, ProviderFails, Forget,
        ProviderAnswers, HandlerFails, DeliverUncommitted, ReadPending,
        CommitPending, ClearSlot, Goto, Pcs
  <2>2. Row(c) \in Days \X Operations
    BY DEF Row
  <2>3. usage' \in [Days \X Operations -> Nat]
    <3>1. CASE Consume(c)
      BY <2>2, <3>1 DEF Consume
    <3>2. CASE ProviderFails(c)
      <4>1. \/ usage' = usage
            \/ usage' = [usage EXCEPT ![Row(c)] = IF @ <= 1 THEN 0 ELSE @ - 1]
        BY <3>2 DEF ProviderFails, ReleaseOf, Row
      <4>2. (IF usage[Row(c)] <= 1 THEN 0 ELSE usage[Row(c)] - 1) \in Nat
        BY <2>2
      <4>3. QED
        BY <2>2, <4>1, <4>2
    <3>3. QED
      BY <1>1, <3>1, <3>2
      DEF CallStep, ReadClock, Refuse, Remember, Forget, ProviderAnswers,
          HandlerFails, DeliverUncommitted, ReadPending, CommitPending, ClearSlot
  <2>4. /\ state' \in [Calls -> {"none", "RESERVED", "COMMITTED", "RELEASED"}]
        /\ date' \in [Calls -> Days]
        /\ pending' \in [Calls -> Calls \cup {NoCall}]
        /\ slot' \in Calls \cup {NoCall}
        /\ today' = today /\ crashes' = crashes
    BY <1>1
    DEF CallStep, ReadClock, Consume, Refuse, Remember, ProviderFails, ReleaseOf,
        Forget, ProviderAnswers, HandlerFails, DeliverUncommitted, ReadPending,
        CommitPending, ClearSlot
  <2>5. QED
    BY <2>1, <2>3, <2>4
<1>2. CASE NewDay
  BY <1>2 DEF NewDay, Days
<1>3. CASE Crash
  BY <1>3 DEF Crash, Pcs
<1>4. CASE UNCHANGED vars
  BY <1>4 DEF vars
<1>5. QED
  BY <1>1, <1>2, <1>3, <1>4 DEF Next

LEMMA PhaseStep == IInv /\ [Next]_vars => ReservationByPhase'
<1> SUFFICES ASSUME IInv, [Next]_vars PROVE ReservationByPhase'
  OBVIOUS
<1> USE DEF IInv, TypeOK, ReservationByPhase, Held
<1>1. ASSUME NEW c \in Calls, CallStep(c) PROVE ReservationByPhase'
  <2>1. CASE ReadClock(c) \/ Consume(c) \/ Refuse(c) \/ Remember(c)
    BY <2>1 DEF ReadClock, Consume, Refuse, Remember, Goto
  <2>2. CASE ProviderFails(c)
    BY <2>2 DEF ProviderFails, ReleaseOf, Goto
  <2>3. CASE \/ Forget(c) \/ ProviderAnswers(c) \/ HandlerFails(c)
             \/ DeliverUncommitted(c) \/ ReadPending(c) \/ ClearSlot(c)
    BY <2>3
    DEF Forget, ProviderAnswers, HandlerFails, DeliverUncommitted, ReadPending,
        ClearSlot, Goto
  <2>4. CASE CommitPending(c)
    BY <2>4 DEF CommitPending, Goto
  <2>5. QED
    BY <1>1, <2>1, <2>2, <2>3, <2>4 DEF CallStep
<1>2. CASE NewDay \/ UNCHANGED vars
  BY <1>2 DEF NewDay, vars
<1>3. CASE Crash
  BY <1>3 DEF Crash
<1>4. QED
  BY <1>1, <1>2, <1>3 DEF Next

LEMMA TablesStep ==
  IInv /\ [Next]_vars => UsageCountsReservations' /\ UsageWithinLimit'
<1> SUFFICES ASSUME IInv, [Next]_vars
             PROVE  UsageCountsReservations' /\ UsageWithinLimit'
  OBVIOUS
<1>1. ASSUME usage' = usage, state' = state, date' = date
      PROVE  UsageCountsReservations' /\ UsageWithinLimit'
  BY <1>1, SameHeld, TablesUntouched DEF IInv
<1>2. ASSUME NEW c \in Calls, CallStep(c)
      PROVE  UsageCountsReservations' /\ UsageWithinLimit'
  BY <1>1, <1>2, ClockKeepsStep, ConsumeKeepsStep, ReleaseKeepsStep,
     CommitKeepsStep
  DEF CallStep, Refuse, Remember, Forget, ProviderAnswers, HandlerFails,
      DeliverUncommitted, ReadPending, ClearSlot
<1>3. CASE NewDay \/ Crash \/ UNCHANGED vars
  BY <1>1, <1>3 DEF NewDay, Crash, vars
<1>4. QED
  BY <1>2, <1>3 DEF Next

LEMMA IInvariant == Spec => []IInv
<1>1. IInv /\ [Next]_vars => IInv'
  BY TypeOKStep, PhaseStep, TablesStep DEF IInv
<1>2. QED
  BY InitIInv, <1>1, PTL DEF Spec

-------------------------------------------------------------------------------
(* The theorems *)

\* Every reachable state is well typed.
THEOREM TypeCorrect == Spec => []TypeOK
<1>1. IInv => TypeOK
  BY DEF IInv
<1>2. QED
  BY <1>1, IInvariant, PTL

\* Counter and reservations stay in step across threads, midnight and crashes.
THEOREM CounterMatchesLedger == Spec => []UsageCountsReservations
<1>1. IInv => UsageCountsReservations
  BY DEF IInv
<1>2. QED
  BY <1>1, IInvariant, PTL

\* However many threads reserve at once, no day's allowance is exceeded.
THEOREM AllowanceKept == Spec => []UsageWithinLimit
<1>1. IInv => UsageWithinLimit
  BY DEF IInv
<1>2. QED
  BY <1>1, IInvariant, PTL

\* An answered call never loses its reservation to another thread's failure.
THEOREM AnswerKeepsReservation == Spec => []AnsweredIsNotReleased
<1>1. IInv => AnsweredIsNotReleased
  BY DEF IInv, ReservationByPhase, AnsweredIsNotReleased, Held
<1>2. QED
  BY <1>1, IInvariant, PTL

\* A reservation is committed or released once, whoever does it.
THEOREM SettlesOnce == Spec => ReservationsSettleOnce
<1>1. IInv /\ [Next]_vars => SettledOnce
  <2> SUFFICES ASSUME IInv, [Next]_vars PROVE SettledOnce
    OBVIOUS
  <2> USE DEF IInv, TypeOK, ReservationByPhase, SettledOnce
  <2>1. ASSUME UNCHANGED state PROVE SettledOnce
    BY <2>1
  <2>2. ASSUME NEW c \in Calls, Consume(c) PROVE SettledOnce
    BY <2>2 DEF Consume, Goto
  <2>3. ASSUME NEW c \in Calls, ProviderFails(c) PROVE SettledOnce
    BY <2>3 DEF ProviderFails, ReleaseOf
  <2>4. ASSUME NEW c \in Calls, CommitPending(c) PROVE SettledOnce
    BY <2>4 DEF CommitPending
  <2>5. QED
    BY <2>1, <2>2, <2>3, <2>4
    DEF Next, CallStep, ReadClock, Refuse, Remember, Forget, ProviderAnswers,
        HandlerFails, DeliverUncommitted, ReadPending, ClearSlot, NewDay, Crash,
        vars
<1>2. QED
  BY <1>1, IInvariant, PTL DEF Spec, ReservationsSettleOnce

-------------------------------------------------------------------------------
(* One call at a time *)

\* The call is between its reservation and its end: the runtime may have to
\* remember it.
Using(c) == pc[c] \in {"reserved", "calling", "releasing", "answered",
                       "committing", "clearing"}

OneAtATime == \A c, d \in Calls : Using(c) /\ Using(d) => c = d

\* What the shared attribute would have to guarantee: the runtime remembers
\* the reservation of the call that is using it.
OwnReservation ==
    \A c \in Calls :
        /\ pc[c] \in {"calling", "answered"} => slot = c
        /\ pc[c] = "committing" => pending[c] = c
        /\ pc[c] \in {"reserved", "calling", "answered", "committing"}
             => state[c] = "RESERVED"
        /\ pc[c] = "clearing" => state[c] = "COMMITTED"
        /\ pc[c] = "delivered" /\ c \in Committers => state[c] = "COMMITTED"
        /\ pc[c] \in {"releasing", "failed"} => state[c] = "RELEASED"

LEMMA OwnReservationStep ==
  ASSUME IInv, OneAtATime, OneAtATime', OwnReservation, [Next]_vars
  PROVE  OwnReservation'
<1> USE CallsAssumption DEF IInv, TypeOK, OneAtATime, OwnReservation, Using
<1>1. ASSUME NEW c \in Calls, CallStep(c) PROVE OwnReservation'
  <2>1. CASE ReadClock(c) \/ Refuse(c)
    BY <2>1 DEF ReadClock, Refuse, Goto
  <2>2. CASE Consume(c)
    BY <2>2 DEF Consume, Goto
  <2>3. CASE Remember(c)
    BY <2>3 DEF Remember, Goto
  <2>4. CASE ProviderFails(c)
    BY <2>4 DEF ProviderFails, ReleaseOf, Goto
  <2>5. CASE Forget(c)
    BY <2>5 DEF Forget, Goto
  <2>6. CASE ProviderAnswers(c) \/ HandlerFails(c) \/ DeliverUncommitted(c)
    BY <2>6 DEF ProviderAnswers, HandlerFails, DeliverUncommitted, Goto
  <2>7. CASE ReadPending(c)
    BY <2>7 DEF ReadPending, Goto
  <2>8. CASE CommitPending(c)
    <3>1. pending[c] = c /\ state[c] = "RESERVED" /\ pc[c] = "committing"
      BY <2>8 DEF CommitPending, Goto
    <3>2. state' = [state EXCEPT ![c] = "COMMITTED"]
      BY <2>8, <3>1 DEF CommitPending
    <3>3. QED
      BY <2>8, <3>1, <3>2 DEF CommitPending, Goto
  <2>9. CASE ClearSlot(c)
    BY <2>9 DEF ClearSlot, Goto
  <2>10. QED
    BY <1>1, <2>1, <2>2, <2>3, <2>4, <2>5, <2>6, <2>7, <2>8, <2>9 DEF CallStep
<1>2. CASE NewDay \/ UNCHANGED vars
  BY <1>2 DEF NewDay, vars
<1>3. CASE Crash
  BY <1>3 DEF Crash
<1>4. QED
  BY <1>1, <1>2, <1>3 DEF Next

\* Where calls do not overlap, the two promises that the runs refute hold: a
\* call the provider did not answer is released, and a delivered call of a
\* handler that commits is committed.  It is the shared attribute that breaks
\* them, and nothing else in the two services.
THEOREM OneAtATimeSettles ==
  Spec /\ []OneAtATime
    => []( /\ FailedIsReleased
           /\ \A c \in Committers : pc[c] = "delivered" => state[c] = "COMMITTED")
<1>1. Init => OwnReservation
  BY DEF Init, OwnReservation
<1>2. IInv /\ OneAtATime /\ OneAtATime' /\ OwnReservation /\ [Next]_vars
        => OwnReservation'
  BY OwnReservationStep
<1>3. OwnReservation
        => /\ FailedIsReleased
           /\ \A c \in Committers : pc[c] = "delivered" => state[c] = "COMMITTED"
  BY CallsAssumption DEF OwnReservation, FailedIsReleased
<1>4. QED
  BY <1>1, <1>2, <1>3, IInvariant, PTL DEF Spec
==============================================================================
