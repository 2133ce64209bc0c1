-------------------------- MODULE QuotaReservations --------------------------
(***************************************************************************)
(* The daily allowance of one participant (app/services/beta_usage.py) and *)
(* the synchronous handlers that spend it through the one managed runtime  *)
(* they all share (app/services/ai_runtime.py _call): evidence analysis,   *)
(* AI reference, evidence guidance and competitor comparison.              *)
(*                                                                         *)
(* Handlers run on threads of their own.  A transaction of the usage       *)
(* service is one action; so is one access to the runtime's attribute      *)
(* _pending_reservation, which the threads share without a lock.           *)
(***************************************************************************)
EXTENDS Integers, FiniteSets

CONSTANTS
    Calls,             \* provider calls, each on a thread of its own
    Operations,        \* operation types with an allowance of their own
    Operation,         \* the operation type of a call
    Committers,        \* the calls of handlers that commit (evidence analysis)
    NoCall,            \* _pending_reservation is None
    Limit,             \* the allowance of a day, per operation type
    MaxDay,            \* bound: days that pass
    MaxCrashes         \* bound: times the process dies

ASSUME CallsAssumption ==
    /\ IsFiniteSet(Calls)
    /\ Operation \in [Calls -> Operations]
    /\ Committers \subseteq Calls
    /\ NoCall \notin Calls
ASSUME AllowanceAssumption ==
    /\ Limit \in [Operations -> Nat \ {0}]
    /\ MaxDay \in Nat
    /\ MaxCrashes \in Nat

Days == 0 .. MaxDay

VARIABLES
    today,             \* the local calendar day
    usage,             \* beta_daily_usage.request_count; no row counts as 0
    state,             \* beta_quota_reservations.state; "none" is no row
    date,              \* the day the call read from the clock: its usage_date
    pc,                \* where the call's thread is
    pending,           \* the reservation a commit has read from the runtime
    slot,              \* the shared runtime's _pending_reservation
    crashes            \* counts crashes, up to MaxCrashes

vars == <<today, usage, state, date, pc, pending, slot, crashes>>

Held == {"RESERVED", "COMMITTED"}
Pcs  == {"idle", "dated", "refused", "reserved", "calling", "releasing",
         "failed", "answered", "unusable", "committing", "clearing",
         "delivered", "dead"}

TypeOK ==
    /\ today \in Days
    /\ usage \in [Days \X Operations -> Nat]
    /\ state \in [Calls -> {"none", "RESERVED", "COMMITTED", "RELEASED"}]
    /\ date \in [Calls -> Days]
    /\ pc \in [Calls -> Pcs]
    /\ pending \in [Calls -> Calls \cup {NoCall}]
    /\ slot \in Calls \cup {NoCall}
    /\ crashes \in 0 .. MaxCrashes

Init ==
    /\ today = 0
    /\ usage = [row \in Days \X Operations |-> 0]
    /\ state = [c \in Calls |-> "none"]
    /\ date = [c \in Calls |-> 0]
    /\ pc = [c \in Calls |-> "idle"]
    /\ pending = [c \in Calls |-> NoCall]
    /\ slot = NoCall
    /\ crashes = 0

Goto(c, from, to) == pc[c] = from /\ pc' = [pc EXCEPT ![c] = to]

-------------------------------------------------------------------------------
(* Reserving *)

\* consume reads the clock before it waits for the database.
ReadClock(c) ==
    /\ Goto(c, "idle", "dated")
    /\ date' = [date EXCEPT ![c] = today]
    /\ UNCHANGED <<today, usage, state, pending, slot, crashes>>

Row(c) == <<date[c], Operation[c]>>

\* Mutant of Consume: one more than the allowance.
ConsumeOneMore(c) ==
    /\ usage[Row(c)] <= Limit[Operation[c]]
    /\ Goto(c, "dated", "reserved")
    /\ usage' = [usage EXCEPT ![Row(c)] = @ + 1]
    /\ state' = [state EXCEPT ![c] = "RESERVED"]
    /\ UNCHANGED <<today, date, pending, slot, crashes>>

Consume(c) ==
    /\ usage[Row(c)] < Limit[Operation[c]]
    /\ Goto(c, "dated", "reserved")
    /\ usage' = [usage EXCEPT ![Row(c)] = @ + 1]
    /\ state' = [state EXCEPT ![c] = "RESERVED"]
    /\ UNCHANGED <<today, date, pending, slot, crashes>>

Refuse(c) ==
    /\ usage[Row(c)] >= Limit[Operation[c]]
    /\ Goto(c, "dated", "refused")
    /\ UNCHANGED <<today, usage, state, date, pending, slot, crashes>>

Remember(c) ==
    /\ Goto(c, "reserved", "calling")
    /\ slot' = c
    /\ UNCHANGED <<today, usage, state, date, pending, crashes>>

-------------------------------------------------------------------------------
(* The provider call and its handler *)

\* release, a transaction: only a reservation still RESERVED gives its use
\* back, to the day it was taken from; the last use of a day deletes the row.
ReleaseOf(r, day) ==
    IF state[r] = "RESERVED"
    THEN /\ state' = [state EXCEPT ![r] = "RELEASED"]
         /\ usage' = [usage EXCEPT ![<<day, Operation[r]>>] =
                        IF @ <= 1 THEN 0 ELSE @ - 1]
    ELSE UNCHANGED <<state, usage>>

\* Mutant of ProviderFails: the use is given back to the current day.
ProviderFailsToday(c) ==
    /\ Goto(c, "calling", "releasing")
    /\ ReleaseOf(c, today)
    /\ UNCHANGED <<today, date, pending, slot, crashes>>

\* Mutant of ProviderFails: what the runtime remembers is released instead of
\* the call's own reservation.
ProviderFailsOnSlot(c) ==
    /\ Goto(c, "calling", "releasing")
    /\ slot # NoCall
    /\ ReleaseOf(slot, date[slot])
    /\ UNCHANGED <<today, date, pending, slot, crashes>>

\* Mutant of ProviderFails: the state of the reservation is not looked at.
ProviderFailsUnchecked(c) ==
    /\ Goto(c, "calling", "releasing")
    /\ state' = [state EXCEPT ![c] = "RELEASED"]
    /\ usage' = [usage EXCEPT ![Row(c)] = IF @ <= 1 THEN 0 ELSE @ - 1]
    /\ UNCHANGED <<today, date, pending, slot, crashes>>

\* The call fails, or its adapter cannot be built: its own reservation is
\* released ...
ProviderFails(c) ==
    /\ Goto(c, "calling", "releasing")
    /\ ReleaseOf(c, date[c])
    /\ UNCHANGED <<today, date, pending, slot, crashes>>

\* ... and forgotten, if it is the one the runtime remembers.
Forget(c) ==
    /\ Goto(c, "releasing", "failed")
    /\ slot' = IF slot = c THEN NoCall ELSE slot
    /\ UNCHANGED <<today, usage, state, date, pending, crashes>>

ProviderAnswers(c) ==
    /\ Goto(c, "calling", "answered")
    /\ UNCHANGED <<today, usage, state, date, pending, slot, crashes>>

\* The answer has no usable content, or storing it fails: an exception leaves
\* the handler, past the runtime.
HandlerFails(c) ==
    /\ Goto(c, "answered", "unusable")
    /\ UNCHANGED <<today, usage, state, date, pending, slot, crashes>>

\* AI reference, guidance and comparison store their result and return.
DeliverUncommitted(c) ==
    /\ c \notin Committers
    /\ Goto(c, "answered", "delivered")
    /\ UNCHANGED <<today, usage, state, date, pending, slot, crashes>>

\* commit_current_reservation: read the attribute, ...
ReadPending(c) ==
    /\ c \in Committers
    /\ Goto(c, "answered", "committing")
    /\ pending' = [pending EXCEPT ![c] = slot]
    /\ UNCHANGED <<today, usage, state, date, slot, crashes>>

\* Mutant of CommitPending: the WHERE clause has lost the state.
CommitUnchecked(c) ==
    /\ Goto(c, "committing", "clearing")
    /\ state' = IF pending[c] # NoCall
                THEN [state EXCEPT ![pending[c]] = "COMMITTED"] ELSE state
    /\ UNCHANGED <<today, usage, date, pending, slot, crashes>>

\* ... commit what was read, a transaction, ...
CommitPending(c) ==
    /\ Goto(c, "committing", "clearing")
    /\ state' = IF pending[c] # NoCall /\ state[pending[c]] = "RESERVED"
                THEN [state EXCEPT ![pending[c]] = "COMMITTED"] ELSE state
    /\ UNCHANGED <<today, usage, date, pending, slot, crashes>>

\* ... and clear the attribute, whatever it holds by now.
ClearSlot(c) ==
    /\ Goto(c, "clearing", "delivered")
    /\ slot' = NoCall
    /\ pending' = [pending EXCEPT ![c] = NoCall]
    /\ UNCHANGED <<today, usage, state, date, crashes>>

-------------------------------------------------------------------------------

NewDay ==
    /\ today < MaxDay
    /\ today' = today + 1
    /\ UNCHANGED <<usage, state, date, pc, pending, slot, crashes>>

\* The process dies and comes back: its threads and its runtime are gone.
Crash ==
    /\ crashes < MaxCrashes
    /\ crashes' = crashes + 1
    /\ pc' = [c \in Calls |->
                IF pc[c] \in {"idle", "refused", "failed", "unusable", "delivered"}
                THEN pc[c] ELSE "dead"]
    /\ pending' = [c \in Calls |-> NoCall]
    /\ slot' = NoCall
    /\ UNCHANGED <<today, usage, state, date>>

CallStep(c) ==
    \/ ReadClock(c) \/ Consume(c) \/ Refuse(c) \/ Remember(c)
    \/ ProviderFails(c) \/ Forget(c) \/ ProviderAnswers(c)
    \/ HandlerFails(c) \/ DeliverUncommitted(c)
    \/ ReadPending(c) \/ CommitPending(c) \/ ClearSlot(c)

Next == (\E c \in Calls : CallStep(c)) \/ NewDay \/ Crash

Spec == Init /\ [][Next]_vars

-------------------------------------------------------------------------------
(* Properties *)

HeldOn(d, o) == {c \in Calls : /\ state[c] \in Held
                               /\ date[c] = d
                               /\ Operation[c] = o}

\* The counter of a day and the reservations are two tables that every
\* transaction has to keep in step: midnight between a reservation and its
\* release, two releases and a release after somebody's commit included.
UsageCountsReservations ==
    \A d \in Days, o \in Operations :
        usage[<<d, o>>] = Cardinality(HeldOn(d, o))

\* The allowance of the day a call is booked on is never exceeded.
UsageWithinLimit ==
    \A d \in Days, o \in Operations : usage[<<d, o>>] <= Limit[o]

\* Whoever else uses the runtime at the same time, a call that was answered
\* never loses its reservation.
AnsweredIsNotReleased ==
    \A c \in Calls :
        pc[c] \in {"answered", "committing", "clearing", "delivered"}
            => state[c] # "RELEASED"

\* A reservation is settled once.
SettledOnce == \A c \in Calls : state[c] \in {"COMMITTED", "RELEASED"}
                                  => state'[c] = state[c]
ReservationsSettleOnce == [][SettledOnce]_vars

\* What the docstring of commit promises: a call that was delivered to the
\* user is committed.
DeliveredIsCommitted ==
    \A c \in Calls : pc[c] = "delivered" => state[c] = "COMMITTED"

\* What the docstring of release promises: a call the provider did not answer
\* has its reservation released.
FailedIsReleased ==
    \A c \in Calls : pc[c] = "failed" => state[c] = "RELEASED"
==============================================================================
